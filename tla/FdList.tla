------------------------------- MODULE FdList -------------------------------
(***************************************************************************)
(* list.c, the list behind the descriptors of spiffs_vfs.c: an array that  *)
(* grows by one entry, whose deleted entries form a free chain.  Every     *)
(* function holds the list's mutex from its first access to its last, so   *)
(* each is one step.  The callers are tasks that open and close files.     *)
(***************************************************************************)
EXTENDS Integers

CONSTANTS
    Tasks,
    Items,        \* the blocks calloc can return
    Junk,         \* what memory that was never written may hold, as an entry
    MaxIndexes,   \* bound: list->indexes
    NoEntry, NoItem

ASSUME NoEntryAssumption == NoEntry \notin Nat
ASSUME NoItemAssumption == NoItem \notin Items
ASSUME IndexesAssumption == MaxIndexes \in Nat

Entry == [item : Items \cup {NoItem}, next : Nat \cup {NoEntry}, deleted : BOOLEAN]

ASSUME JunkAssumption == Junk \subseteq Entry

VARIABLES
    indexes,   \* list->indexes
    array,     \* list->index, as long as it was last allocated
    free,      \* list->free, as an index of array
    live,      \* allocated items
    held,      \* the descriptors each task was given, with their items
    issued     \* history: every descriptor list_add has returned

list == <<indexes, array, free>>
vars == <<list, live, held, issued>>

InUse(item) == [item |-> item, next |-> NoEntry, deleted |-> FALSE]

(* list_init(list, 0) *)
Init == /\ indexes = 0 /\ array = [i \in {} |-> InUse(NoItem)] /\ free = NoEntry
        /\ live = {} /\ held = [t \in Tasks |-> {}] /\ issued = {}

Give(t, fd, item) ==
    /\ held' = [held EXCEPT ![t] = @ \cup {[fd |-> fd, item |-> item]}]
    /\ issued' = issued \cup {fd}

(* The new array: the old one, the entry that is added and, in between,    *)
(* what memory held that list_add never wrote.                             *)
Copied(item, rest) ==
    [i \in 0..indexes |-> IF i = indexes THEN InUse(item)
                          ELSE IF i \in DOMAIN array THEN array[i]
                          ELSE rest[i]]

-----------------------------------------------------------------------------
(* list_add, with the allocation its caller makes before. *)

(* Faulty variant: the chain keeps the entry that was taken. *)
ReuseKeepsHead(t, item) ==
    /\ free # NoEntry
    /\ free' = free
    /\ array' = [array EXCEPT ![free] = InUse(item)]
    /\ Give(t, free, item)
    /\ UNCHANGED indexes

Reuse(t, item) ==
    /\ free # NoEntry
    /\ free' = array[free].next
    /\ array' = [array EXCEPT ![free] = InUse(item)]
    /\ Give(t, free, item)
    /\ UNCHANGED indexes

(* Faulty variant: the new array starts one entry late. *)
GrowShifted(t, item) ==
    /\ free = NoEntry /\ indexes < MaxIndexes
    /\ indexes' = indexes + 1
    /\ array' = [i \in 0..indexes |-> IF i = indexes THEN InUse(item)
                                      ELSE IF i + 1 \in DOMAIN array THEN array[i + 1]
                                      ELSE InUse(NoItem)]
    /\ Give(t, indexes, item)
    /\ UNCHANGED free

(* Faulty variant: the index count is not advanced. *)
GrowUncounted(t, item) ==
    /\ free = NoEntry /\ indexes < MaxIndexes
    /\ \E rest \in [0..indexes -> Junk] : array' = Copied(item, rest)
    /\ Give(t, indexes, item)
    /\ UNCHANGED <<indexes, free>>

(* A failed growth has left indexes ahead of the array: the copy then      *)
(* reads behind the old array (without an old array nothing is copied) and *)
(* brings in entries nobody ever wrote, their deleted flag included.       *)
Grow(t, item) ==
    /\ free = NoEntry /\ indexes < MaxIndexes
    /\ indexes' = indexes + 1
    /\ \E rest \in [(0..indexes) \ DOMAIN array -> Junk] : array' = Copied(item, rest)
    /\ Give(t, indexes, item)
    /\ UNCHANGED free

Add(t) ==
    \E item \in Items \ live :
        /\ live' = live \cup {item}
        /\ Reuse(t, item) \/ Grow(t, item)

(* Faulty variant: the caller does not free its item. *)
AddFailsLeaks(t) ==
    /\ free = NoEntry /\ indexes < MaxIndexes
    /\ indexes' = indexes + 1
    /\ \E item \in Items \ live : live' = live \cup {item}
    /\ UNCHANGED <<array, free, held, issued>>

(* malloc fails, after indexes was incremented; the caller frees its item. *)
AddFails(t) ==
    /\ free = NoEntry /\ indexes < MaxIndexes
    /\ indexes' = indexes + 1
    /\ UNCHANGED <<array, free, live, held, issued>>

(* list_get: the item, EINVAL, or what lies behind the array *)
Get(index) ==
    IF index < 0 \/ index > indexes \/ indexes = 0 THEN "EINVAL"
    ELSE IF index \notin DOMAIN array THEN "outside"
    ELSE IF array[index].deleted THEN "EINVAL"
    ELSE array[index].item

(* Faulty variant: the entry is not linked to the rest of the chain. *)
RemoveUnlinked(t) ==
    \E h \in held[t] :
        /\ array' = [array EXCEPT ![h.fd].deleted = TRUE]
        /\ free' = h.fd
        /\ live' = live \ {array[h.fd].item}
        /\ held' = [held EXCEPT ![t] = @ \ {h}]
        /\ UNCHANGED <<indexes, issued>>

(* list_remove(list, fd, 1) *)
Remove(t) ==
    \E h \in held[t] :
        /\ array' = [array EXCEPT ![h.fd].next = free, ![h.fd].deleted = TRUE]
        /\ free' = h.fd
        /\ live' = live \ {array[h.fd].item}
        /\ held' = [held EXCEPT ![t] = @ \ {h}]
        /\ UNCHANGED <<indexes, issued>>

Next == \E t \in Tasks : Add(t) \/ AddFails(t) \/ Remove(t)

Spec == Init /\ [][Next]_vars

-----------------------------------------------------------------------------
(* Properties *)

TypeOK ==
    /\ indexes \in 0..MaxIndexes /\ free \in DOMAIN array \cup {NoEntry}
    /\ DOMAIN array \subseteq 0..(indexes - 1)
    /\ array \in [DOMAIN array -> Entry]
    /\ live \subseteq Items
    /\ held \in [Tasks -> SUBSET [fd : Nat, item : Items]]
    /\ issued \subseteq DOMAIN array

(* list_get finds under a descriptor what its owner stored, whatever other *)
(* tasks added, removed or failed to add since.                            *)
GetReturnsOwn == \A t \in Tasks : \A h \in held[t] : Get(h.fd) = h.item

(* Every allocated item is reachable through the descriptor of a task.     *)
NothingLeaks == live = UNION {{h.item : h \in held[t]} : t \in Tasks}

(* The free chain visits every descriptor that was closed once, and ends:  *)
(* none is handed out twice, none is lost, and no entry that a failed      *)
(* growth left behind, whatever its flag reads, is ever in it.             *)
Deleted == {i \in issued : array[i].deleted}
Chain(n, s) ==
    /\ {s[k] : k \in 1..n} = Deleted
    /\ \A k, l \in 1..n : s[k] = s[l] => k = l
    /\ free = IF n = 0 THEN NoEntry ELSE s[1]
    /\ \A k \in 1..n : array[s[k]].next = IF k = n THEN NoEntry ELSE s[k + 1]
FreeChainIsDeleted == \E n \in 0..indexes : \E s \in [1..n -> DOMAIN array] : Chain(n, s)

(* The descriptors in use. *)
Table == [fd \in {i \in issued : ~array[i].deleted} |-> array[fd].item]

Promise == INSTANCE FdTable WITH table <- Table

(* The list keeps the promise of FdTable. *)
DescriptorsDistinct == Promise!Spec

=============================================================================
