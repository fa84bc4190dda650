---------------------------- MODULE FdListProofs ----------------------------
(***************************************************************************)
(* list.c never hands out a descriptor twice, whatever is added, removed   *)
(* or fails to be allocated, for every number of tasks and items.          *)
(***************************************************************************)
EXTENDS FdList, FiniteSetTheorems, TLAPS

(* What a task holds is what the array has. *)
Stored == \A t \in Tasks : \A h \in held[t] :
    /\ h.fd \in issued
    /\ array[h.fd].deleted = FALSE
    /\ array[h.fd].item = h.item

(* An item is held once. *)
OneHolder == \A t, u \in Tasks : \A h \in held[t], g \in held[u] :
    h.item = g.item => t = u /\ h = g

(* The free chain, of any length. *)
Chained == \E n \in Nat : \E s \in [1..n -> DOMAIN array] : Chain(n, s)

IInv == TypeOK /\ Stored /\ OneHolder /\ NothingLeaks /\ Chained

-----------------------------------------------------------------------------
(* The free chain                                                          *)

(* The head of the chain is a deleted entry. *)
LEMMA HeadDeleted ==
  ASSUME Chained, free # NoEntry
  PROVE  free \in DOMAIN array /\ array[free].deleted /\ free \in issued
<1>1. PICK n \in Nat : \E s \in [1..n -> DOMAIN array] : Chain(n, s)
  BY DEF Chained
<1>2. PICK s \in [1..n -> DOMAIN array] : Chain(n, s)
  BY <1>1
<1>3. n # 0 /\ free = s[1] /\ 1 \in 1..n
  BY <1>2 DEF Chain
<1>4. s[1] \in Deleted
  BY <1>2, <1>3 DEF Chain
<1> QED
  BY <1>3, <1>4 DEF Deleted

(* The chain depends on the array and its head alone. *)
LEMMA SameChain ==
  ASSUME Chained, UNCHANGED <<array, free, issued>>
  PROVE  Chained'
<1>1. PICK n \in Nat : \E s \in [1..n -> DOMAIN array] : Chain(n, s)
  BY DEF Chained
<1>2. PICK s \in [1..n -> DOMAIN array] : Chain(n, s)
  BY <1>1
<1>3. Chain(n, s)'
  BY <1>2 DEF Chain, Deleted
<1> QED
  BY <1>3 DEF Chained

(* Taking the head leaves a chain. *)
LEMMA ChainAfterReuse ==
  ASSUME Chained, NEW t, NEW item, Reuse(t, item), TypeOK
  PROVE  Chained'
<1>1. PICK n \in Nat : \E s \in [1..n -> DOMAIN array] : Chain(n, s)
  BY DEF Chained
<1>2. PICK s \in [1..n -> DOMAIN array] : Chain(n, s)
  BY <1>1
<1>3. n # 0 /\ free = s[1] /\ 1 \in 1..n
  BY <1>2 DEF Chain, Reuse
<1> DEFINE r == [k \in 1..(n - 1) |-> s[k + 1]]
<1>4. DOMAIN array' = DOMAIN array /\ \A i \in DOMAIN array \ {free} : array'[i] = array[i]
  BY DEF Reuse, TypeOK
<1>5. array'[free].deleted = FALSE
  BY <1>3 DEF Reuse, InUse
<1>6. Deleted' = Deleted \ {free}
  <2>1. issued' = issued /\ issued \subseteq DOMAIN array
    BY HeadDeleted DEF Reuse, Give, TypeOK
  <2> QED
    BY <1>4, <1>5, <2>1 DEF Deleted
<1>7. \A k \in 1..(n - 1) : r[k] = s[k + 1] /\ k + 1 \in 1..n /\ r[k] # free
  BY <1>2, <1>3 DEF Chain
<1>8. r \in [1..(n - 1) -> DOMAIN array'] /\ n - 1 \in Nat
  BY <1>3, <1>4, <1>7
<1>9. {r[k] : k \in 1..(n - 1)} = Deleted'
  <2>1. \A i \in Deleted' : \E k \in 1..(n - 1) : r[k] = i
    <3> TAKE i \in Deleted'
    <3>1. PICK l \in 1..n : s[l] = i
      BY <1>2, <1>6 DEF Chain
    <3>2. l # 1
      BY <3>1, <1>3, <1>6
    <3>3. l - 1 \in 1..(n - 1) /\ r[l - 1] = i
      BY <3>1, <3>2, <1>7
    <3> QED
      BY <3>3
  <2>2. \A k \in 1..(n - 1) : r[k] \in Deleted'
    BY <1>2, <1>6, <1>7 DEF Chain
  <2> QED
    BY <2>1, <2>2
<1>10. \A k, l \in 1..(n - 1) : r[k] = r[l] => k = l
  BY <1>2, <1>7 DEF Chain
<1>11. free' = IF n - 1 = 0 THEN NoEntry ELSE r[1]
  BY <1>2, <1>3, <1>7 DEF Chain, Reuse
<1>12. \A k \in 1..(n - 1) : array'[r[k]].next = IF k = n - 1 THEN NoEntry ELSE r[k + 1]
  <2> TAKE k \in 1..(n - 1)
  <2>1. array'[r[k]] = array[s[k + 1]]
    BY <1>4, <1>7
  <2>2. array[s[k + 1]].next = IF k + 1 = n THEN NoEntry ELSE s[k + 2]
    BY <1>2, <1>7 DEF Chain
  <2>3. k # n - 1 => k + 1 \in 1..(n - 1) /\ r[k + 1] = s[k + 2]
    BY <1>7
  <2> QED
    BY <2>1, <2>2, <2>3
<1>13. Chain(n - 1, r)'
  BY <1>9, <1>10, <1>11, <1>12 DEF Chain
<1> QED
  BY <1>8, <1>13 DEF Chained

(* A deleted entry put in front leaves a chain. *)
LEMMA ChainAfterRemove ==
  ASSUME Chained, TypeOK, NEW fd \in issued, array[fd].deleted = FALSE,
         array' = [array EXCEPT ![fd].next = free, ![fd].deleted = TRUE],
         free' = fd, UNCHANGED issued
  PROVE  Chained'
<1>1. PICK n \in Nat : \E s \in [1..n -> DOMAIN array] : Chain(n, s)
  BY DEF Chained
<1>2. PICK s \in [1..n -> DOMAIN array] : Chain(n, s)
  BY <1>1
<1> DEFINE r == [k \in 1..(n + 1) |-> IF k = 1 THEN fd ELSE s[k - 1]]
<1>3. /\ DOMAIN array' = DOMAIN array
      /\ \A i \in DOMAIN array \ {fd} : array'[i] = array[i]
      /\ array'[fd].deleted = TRUE /\ array'[fd].next = free
      /\ fd \in DOMAIN array
  BY DEF TypeOK, Entry
<1>4. Deleted' = Deleted \cup {fd} /\ fd \notin Deleted
  BY <1>3 DEF Deleted, TypeOK
<1>5. \A k \in 1..n : s[k] \in Deleted /\ s[k] # fd
  BY <1>2, <1>4 DEF Chain
<1>6. /\ 1 \in 1..(n + 1) /\ r[1] = fd
      /\ \A k \in 2..(n + 1) : k \in 1..(n + 1) /\ k - 1 \in 1..n /\ r[k] = s[k - 1]
  OBVIOUS
<1>7. r \in [1..(n + 1) -> DOMAIN array'] /\ n + 1 \in Nat
  BY <1>3, <1>6
<1>8. {r[k] : k \in 1..(n + 1)} = Deleted'
  <2>1. \A i \in Deleted' : \E k \in 1..(n + 1) : r[k] = i
    <3> TAKE i \in Deleted'
    <3>1. CASE i = fd
      BY <3>1, <1>6
    <3>2. CASE i # fd
      <4>1. PICK l \in 1..n : s[l] = i
        BY <3>2, <1>2, <1>4 DEF Chain
      <4>2. l + 1 \in 2..(n + 1) /\ (l + 1) - 1 = l
        OBVIOUS
      <4> QED
        BY <4>1, <4>2, <1>6
    <3> QED
      BY <3>1, <3>2
  <2>2. \A k \in 1..(n + 1) : r[k] \in Deleted'
    BY <1>4, <1>5, <1>6
  <2> QED
    BY <2>1, <2>2
<1>9. \A k, l \in 1..(n + 1) : r[k] = r[l] => k = l
  <2> SUFFICES ASSUME NEW k \in 1..(n + 1), NEW l \in 1..(n + 1), r[k] = r[l]
               PROVE  k = l
    OBVIOUS
  <2>1. CASE k = 1 \/ l = 1
    BY <2>1, <1>5, <1>6
  <2>2. CASE k # 1 /\ l # 1
    <3>1. k - 1 \in 1..n /\ l - 1 \in 1..n /\ s[k - 1] = s[l - 1]
      BY <2>2, <1>6
    <3>2. k - 1 = l - 1
      BY <3>1, <1>2 DEF Chain
    <3> QED
      BY <3>2
  <2> QED
    BY <2>1, <2>2
<1>10. free' = IF n + 1 = 0 THEN NoEntry ELSE r[1]
  BY <1>6
<1>11. \A k \in 1..(n + 1) : array'[r[k]].next = IF k = n + 1 THEN NoEntry ELSE r[k + 1]
  <2> TAKE k \in 1..(n + 1)
  <2>1. CASE k = 1
    <3>1. array'[r[k]].next = free
      BY <2>1, <1>3, <1>6
    <3>2. free = IF n = 0 THEN NoEntry ELSE s[1]
      BY <1>2 DEF Chain
    <3>3. n # 0 => 2 \in 2..(n + 1) /\ r[2] = s[1]
      BY <1>6
    <3> QED
      BY <2>1, <3>1, <3>2, <3>3
  <2>2. CASE k # 1
    <3>1. k - 1 \in 1..n /\ array'[r[k]] = array[s[k - 1]]
      BY <2>2, <1>3, <1>5, <1>6
    <3>2. array[s[k - 1]].next = IF k - 1 = n THEN NoEntry ELSE s[k]
      BY <3>1, <1>2 DEF Chain
    <3>3. k # n + 1 => k + 1 \in 2..(n + 1) /\ r[k + 1] = s[k]
      BY <1>6
    <3>4. (k - 1 = n) <=> (k = n + 1)
      OBVIOUS
    <3> HIDE DEF r
    <3> QED
      BY <3>1, <3>2, <3>3, <3>4
  <2> QED
    BY <2>1, <2>2
<1>12. Chain(n + 1, r)'
  BY <1>8, <1>9, <1>10, <1>11 DEF Chain
<1> QED
  BY <1>7, <1>12 DEF Chained

-----------------------------------------------------------------------------
(* The invariant is inductive.                                             *)

(* The empty list *)
LEMMA InitInvariant == Init => IInv
<1> SUFFICES ASSUME Init PROVE IInv
  OBVIOUS
<1> USE NoEntryAssumption, NoItemAssumption, IndexesAssumption DEF Init
<1>1. TypeOK
  BY DEF TypeOK, Entry
<1>2. Stored /\ OneHolder /\ NothingLeaks
  BY DEF Stored, OneHolder, NothingLeaks
<1>3. Chained
  <2> DEFINE s == [k \in 1..0 |-> k]
  <2>1. s \in [1..0 -> DOMAIN array] /\ Chain(0, s)
    BY DEF Chain, Deleted
  <2> QED
    BY <2>1 DEF Chained
<1> QED
  BY <1>1, <1>2, <1>3 DEF IInv

(* list_add, from the chain: the head was nobody's descriptor. *)
LEMMA ReuseStep ==
  ASSUME IInv, NEW t \in Tasks, NEW item \in Items \ live, Reuse(t, item),
         live' = live \cup {item}
  PROVE  IInv'
<1> USE NoEntryAssumption, NoItemAssumption DEF IInv
<1>1. free \in DOMAIN array /\ array[free].deleted /\ free \in issued
  BY HeadDeleted DEF Reuse
<1>2. /\ issued' = issued /\ issued \subseteq DOMAIN array
      /\ DOMAIN array' = DOMAIN array
      /\ array'[free] = InUse(item)
      /\ \A i \in DOMAIN array \ {free} : array'[i] = array[i]
  BY <1>1 DEF Reuse, Give, TypeOK
<1>3. /\ held'[t] = held[t] \cup {[fd |-> free, item |-> item]}
      /\ \A u \in Tasks \ {t} : held'[u] = held[u]
  BY DEF Reuse, Give, TypeOK
<1>4. Chained'
  BY ChainAfterReuse
<1>5. free' \in DOMAIN array' \cup {NoEntry}
  <2>1. PICK n \in Nat : \E s \in [1..n -> DOMAIN array] : Chain(n, s)'
    BY <1>2, <1>4 DEF Chained
  <2> QED
    BY <2>1, <1>2 DEF Chain
<1>6. array' \in [DOMAIN array' -> Entry]
  BY <1>1, <1>2 DEF TypeOK, Entry, InUse, Reuse
<1>7. held' \in [Tasks -> SUBSET [fd : Nat, item : Items]]
  BY <1>1 DEF TypeOK, Reuse, Give
<1>8. TypeOK'
  BY <1>2, <1>5, <1>6, <1>7 DEF TypeOK, Reuse
<1>9. Stored'
  BY <1>1, <1>2, <1>3 DEF Stored, InUse, TypeOK
<1>10. \A u \in Tasks : \A h \in held[u] : h.item # item
  BY DEF NothingLeaks
<1>11. OneHolder'
  BY <1>3, <1>10 DEF OneHolder
<1>12. NothingLeaks'
  <2>1. \A x \in live : \E u \in Tasks : \E h \in held[u] : h.item = x
    BY DEF NothingLeaks
  <2>2. \A u \in Tasks : \A h \in held[u] : h.item \in live
    BY DEF NothingLeaks
  <2>3. \A x \in live' : \E u \in Tasks : \E h \in held'[u] : h.item = x
    <3> TAKE x \in live'
    <3>1. CASE x = item
      <4>1. [fd |-> free, item |-> item] \in held'[t]
        BY <1>3
      <4> QED
        BY <3>1, <4>1
    <3>2. CASE x \in live
      <4>1. PICK u \in Tasks : \E h \in held[u] : h.item = x
        BY <2>1, <3>2
      <4>2. held[u] \subseteq held'[u]
        BY <1>3
      <4> QED
        BY <4>1, <4>2
    <3> QED
      BY <3>1, <3>2
  <2>4. \A u \in Tasks : \A h \in held'[u] : h.item \in live'
    BY <2>2, <1>3
  <2> QED
    BY <2>3, <2>4 DEF NothingLeaks
<1> QED
  BY <1>4, <1>8, <1>9, <1>11, <1>12

(* What a growth makes of the array. *)
LEMMA GrowFacts ==
  ASSUME TypeOK, NEW t \in Tasks, NEW item \in Items \ live, Grow(t, item)
  PROVE  /\ DOMAIN array' = 0..indexes /\ indexes \in Nat
         /\ DOMAIN array \subseteq 0..(indexes - 1)
         /\ array'[indexes] = InUse(item)
         /\ \A i \in DOMAIN array : array'[i] = array[i]
         /\ \A i \in 0..(indexes - 1) : i \notin DOMAIN array => array'[i] \in Junk
         /\ array' = [i \in DOMAIN array' |-> array'[i]]
         /\ issued' = issued \cup {indexes} /\ issued \subseteq DOMAIN array
<1>1. PICK rest \in [(0..indexes) \ DOMAIN array -> Junk] : array' = Copied(item, rest)
  BY DEF Grow
<1>2. indexes \in Nat /\ DOMAIN array \subseteq 0..(indexes - 1) /\ issued \subseteq DOMAIN array
  BY IndexesAssumption DEF TypeOK
<1>3. issued' = issued \cup {indexes}
  BY DEF Grow, Give
<1>4. DOMAIN array' = 0..indexes /\ array' = [i \in DOMAIN array' |-> array'[i]]
  BY <1>1 DEF Copied
<1>5. array'[indexes] = InUse(item)
  BY <1>1, <1>2 DEF Copied
<1>6. \A i \in DOMAIN array : array'[i] = array[i]
  BY <1>1, <1>2 DEF Copied
<1>7. \A i \in 0..(indexes - 1) : i \notin DOMAIN array => array'[i] \in Junk
  BY <1>1, <1>2 DEF Copied
<1> QED
  BY <1>2, <1>3, <1>4, <1>5, <1>6, <1>7

(* list_add, growing: the new index is behind every entry. *)
LEMMA GrowStep ==
  ASSUME IInv, NEW t \in Tasks, NEW item \in Items \ live, Grow(t, item),
         live' = live \cup {item}
  PROVE  IInv'
<1> USE NoEntryAssumption, NoItemAssumption, IndexesAssumption DEF IInv
<1>1. /\ DOMAIN array' = 0..indexes /\ indexes \in Nat
      /\ DOMAIN array \subseteq 0..(indexes - 1)
      /\ array'[indexes] = InUse(item)
      /\ \A i \in DOMAIN array : array'[i] = array[i]
      /\ \A i \in 0..(indexes - 1) : i \notin DOMAIN array => array'[i] \in Junk
      /\ array' = [i \in DOMAIN array' |-> array'[i]]
      /\ issued' = issued \cup {indexes} /\ issued \subseteq DOMAIN array
  BY GrowFacts
<1>2. /\ held'[t] = held[t] \cup {[fd |-> indexes, item |-> item]}
      /\ \A u \in Tasks \ {t} : held'[u] = held[u]
  BY DEF Grow, Give, TypeOK
<1>3. array' \in [DOMAIN array' -> Entry]
  <2>1. DOMAIN array \subseteq DOMAIN array'
    BY <1>1
  <2>2. \A i \in DOMAIN array' : array'[i] \in Entry
    <3> TAKE i \in DOMAIN array'
    <3>1. CASE i = indexes
      BY <3>1, <1>1 DEF Entry, InUse
    <3>2. CASE i \in DOMAIN array
      BY <3>2, <1>1 DEF TypeOK
    <3>3. CASE i # indexes /\ i \notin DOMAIN array
      <4>1. i \in 0..(indexes - 1)
        BY <3>3, <1>1
      <4>2. array'[i] \in Junk
        BY <3>3, <4>1, <1>1
      <4> QED
        BY <4>2, JunkAssumption
    <3> QED
      BY <3>1, <3>2, <3>3
  <2>3. array' = [i \in DOMAIN array' |-> array'[i]]
    BY <1>1
  <2> QED
    BY <2>2, <2>3
<1>4. held' \in [Tasks -> SUBSET [fd : Nat, item : Items]]
  BY <1>1 DEF TypeOK, Grow, Give
<1>5. TypeOK'
  BY <1>1, <1>3, <1>4 DEF TypeOK, Grow
<1>6. Stored'
  BY <1>1, <1>2 DEF Stored, InUse, TypeOK
<1>7. \A u \in Tasks : \A h \in held[u] : h.item # item
  BY DEF NothingLeaks
<1>8. OneHolder'
  BY <1>2, <1>7 DEF OneHolder
<1>9. NothingLeaks'
  <2>1. \A x \in live : \E u \in Tasks : \E h \in held[u] : h.item = x
    BY DEF NothingLeaks
  <2>2. \A u \in Tasks : \A h \in held[u] : h.item \in live
    BY DEF NothingLeaks
  <2>3. \A x \in live' : \E u \in Tasks : \E h \in held'[u] : h.item = x
    <3> TAKE x \in live'
    <3>1. CASE x = item
      <4>1. [fd |-> indexes, item |-> item] \in held'[t]
        BY <1>2
      <4> QED
        BY <3>1, <4>1
    <3>2. CASE x \in live
      <4>1. PICK u \in Tasks : \E h \in held[u] : h.item = x
        BY <2>1, <3>2
      <4>2. held[u] \subseteq held'[u]
        BY <1>2
      <4> QED
        BY <4>1, <4>2
    <3> QED
      BY <3>1, <3>2
  <2>4. \A u \in Tasks : \A h \in held'[u] : h.item \in live'
    BY <2>2, <1>2
  <2> QED
    BY <2>3, <2>4 DEF NothingLeaks
<1>10. Deleted' = Deleted /\ free' = free
  BY <1>1 DEF Deleted, InUse, Grow
<1>11. Chained'
  <2>1. PICK n \in Nat : \E s \in [1..n -> DOMAIN array] : Chain(n, s)
    BY DEF Chained
  <2>2. PICK s \in [1..n -> DOMAIN array] : Chain(n, s)
    BY <2>1
  <2>3. s \in [1..n -> DOMAIN array']
    BY <1>1
  <2>4. \A k \in 1..n : array'[s[k]] = array[s[k]]
    BY <1>1
  <2>5. Chain(n, s)'
    BY <2>2, <2>4, <1>10 DEF Chain
  <2> QED
    BY <2>3, <2>5 DEF Chained
<1> QED
  BY <1>5, <1>6, <1>8, <1>9, <1>11

(* list_remove, by the holder of the descriptor. *)
LEMMA RemoveStep ==
  ASSUME IInv, NEW t \in Tasks, Remove(t)
  PROVE  IInv'
<1> USE NoEntryAssumption, NoItemAssumption DEF IInv
<1>1. PICK h \in held[t] :
        /\ array' = [array EXCEPT ![h.fd].next = free, ![h.fd].deleted = TRUE]
        /\ free' = h.fd
        /\ live' = live \ {array[h.fd].item}
        /\ held' = [held EXCEPT ![t] = @ \ {h}]
        /\ UNCHANGED <<indexes, issued>>
  BY DEF Remove
<1>2. /\ h.fd \in issued /\ h.fd \in DOMAIN array
      /\ array[h.fd].deleted = FALSE /\ array[h.fd].item = h.item
  BY DEF Stored, TypeOK
<1>3. Chained'
  BY <1>1, <1>2, ChainAfterRemove
<1>4. /\ DOMAIN array' = DOMAIN array
      /\ \A i \in DOMAIN array \ {h.fd} : array'[i] = array[i]
      /\ array'[h.fd] = [item |-> h.item, next |-> free, deleted |-> TRUE]
  BY <1>1, <1>2 DEF TypeOK, Entry
<1>5. /\ held'[t] = held[t] \ {h} /\ held' \in [Tasks -> SUBSET [fd : Nat, item : Items]]
      /\ \A u \in Tasks \ {t} : held'[u] = held[u]
  BY <1>1 DEF TypeOK
<1>6. array' \in [DOMAIN array' -> Entry]
  <2>1. h.item \in Items /\ free \in Nat \cup {NoEntry}
    BY DEF TypeOK
  <2>2. array'[h.fd] \in Entry
    BY <2>1, <1>4 DEF Entry
  <2>3. \A i \in DOMAIN array' : array'[i] \in Entry
    BY <2>2, <1>4 DEF TypeOK
  <2> QED
    BY <2>3, <1>1 DEF TypeOK
<1>7. TypeOK'
  BY <1>1, <1>2, <1>4, <1>5, <1>6 DEF TypeOK
<1>8. \A u \in Tasks : \A g \in held'[u] : g \in held[u] /\ g.item # h.item
  BY <1>5 DEF OneHolder
<1>9. Stored'
  <2> SUFFICES ASSUME NEW u \in Tasks, NEW g \in held'[u]
               PROVE  /\ g.fd \in issued'
                      /\ array'[g.fd].deleted = FALSE /\ array'[g.fd].item = g.item
    BY DEF Stored
  <2>1. /\ g \in held[u] /\ g.item # h.item /\ g.fd \in issued /\ g.fd \in DOMAIN array
        /\ array[g.fd].deleted = FALSE /\ array[g.fd].item = g.item
    BY <1>8 DEF Stored, TypeOK
  <2>2. g.fd # h.fd
    BY <2>1, <1>2
  <2> QED
    BY <2>1, <2>2, <1>1, <1>4
<1>10. OneHolder'
  BY <1>8 DEF OneHolder
<1>11. NothingLeaks'
  <2>1. live' = live \ {h.item}
    BY <1>1, <1>2
  <2>2. \A u \in Tasks : \A g \in held[u] : g.item # h.item => g \in held'[u]
    BY <1>5
  <2> QED
    BY <2>1, <2>2, <1>8 DEF NothingLeaks
<1> QED
  BY <1>3, <1>7, <1>9, <1>10, <1>11

(* Every call of the list preserves the invariant. *)
LEMMA StepInvariant == IInv /\ [Next]_vars => IInv'
<1> SUFFICES ASSUME IInv, [Next]_vars PROVE IInv'
  OBVIOUS
<1>1. ASSUME NEW t \in Tasks, Add(t) PROVE IInv'
  BY <1>1, ReuseStep, GrowStep DEF Add
<1>2. ASSUME NEW t \in Tasks, AddFails(t) PROVE IInv'
  <2>1. UNCHANGED <<array, free, live, held, issued>> /\ indexes' = indexes + 1 /\ indexes < MaxIndexes
    BY <1>2 DEF AddFails
  <2>2. TypeOK'
    BY <2>1, IndexesAssumption DEF IInv, TypeOK
  <2>3. (Stored /\ OneHolder /\ NothingLeaks)'
    BY <2>1 DEF IInv, Stored, OneHolder, NothingLeaks
  <2>4. Chained'
    BY <2>1, SameChain DEF IInv
  <2> QED
    BY <2>2, <2>3, <2>4 DEF IInv
<1>3. ASSUME NEW t \in Tasks, Remove(t) PROVE IInv'
  BY <1>3, RemoveStep
<1>4. CASE UNCHANGED vars
  <2>1. UNCHANGED <<indexes, array, free, live, held, issued>>
    BY <1>4 DEF vars, list
  <2>2. (TypeOK /\ Stored /\ OneHolder /\ NothingLeaks)'
    BY <2>1 DEF IInv, TypeOK, Stored, OneHolder, NothingLeaks
  <2>3. Chained'
    BY <2>1, SameChain DEF IInv
  <2> QED
    BY <2>2, <2>3 DEF IInv
<1> QED
  BY <1>1, <1>2, <1>3, <1>4 DEF Next

-----------------------------------------------------------------------------
(* What the invariant gives.                                               *)

(* In every reachable state of the list the invariant holds. *)
THEOREM Invariance == Spec => []IInv
  BY InitInvariant, StepInvariant, PTL DEF Spec

(* The list's fields stay in range. *)
THEOREM TypeCorrect == Spec => []TypeOK
<1>1. IInv => TypeOK
  BY DEF IInv
<1> QED
  BY <1>1, Invariance, PTL

(* Whatever happened since, list_get finds under a descriptor the item     *)
(* its holder stored.                                                      *)
THEOREM GetOwn == Spec => []GetReturnsOwn
<1>1. IInv => GetReturnsOwn
  BY DEF IInv, TypeOK, Stored, GetReturnsOwn, Get
<1> QED
  BY <1>1, Invariance, PTL

(* No item is lost and none is freed under its holder. *)
THEOREM Leakless == Spec => []NothingLeaks
<1>1. IInv => NothingLeaks
  BY DEF IInv
<1> QED
  BY <1>1, Invariance, PTL

(* The free chain ends and visits every deleted entry once. *)
THEOREM FreeChain == Spec => []FreeChainIsDeleted
<1>1. IInv => FreeChainIsDeleted
  <2> SUFFICES ASSUME IInv PROVE FreeChainIsDeleted
    OBVIOUS
  <2>1. PICK n \in Nat : \E s \in [1..n -> DOMAIN array] : Chain(n, s)
    BY DEF IInv, Chained
  <2>2. PICK s \in [1..n -> DOMAIN array] : Chain(n, s)
    BY <2>1
  <2>3. s \in Injection(1..n, 0..(indexes - 1)) /\ indexes \in Nat
    BY <2>2, IndexesAssumption DEF Chain, IInv, TypeOK, Injection, IsInjective
  <2>4. IsFiniteSet(0..(indexes - 1)) /\ Cardinality(0..(indexes - 1)) = indexes
    BY <2>3, FS_Interval
  <2>5. Cardinality(1..n) = n
    BY FS_Interval
  <2>6. n <= indexes
    BY <2>3, <2>4, <2>5, FS_Injection
  <2> QED
    BY <2>2, <2>3, <2>6 DEF FreeChainIsDeleted
<1> QED
  BY <1>1, Invariance, PTL

-----------------------------------------------------------------------------
(* The list implements FdTable.                                            *)

Used == {i \in issued : ~array[i].deleted}

(* An entry that becomes used is an Add of FdTable. *)
LEMMA AddRefines ==
  ASSUME NEW fd, NEW item \in Items, fd \notin Used, Used' = Used \cup {fd},
         array'[fd].item = item, \A i \in Used : array'[i].item = array[i].item
  PROVE  Promise!Add(item)
<1>1. Table = [i \in Used |-> array[i].item] /\ Table' = [i \in Used' |-> array'[i].item]
  BY DEF Table, Used
<1>2. fd \in DOMAIN Table' \ DOMAIN Table
  BY <1>1
<1>3. Table' = [x \in DOMAIN Table \cup {fd} |-> IF x = fd THEN item ELSE Table[x]]
  BY <1>1
<1> QED
  BY <1>2, <1>3 DEF Promise!Add

(* Every step of the list is a step of FdTable or leaves the table alone. *)
LEMMA StepRefines == IInv /\ [Next]_vars => [Promise!Next]_Table
<1> SUFFICES ASSUME IInv, [Next]_vars PROVE [Promise!Next]_Table
  OBVIOUS
<1> USE NoEntryAssumption, NoItemAssumption
<1>1. ASSUME NEW t \in Tasks, NEW item \in Items \ live, Reuse(t, item)
      PROVE  Promise!Add(item)
  <2>1. free \in DOMAIN array /\ array[free].deleted /\ free \in issued
    BY <1>1, HeadDeleted DEF Reuse, IInv
  <2>2. /\ DOMAIN array' = DOMAIN array /\ array'[free] = InUse(item)
        /\ \A i \in DOMAIN array \ {free} : array'[i] = array[i]
        /\ issued' = issued /\ issued \subseteq DOMAIN array
    BY <1>1, <2>1 DEF Reuse, Give, IInv, TypeOK
  <2>3. free \notin Used /\ Used' = Used \cup {free}
    BY <2>1, <2>2 DEF Used, InUse
  <2>4. array'[free].item = item /\ \A i \in Used : array'[i].item = array[i].item
    BY <2>1, <2>2 DEF Used, InUse
  <2> QED
    BY <2>3, <2>4, AddRefines
<1>2. ASSUME NEW t \in Tasks, NEW item \in Items \ live, Grow(t, item)
      PROVE  Promise!Add(item)
  <2>1. /\ DOMAIN array' = 0..indexes /\ indexes \in Nat
        /\ DOMAIN array \subseteq 0..(indexes - 1)
        /\ array'[indexes] = InUse(item)
        /\ \A i \in DOMAIN array : array'[i] = array[i]
        /\ issued' = issued \cup {indexes} /\ issued \subseteq DOMAIN array
    BY <1>2, GrowFacts DEF IInv
  <2>2. indexes \notin DOMAIN array
    BY <2>1
  <2>5. indexes \notin Used /\ Used' = Used \cup {indexes}
    BY <2>1, <2>2 DEF Used, InUse
  <2>6. array'[indexes].item = item /\ \A i \in Used : array'[i].item = array[i].item
    BY <2>1 DEF Used, InUse
  <2> QED
    BY <2>5, <2>6, AddRefines
<1>3. ASSUME NEW t \in Tasks, AddFails(t) PROVE UNCHANGED Table
  BY <1>3 DEF AddFails, Table
<1>4. ASSUME NEW t \in Tasks, Remove(t)
      PROVE  \E fd \in DOMAIN Table : Promise!Remove(fd)
  <2>1. PICK h \in held[t] :
          /\ array' = [array EXCEPT ![h.fd].next = free, ![h.fd].deleted = TRUE]
          /\ issued' = issued
    BY <1>4 DEF Remove
  <2>2. /\ h.fd \in issued /\ issued \subseteq DOMAIN array
        /\ array[h.fd].deleted = FALSE /\ array[h.fd].item = h.item
    BY DEF IInv, Stored, TypeOK
  <2>3. h.item \in Items
    BY DEF IInv, TypeOK
  <2>4. /\ DOMAIN array' = DOMAIN array /\ array'[h.fd].deleted = TRUE
        /\ \A i \in DOMAIN array \ {h.fd} : array'[i] = array[i]
    BY <2>1, <2>2 DEF IInv, TypeOK, Entry
  <2>5. h.fd \in Used /\ Used' = Used \ {h.fd}
    <3>1. \A i \in issued \ {h.fd} : array'[i] = array[i]
      BY <2>2, <2>4
    <3> QED
      BY <2>1, <2>2, <2>4, <3>1 DEF Used
  <2>6. Table = [i \in Used |-> array[i].item] /\ Table' = [i \in Used' |-> array'[i].item]
    BY DEF Table, Used
  <2>7. \A i \in Used' : array'[i].item = array[i].item
    BY <2>2, <2>4, <2>5 DEF Used
  <2>8. Table' = [x \in DOMAIN Table \ {h.fd} |-> Table[x]]
    BY <2>5, <2>6, <2>7
  <2> QED
    BY <2>5, <2>6, <2>8 DEF Promise!Remove
<1>5. CASE UNCHANGED vars
  BY <1>5 DEF vars, list, Table
<1> QED
  BY <1>1, <1>2, <1>3, <1>4, <1>5 DEF Next, Add, Promise!Next

(* Every behaviour of the list is one of FdTable: a descriptor stands for  *)
(* one item from the call that returns it to the call that removes it.     *)
THEOREM Implements == Spec => DescriptorsDistinct
<1>1. Init => Promise!Init
  BY DEF Init, Promise!Init, Table
<1> QED
  BY <1>1, Invariance, StepRefines, PTL DEF Spec, DescriptorsDistinct, Promise!Spec

=============================================================================
