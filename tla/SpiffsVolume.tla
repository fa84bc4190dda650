---------------------------- MODULE SpiffsVolume ----------------------------
(***************************************************************************)
(* A SPIFFS volume in use: the calls of spiffs_hydrogen.c on its files,    *)
(* power losses, and the mount that follows.  A call holds the mutex of    *)
(* the volume, so it is one step; a power loss inside a call leaves the    *)
(* flash as it was after some write of the call, and after it only mounts  *)
(* are followed, which may lose power again.  The cache of spiffs_cache.c  *)
(* only reads here: a write goes straight to flash.                        *)
(***************************************************************************)
EXTENDS SpiffsObjects, FiniteSetsExt

CONSTANTS
    Names,
    MaxSize,        \* bound: the size of a file
    Lengths,        \* bound: how many bytes a write may have
    MaxCalls,       \* bound: calls that change a file
    MaxCrashes      \* bound: power losses

VARIABLES
    flash,
    ram,            \* the counters, cursors and descriptors of struct spiffs
    mounted,
    result,         \* what the last call returned
    calls, crashes, \* how many there were
    files, open,    \* auxiliary: the files on flash, what the descriptors are open on
    torn,           \* auxiliary: a call failed when it had begun to change its file
    hurt            \* auxiliary: the files of calls that a power loss interrupted

vars == <<flash, ram, mounted, result, calls, crashes, files, open, torn, hurt>>

(* RAM as spiffs_obj_lu_scan leaves it.                                    *)
Scanned(f, max) ==
    [busy |-> Cardinality({p \in Pages : InUse(f.lu[p])}),
     deleted |-> Cardinality({p \in Pages : f.lu[p] = Deleted}),
     free |-> Cardinality({b \in Blocks : f.lu[b * PerBlock + 1] = Free}),
     max |-> max, cursor |-> At(0, 0), next |-> At(0, 0),
     fd |-> [d \in Fds |-> ClosedFd]]

Now == [flash |-> flash, busy |-> ram.busy, deleted |-> ram.deleted, free |-> ram.free,
        max |-> ram.max, cursor |-> ram.cursor, next |-> ram.next, fd |-> ram.fd,
        cleaning |-> FALSE, enough |-> FALSE, stray |-> 0, strayed |-> FALSE, pix |-> 0,
        work |-> Blank, at |-> Nowhere, out |-> <<>>, res |-> Ok, log |-> <<>>]
InRam(s) == [busy |-> s.busy, deleted |-> s.deleted, free |-> s.free, max |-> s.max,
             cursor |-> s.cursor, next |-> s.next, fd |-> s.fd]

(* What the flash holds: the file a header page belongs to, byte by byte.  *)
ByteOf(f, o, hdr, i) ==
    LET span == (i - 1) \div PageSize
        ix == {p \in Pages : IsIndexPage(f, p, o, IxSpan(span))}
        at == IF IxSpan(span) = 0 THEN hdr ELSE CHOOSE p \in ix : TRUE
        data == f.page[at].body[IxEntry(span)]
    IN  IF IxSpan(span) # 0 /\ ix = {} THEN Garbled
        ELSE IF data = Free THEN Garbled ELSE f.page[data].body[1 + ((i - 1) % PageSize)]

FileAt(f, hdr) ==
    LET size == f.page[hdr].size
    IN  [i \in 1 .. (IF size = Free THEN 0 ELSE size) |-> ByteOf(f, f.lu[hdr].obj, hdr, i)]

HeadersOf(f, n) == {p \in Pages : IsHeaderOf(f, p, n)}

(* The files that a search from the start finds, and what is open.         *)
FilesIn(f) == [n \in Names |->
                 LET found == HeadersOf(f, n) IN
                 IF found = {} THEN None
                 ELSE FileAt(f, CHOOSE p \in found : \A q \in found : p <= q)]
OpenIn(f, fd) ==
    [d \in Fds |->
        IF fd[d].obj = None THEN None
        ELSE IF \E n \in Names : fd[d].hdr \in HeadersOf(f, n)
        THEN CHOOSE n \in Names : fd[d].hdr \in HeadersOf(f, n)
        ELSE Garbled]
Seen == files' = FilesIn(flash') /\ open' = OpenIn(flash', ram'.fd)

(* A volume just formatted and mounted.                                    *)
Formatted == [lu |-> [p \in Pages |-> Free], page |-> [p \in Pages |-> Blank],
              count |-> [b \in Blocks |-> 0], magic |-> [b \in Blocks |-> TRUE]]
Init == /\ flash = Formatted /\ ram = Scanned(Formatted, 1) /\ mounted = TRUE
        /\ result = Ok /\ calls = 0 /\ crashes = 0
        /\ files = FilesIn(flash) /\ open = [d \in Fds |-> None] /\ torn = FALSE /\ hurt = {}

-----------------------------------------------------------------------------

Return(s) == flash' = s.flash /\ ram' = InRam(s) /\ result' = s.res /\ UNCHANGED mounted /\ Seen

(* The power fails after a write of the call, which was about the files    *)
(* touched; creating and renaming a file write its header once.            *)
PowerLoss(s, touched) ==
    /\ hurt' = hurt \cup touched
    /\ crashes < MaxCrashes
    /\ flash' \in {s.log[i] : i \in DOMAIN s.log}
    /\ ram' = Scanned(Formatted, 0) /\ mounted' = FALSE /\ crashes' = crashes + 1
    /\ UNCHANGED <<result, torn>> /\ Seen

Call(outcomes, touched) ==
    /\ mounted /\ crashes = 0 /\ calls < MaxCalls
    /\ calls' = calls + 1
    /\ \E s \in outcomes : \/ /\ Return(s) /\ UNCHANGED <<crashes, hurt>>
                              /\ torn' = (torn \/ (s.res # Ok /\ s.at # Nowhere))
                           \/ PowerLoss(s, touched)

IsOpen(d) == ram.fd[d].obj # None
Closed(s, d) == [s EXCEPT !.fd[d] = ClosedFd]
OrClosed(s, d) == IF Failed(s) THEN Closed(s, d) ELSE s

(* SPIFFS_open with SPIFFS_O_CREAT, and SPIFFS_O_TRUNC if it is asked for. *)
Exists(n) == HeadersOf(flash, n) # {}
Open(d, n, trunc) ==
    LET opened(s) == OpenByPage(s, d, s.pix)
        emptied(s) == IF trunc THEN Truncate(s, d, FALSE) ELSE s
    IN  /\ ~IsOpen(d)
        /\ IF Exists(n)
           THEN Call({OrClosed(emptied(opened(FindName(Now, n))), d)}, IF trunc THEN {n} ELSE {})
           ELSE Call({OrClosed(opened(Create(Now, n)), d)}, {})

(* SPIFFS_write at a position of the file; what a variable that was never  *)
(* set holds is any page, or none.                                         *)
Write_(d, offset, len) ==
    LET wrote(x) == HydroWrite([Now EXCEPT !.stray = x], d, offset, len, calls + 1)
    IN  /\ IsOpen(d)
        /\ Call(UNION {IF s.strayed THEN {wrote(x) : x \in Pages \cup {Free}} ELSE {s} :
                          s \in {wrote(0)}}, {open[d]})

(* SPIFFS_remove, through a descriptor of its own.                         *)
Remove(d, n) ==
    LET opened(s) == OpenByPage(s, d, s.pix)
    IN  /\ ~IsOpen(d) /\ Exists(n)
        /\ Call({OrClosed(Truncate(opened(FindName(Now, n)), d, TRUE), d)}, {n})

(* SPIFFS_rename.                                                          *)
Rename(d, o, n) ==
    LET opened(s) == OpenByPage(s, d, s.pix)
        named(s, hdr) == IF Failed(s) THEN s
                         ELSE UpdateIndexHdr(s, d, s.fd[d].obj, hdr,
                                             [s.flash.page[hdr] EXCEPT !.name = n], 0)
        renamed(s) == named(s, s.fd[d].hdr)
    IN  /\ ~IsOpen(d) /\ Exists(o) /\ ~Exists(n)
        /\ Call({Closed(renamed(opened(FindName(Now, o))), d)}, {})

(* SPIFFS_read from a data page to the end of the file, and SPIFFS_close.  *)
ReadFrom(d, first) ==
    /\ mounted /\ IsOpen(d) /\ UNCHANGED <<calls, crashes, torn, hurt>>
    /\ \E s \in {Read(Now, d, first)} : Return(s)
Close(d) == /\ mounted /\ IsOpen(d) /\ UNCHANGED <<calls, crashes, torn, hurt>>
            /\ Return(Closed(Now, d))

(* spiffs_obj_lu_scan: one block may lack its magic number, and is erased. *)
Unerased == {b \in Blocks : ~flash.magic[b]}
Counted ==
    LET counts == {0} \cup ({flash.count[b] : b \in Blocks} \ {Free})
    IN  [Now EXCEPT !.max = 1 + CHOOSE c \in counts : \A e \in counts : e <= c]

Mount ==
    /\ ~mounted /\ Cardinality(Unerased) <= 1 /\ UNCHANGED <<calls, torn>>
    /\ \E s \in {IF Unerased = {} THEN Counted
                  ELSE EraseBlock(Counted, CHOOSE b \in Unerased : TRUE)} :
          \/ /\ flash' = s.flash /\ ram' = Scanned(s.flash, s.max)
             /\ mounted' = TRUE /\ result' = Ok /\ UNCHANGED <<crashes, hurt>> /\ Seen
          \/ PowerLoss(s, {})

Size(d) == IF ram.fd[d].size = Free THEN 0 ELSE ram.fd[d].size
FirstPages(d) == IF Size(d) = 0 THEN {0} ELSE 0 .. Spans(0, Size(d)) - 1

Next ==
    \/ \E d \in Fds, n \in Names :
          \/ \E trunc \in BOOLEAN : Open(d, n, trunc)
          \/ Remove(d, n)
          \/ \E o \in Names \ {n} : Rename(d, o, n)
    \/ \E d \in Fds :
          \/ \E offset \in 0 .. Size(d), len \in Lengths :
                offset + len <= MaxSize /\ Write_(d, offset, len)
          \/ \E first \in FirstPages(d) : ReadFrom(d, first)
          \/ Close(d)
    \/ Mount

Spec == Init /\ [][Next]_vars

-----------------------------------------------------------------------------

Flat == INSTANCE FlatFiles

(* The pages, indices and garbage collection of the volume keep the        *)
(* promise of FlatFiles: whatever a call moves, stores or erases on its    *)
(* way, and wherever a power loss stops it, the files it is not about keep *)
(* their bytes; what becomes of the file that it is about, FlatFiles says. *)
KeepsFiles == Flat!Spec

(* A page that is in use belongs to an object, and an open descriptor has  *)
(* a header page.                                                          *)
TypeOK ==
    /\ flash.lu \in [Pages -> {Free, Deleted} \cup [obj : Objects, index : BOOLEAN]]
    /\ DOMAIN flash.page = Pages
    /\ flash.count \in [Blocks -> Nat \cup {Free}] /\ flash.magic \in [Blocks -> BOOLEAN]
    /\ {ram.busy, ram.deleted, ram.free} \subseteq Int /\ ram.max \in Nat
    /\ {ram.cursor, ram.next} \subseteq [block : Blocks, entry : 0 .. PerBlock]
    /\ DOMAIN ram.fd = Fds
    /\ \A d \in Fds : IsOpen(d) => ram.fd[d].obj \in Objects /\ ram.fd[d].hdr \in Pages
    /\ mounted \in BOOLEAN /\ torn \in BOOLEAN /\ calls \in Nat /\ crashes \in Nat

(* spiffs_page_delete enters a deletion in the lookup before it marks the  *)
(* page, and no marked page is copied or completed: wherever power was     *)
(* lost and whatever call failed, on a mounted volume the collector never  *)
(* meets the page "deleted but not deleted in lookup" it is prepared for   *)
(* (spiffs_gc.c:457).  Between a power loss and the mount it may lie in    *)
(* the half of a block that was not yet erased.                            *)
MarkedIsEntered ==
    mounted => \A p \in Pages : "delet" \in flash.page[p].flags => flash.lu[p] = Deleted

(* Until the 16 bit count wraps, every block was erased before the next    *)
(* erase, also when the last one was lost half way: the difference that    *)
(* spiffs_gc_find_candidate takes for a block's age is its age.            *)
ErasedBefore ==
    mounted => \A b \in Blocks : flash.count[b] \in Nat /\ flash.count[b] < ram.max

(* Without a power loss, and until a call failed half done.                *)
Intact == crashes = 0 /\ ~torn

(* No cell is programmed twice with different values: a page is erased     *)
(* between two uses, whatever order calls and garbage collection take.     *)
NothingGarbled ==
    Intact => \A p \in Pages :
        LET g == flash.page[p] IN
        /\ flash.lu[p] # Garbled
        /\ Garbled \notin {g.id, g.span, g.name, g.size}
        /\ \A i \in 1 .. Cells : g.body[i] # Garbled

References(p) ==
    {r \in Pages \X (1 .. Cells) :
        InUse(flash.lu[r[1]]) /\ flash.lu[r[1]].index /\ flash.page[r[1]].body[r[2]] = p}

(* spiffs_check.c:504 "A consistent file system will have only pages being *)
(* x000 free, unreferenced, not index; x011 used, referenced only once,    *)
(* not index; x101 used, unreferenced, index".  So it is as long as no     *)
(* power was lost, and a data page is named by the index page of its own   *)
(* object, at its own place.                                               *)
Consistent ==
    mounted /\ crashes = 0 => \A p \in Pages :
        LET e == flash.lu[p]
            span == flash.page[p].span
        IN  IF InUse(e) /\ ~e.index
            THEN \E q \in Pages : /\ References(p) = {<<q, IxEntry(span)>>}
                                 /\ IsIndexPage(flash, q, e.obj, IxSpan(span))
            ELSE References(p) = {}

(* The same, until a call failed that had begun to change its file.        *)
ConsistentUntilTorn == ~torn => Consistent

(* stats_p_allocated and stats_p_deleted, from which spiffs_gc_check works *)
(* out the space that is left, are what the lookup pages say.              *)
CountersAgree ==
    mounted /\ ~torn => /\ ram.busy = Cardinality({p \in Pages : InUse(flash.lu[p])})
                        /\ ram.deleted = Cardinality({p \in Pages : flash.lu[p] = Deleted})

(* Every page in use is one its file needs, so that what is truncated or   *)
(* removed gives all its space back: the header, the data pages and the    *)
(* index pages that name them.                                             *)
PagesFor(n) ==
    LET spans == (Len(files[n]) + PageSize - 1) \div PageSize
    IN  1 + spans + IF spans = 0 THEN 0 ELSE IxSpan(spans - 1)
NothingLeaks ==
    mounted /\ Intact => Cardinality({p \in Pages : InUse(flash.lu[p])})
                           = MapThenSumSet(PagesFor, {n \in Names : files[n] # None})

(* spiffs_nucleus.c:374 "allow one unerased block as it might be powered   *)
(* down during an erase": wherever power is lost, again in the mount that  *)
(* repairs it too, there is never more than one.                           *)
MountsAgain == Cardinality(Unerased) <= 1

(* The index page a descriptor's cursor points at is the current one,      *)
(* wherever another descriptor or a garbage collection has moved it: a     *)
(* read through it gives the bytes that a search from the start finds.     *)
ReadsBack ==
    mounted /\ Intact => \A d \in Fds : IsOpen(d) => \A first \in FirstPages(d) :
        LET s == Read(Now, d, first)
            file == FileAt(flash, ram.fd[d].hdr)
        IN  s.res = Ok /\ s.out = SubSeq(file, 1 + first * PageSize, Len(file))
=============================================================================
