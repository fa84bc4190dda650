------------------------------ MODULE SpiffsGc ------------------------------
(***************************************************************************)
(* Object index pages of a SPIFFS volume and its garbage collector.  An    *)
(* object has an index header page (span 0) with the numbers of its first  *)
(* HdrLen data pages and an index page for every IxLen more.  The          *)
(* collector moves what a block still holds to other blocks, stores the    *)
(* indices that name the moved pages, and erases the block.                *)
(***************************************************************************)
EXTENDS SpiffsFlash

CONSTANTS
    PageSize,       \* bytes of a data page
    HdrLen, IxLen,  \* entries of an index header page, of an index page
    Fds,            \* the file descriptors
    None

ASSUME IndexAssumption ==
    /\ PageSize \in 1 .. Cells /\ HdrLen \in 1 .. Cells /\ IxLen \in 1 .. Cells

(* SPIFFS_GC_MAX_RUNS and the weights of the score of a block.             *)
MaxRuns == 5
WeightDeleted == 5
WeightUsed == -1
WeightAge == 50

(* The index page that names a data page, and the entry there.             *)
IxSpan(span) == IF span \notin Nat THEN span
                ELSE IF span < HdrLen THEN 0 ELSE 1 + (span - HdrLen) \div IxLen
IxEntry(span) == 1 + (IF span < HdrLen THEN span ELSE (span - HdrLen) % IxLen)

(* Step(s, 1), then Step(., 2) and so on to n, until one fails; no round   *)
(* is modelled when n comes from a size that is garbled.                   *)
Each(s, n, Step(_, _)) ==
    LET last == IF n \in Nat THEN n ELSE 0
        step(t, i) == IF Failed(t) THEN t ELSE Step(t, i)
        after[i \in 0 .. last] == IF i = 0 THEN s ELSE step(after[i - 1], i)
    IN  after[last]

-----------------------------------------------------------------------------

ClosedFd == [obj |-> None, hdr |-> 0, size |-> Free, cpix |-> 0, cspan |-> 0]

(* Faulty variant: the cursors stay where the index pages were.            *)
EventForHeader(s, kind, o, span, pix, size) ==
    LET header(f) == IF span # 0 THEN f
                     ELSE IF kind = "del" THEN ClosedFd
                     ELSE [f EXCEPT !.hdr = pix, !.size = IF size = 0 THEN @ ELSE size]
    IN  IF Failed(s) THEN s
        ELSE [s EXCEPT !.fd = [d \in Fds |-> IF @[d].obj = o THEN header(@[d]) ELSE @[d]]]

(* spiffs_cb_object_event: the descriptors open on an object follow its    *)
(* index pages; a size of 0 leaves theirs alone.                           *)
Event(s, kind, o, span, pix, size) ==
    LET header(f) == IF span # 0 THEN f
                     ELSE IF kind = "del" THEN ClosedFd
                     ELSE [f EXCEPT !.hdr = pix, !.size = IF size = 0 THEN @ ELSE size]
        cursor(f) == IF f.cspan # span THEN f
                     ELSE [f EXCEPT !.cpix = IF kind = "del" THEN 0 ELSE pix]
    IN  IF Failed(s) THEN s
        ELSE [s EXCEPT !.fd = [d \in Fds |-> IF @[d].obj = o THEN cursor(header(@[d])) ELSE @[d]]]

(* SPIFFS_VALIDATE_OBJIX.                                                  *)
Validate(s, image, span) ==
    IF \/ Failed(s)
       \/ /\ {"used", "final", "index"} \subseteq image.flags /\ "delet" \notin image.flags
          /\ image.span = span
    THEN s ELSE Fail(s, "not an index page")

(* spiffs_object_update_index_hdr: a size of 0 keeps the one of the page.  *)
HeaderMoved(s, d, o, size) ==
    IF Failed(s) THEN s
    ELSE LET t == Event(s, "upd", o, 0, s.pix, size)
         IN  IF d = None THEN t ELSE [t EXCEPT !.fd[d].hdr = s.pix]
UpdateIndexHdr(s, d, o, pix, image, size) ==
    LET sized == IF size = 0 THEN image.size ELSE size
    IN  HeaderMoved(MovePage(Validate(s, image, 0), [image EXCEPT !.size = sized], IndexId(o), pix),
                    d, o, sized)

(* The index page in work is stored as a new page.                         *)
Told(s, kind, o, span) == Event(s, kind, o, span, s.pix, 0)
StoreIndex(s, d, o, span, pix) ==
    IF span = 0 THEN UpdateIndexHdr(s, d, o, pix, s.work, 0)
    ELSE Told(MovePage(s, s.work, IndexId(o), pix), "upd", o, span)

-----------------------------------------------------------------------------

Name(s, span, pix) ==
    IF Failed(s) THEN s ELSE [s EXCEPT !.work.body[IxEntry(span)] = pix]
NameNew(s, span) == Name(s, span, s.pix)

(* Faulty variant: the index keeps naming the page that was moved.         *)
MoveUnnamed(s, p, o, span) ==
    LET head == s.flash.page[p]
    IN  IF s.flash.lu[p] # DataId(o) \/ IxSpan(head.span) # span THEN s
        ELSE IF "delet" \in head.flags THEN Name(DeletePage(s, p), head.span, Free)
        ELSE CopyPage(s, DataId(o), p)

(* spiffs_gc_clean, MOVE_OBJ_DATA: a data page that the index page in work *)
(* has to name.                                                            *)
MoveData(s, p, o, span) ==
    LET head == s.flash.page[p]
    IN  IF s.flash.lu[p] # DataId(o) \/ IxSpan(head.span) # span THEN s
        ELSE IF "delet" \in head.flags THEN Name(DeletePage(s, p), head.span, Free)
        ELSE NameNew(CopyPage(s, DataId(o), p), head.span)

(* FIND_OBJ_DATA: a data page of the block, the index page that names it,  *)
(* and with them every other data page of the block named there.  What     *)
(* SPIFFS_VALIDATE_OBJIX asks of that page the search has looked at, or is *)
(* so of every page with the id of an index.                               *)
EvacuateFor(found, s, p) ==
    LET b == BlockOf(p)
        o == s.flash.lu[p].obj
        span == IxSpan(s.flash.page[p].span)
        start == [found EXCEPT !.work = found.flash.page[found.pix]]
    IN  IF Failed(found) THEN DeletePage(s, p)
        ELSE StoreIndex(Each(start, PerBlock, LAMBDA t, i : MoveData(t, b * PerBlock + i, o, span)),
                        None, o, span, found.pix)
Evacuate(s, p) ==
    EvacuateFor(FindIndex(s, s.flash.lu[p].obj, IxSpan(s.flash.page[p].span)), s, p)

(* MOVE_OBJ_IX: an index page that is still in the block.                  *)
MoveIndex(s, p) ==
    LET id == s.flash.lu[p]
        head == s.flash.page[p]
    IN  IF "delet" \in head.flags
        THEN Event(DeletePage(s, p), "del", id.obj, head.span, p, 0)
        ELSE Told(CopyPage(s, id, p), "mov", id.obj, head.span)

GcClean(s, b) ==
    LET page(i) == b * PerBlock + i
        holds(t, i, index) == InUse(t.flash.lu[page(i)]) /\ t.flash.lu[page(i)].index = index
        away == IF s.next.block # b THEN s
                ELSE [s EXCEPT !.next = At((b + 1) % BlockCount, 0)]
    IN  Each(Each(away, PerBlock, LAMBDA t, i :
                  IF holds(t, i, FALSE) THEN Evacuate(t, page(i)) ELSE t),
             PerBlock, LAMBDA t, i :
                  IF holds(t, i, TRUE) THEN MoveIndex(t, page(i)) ELSE t)

(* spiffs_gc_find_candidate: the block with the best score, counted up to  *)
(* its first free page; among equals the first.                            *)
Count(f, b, Is(_)) ==
    LET before(p) == \A q \in PagesOf(b) : q <= p => f.lu[q] # Free
    IN  Cardinality({p \in PagesOf(b) : before(p) /\ Is(f.lu[p])})

Candidate(s, crammed) ==
    LET score[b \in Blocks] == WeightDeleted * Count(s.flash, b, LAMBDA e : e = Deleted)
                               + WeightUsed * Count(s.flash, b, InUse)
                               + (IF crammed THEN 0 ELSE WeightAge * (s.max - s.flash.count[b]))
    IN  CHOOSE b \in Blocks : \A c \in Blocks :
            score[c] < score[b] \/ (score[c] = score[b] /\ b <= c)

(* Faulty variant: the counters still have the pages of the erased block.  *)
ReclaimUncounted(s, b) == IF Failed(s) THEN s ELSE EraseBlock(s, b)

(* spiffs_gc_erase_page_stats, then spiffs_gc_erase_block.                 *)
Reclaim(s, b) ==
    LET of(Is(_)) == Cardinality({p \in PagesOf(b) : Is(s.flash.lu[p])})
    IN  IF Failed(s) THEN s
        ELSE EraseBlock([s EXCEPT !.busy = @ - of(InUse),
                                  !.deleted = @ - of(LAMBDA e : e = Deleted)], b)

FreePages(s) == PerBlock * (BlockCount - 2) - s.busy - s.deleted

(* One run of the loop of spiffs_gc_check, on block b; enough says that it *)
(* was the last.                                                           *)
Judged(s, before, len) ==
    [s EXCEPT !.cleaning = FALSE,
              !.enough = \/ before <= 0 /\ FreePages(s) = before
                         \/ s.free > 2 /\ len <= FreePages(s) * PageSize]
GcRun(s, b, len) ==
    Judged(Reclaim(GcClean([s EXCEPT !.cleaning = TRUE], b), b), FreePages(s), len)

GcChecked(s, len) ==
    IF Failed(s) THEN s
    ELSE IF len > FreePages(s) * PageSize THEN Fail(s, "full")
    ELSE [s EXCEPT !.enough = FALSE]
GcCheck(s, len) ==
    IF Failed(s) \/ (s.free > 3 /\ len < FreePages(s) * PageSize) THEN s
    ELSE IF (len + PageSize - 1) \div PageSize > FreePages(s) + s.deleted THEN Fail(s, "full")
    ELSE GcChecked(Each(s, MaxRuns, LAMBDA t, i :
                        IF t.enough THEN t ELSE GcRun(t, Candidate(t, FreePages(t) <= 0), len)), len)
=============================================================================
