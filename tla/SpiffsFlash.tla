---------------------------- MODULE SpiffsFlash -----------------------------
(***************************************************************************)
(* The flash of a SPIFFS volume and the operations of spiffs_nucleus.c on  *)
(* single pages.  Programming a cell can only clear bits: a free cell      *)
(* takes the value, a cell that holds the same value keeps it, any other   *)
(* is Garbled.  A call is computed as a function on a state s, the struct  *)
(* spiffs: the flash, the counters and cursors in RAM, the descriptors,    *)
(* the result so far, and the log of the flash after every write, which is *)
(* what a power loss inside the call can leave.  An operation on a call    *)
(* that has failed does nothing.  The lookup pages of a block are the      *)
(* function lu; the other pages are numbered from 1.                       *)
(***************************************************************************)
EXTENDS Integers, Sequences, FiniteSets

CONSTANTS
    BlockCount,     \* the blocks are 0 .. BlockCount - 1
    PerBlock,       \* pages of a block without its lookup pages
    HeadPages,      \* those of them in its first sector, behind the lookup
    Cells,          \* bytes of a data page, entries of an index page
    Free,           \* erased: bytes, ids, spans and sizes of all ones
    Deleted,        \* SPIFFS_OBJ_ID_DELETED
    Garbled         \* what two different values leave when both are written

ASSUME GeometryAssumption ==
    /\ BlockCount \in Nat \ {0} /\ PerBlock \in Nat \ {0} /\ Cells \in Nat \ {0}
    /\ HeadPages \in 0 .. PerBlock
    /\ Free # Deleted /\ Free # Garbled /\ Deleted # Garbled
    /\ Free \notin Nat     \* an erase count is less than 2^15

Ok == "ok"

Blocks == 0 .. BlockCount - 1
Pages == 1 .. BlockCount * PerBlock
BlockOf(p) == (p - 1) \div PerBlock
EntryOf(p) == (p - 1) % PerBlock
PagesOf(b) == (b * PerBlock + 1) .. ((b + 1) * PerBlock)
HeadOf(b) == (b * PerBlock + 1) .. (b * PerBlock + HeadPages)
At(b, e) == [block |-> b, entry |-> e]

(* An id in the lookup, or in a page header: an object, and whether the    *)
(* page is one of its index pages (SPIFFS_OBJ_ID_IX_FLAG).                 *)
DataId(o) == [obj |-> o, index |-> FALSE]
IndexId(o) == [obj |-> o, index |-> TRUE]
InUse(e) == e \notin {Free, Deleted}

(* A page: the header, the name and the size of an object index header,    *)
(* and the bytes or the page numbers it holds.  flags are the cleared bits *)
(* among "used", "final", "index", "delet" and "ixdele".                   *)
Blank == [id |-> Free, span |-> Free, flags |-> {}, name |-> Free, size |-> Free,
          body |-> [i \in 1 .. Cells |-> Free]]

Over(old, new) == IF old = Free THEN new
                  ELSE IF new \in {Free, old} THEN old
                  ELSE IF new = Deleted THEN Deleted
                  ELSE Garbled

Overlay(old, new) ==
    [id |-> Over(old.id, new.id), span |-> Over(old.span, new.span),
     flags |-> old.flags \cup new.flags, name |-> Over(old.name, new.name),
     size |-> IF old.size = 0 THEN 0 ELSE Over(old.size, new.size),
     body |-> [i \in 1 .. Cells |-> Over(old.body[i], new.body[i])]]

Failed(s) == s.res # Ok
Fail(s, error) == [s EXCEPT !.res = error]
Logged(s, flash) == [s EXCEPT !.flash = flash, !.log = Append(@, flash)]

Occupy(s, p, id) == Logged(s, [s.flash EXCEPT !.lu[p] = Over(@, id)])
Write(s, p, image) == Logged(s, [s.flash EXCEPT !.page[p] = Overlay(@, image)])
Flag(s, p, flags) == Write(s, p, [Blank EXCEPT !.flags = flags])
Allocated(s) == [s EXCEPT !.busy = @ + 1]

-----------------------------------------------------------------------------

(* The first sector of a block erased, its count and magic number with it. *)
HeadErased(f, b) ==
    [f EXCEPT !.lu = [p \in Pages |-> IF p \in PagesOf(b) THEN Free ELSE @[p]],
              !.page = [p \in Pages |-> IF p \in HeadOf(b) THEN Blank ELSE @[p]],
              !.count[b] = Free, !.magic[b] = FALSE]

(* Faulty variant: the second sector is left as it is.                     *)
TailKept(f, b) == f

(* The second sector erased, when the first is.                            *)
TailErased(f, b) == [f EXCEPT !.page = [p \in Pages |-> IF p \in PagesOf(b) THEN Blank ELSE @[p]]]

(* The loop of spiffs_erase_block: power may be lost between the sectors.  *)
Erase(s, b) ==
    LET head(t) == Logged(t, HeadErased(t.flash, b))
        tail(t) == Logged(t, TailErased(t.flash, b))
    IN  tail(head(s))

(* Faulty variants: the magic number is not written; the count of the next *)
(* erase stays.                                                            *)
EraseUnmarked(s, b) ==
    LET count(t) == Logged(t, [t.flash EXCEPT !.count[b] = t.max])
    IN  [count(Erase(s, b)) EXCEPT !.free = @ + 1, !.max = @ + 1]
EraseUncounted(s, b) ==
    LET count(t) == Logged(t, [t.flash EXCEPT !.count[b] = t.max])
        mark(t) == Logged(t, [t.flash EXCEPT !.magic[b] = TRUE])
    IN  [mark(count(Erase(s, b))) EXCEPT !.free = @ + 1]

(* spiffs_erase_block: the erase, the erase count and the magic number.    *)
EraseBlock(s, b) ==
    LET count(t) == Logged(t, [t.flash EXCEPT !.count[b] = t.max])
        mark(t) == Logged(t, [t.flash EXCEPT !.magic[b] = TRUE])
    IN  [mark(count(Erase(s, b))) EXCEPT !.free = @ + 1, !.max = @ + 1]

(* spiffs_gc_quick without free pages: the first block of deleted pages.   *)
GcQuick(s) ==
    LET dead == {b \in Blocks : \A p \in PagesOf(b) : s.flash.lu[p] = Deleted}
    IN  IF dead = {} THEN s
        ELSE EraseBlock([s EXCEPT !.deleted = @ - PerBlock],
                        CHOOSE b \in dead : \A c \in dead : b <= c)

(* The visitor of spiffs_obj_lu_find_entry_visitor: the first page of S at *)
(* or after a cursor, wrapping round.                                      *)
FirstFrom(c, S) ==
    LET page(i) == 1 + ((c.block * PerBlock + c.entry + i) % (BlockCount * PerBlock))
    IN  page(CHOOSE i \in 0 .. BlockCount * PerBlock - 1 :
                 page(i) \in S /\ \A j \in 0 .. i - 1 : page(j) \notin S)

(* Faulty variant: the cursor gets a page number for an entry.             *)
TakePage(s, p) == [s EXCEPT !.pix = p, !.next = At(BlockOf(p), p + 1),
                            !.free = IF EntryOf(p) = 0 THEN @ - 1 ELSE @]

(* spiffs_obj_lu_find_free.                                                *)
Take(s, p) == [s EXCEPT !.pix = p, !.next = At(BlockOf(p), EntryOf(p) + 1),
                        !.free = IF EntryOf(p) = 0 THEN @ - 1 ELSE @]
TakeFree(s) ==
    LET open == {p \in Pages : s.flash.lu[p] = Free}
    IN  IF ~s.cleaning /\ s.free < 2 THEN Fail(s, "full")
        ELSE IF open = {} THEN Fail(s, "not found")
        ELSE Take(s, FirstFrom(s.next, open))
FindFree(s) ==
    IF Failed(s) THEN s
    ELSE TakeFree(IF ~s.cleaning /\ s.free < 2 THEN GcQuick(s) ELSE s)

(* Searches that leave the cursor on what they found.                      *)
Found(s, p) == [s EXCEPT !.pix = p, !.cursor = At(BlockOf(p), EntryOf(p))]
Find(s, S) == IF Failed(s) THEN s
              ELSE IF S = {} THEN Fail(s, "not found")
              ELSE Found(s, FirstFrom(s.cursor, S))

(* spiffs_obj_lu_find_id_and_span, for the index pages of an object.       *)
IsIndexPage(f, p, o, span) ==
    /\ f.lu[p] = IndexId(o)
    /\ LET h == f.page[p] IN
         /\ h.id = IndexId(o) /\ h.span = span
         /\ {"used", "final"} \subseteq h.flags /\ "delet" \notin h.flags
         /\ ~("ixdele" \in h.flags /\ span = 0)
FindIndex(s, o, span) == Find(s, {p \in Pages : IsIndexPage(s.flash, p, o, span)})

(* spiffs_object_find_object_index_header_by_name.                         *)
IsHeaderOf(f, p, n) ==
    /\ InUse(f.lu[p]) /\ f.lu[p].index
    /\ LET h == f.page[p] IN /\ h.span = 0 /\ h.name = n /\ "final" \in h.flags
                             /\ {"delet", "ixdele"} \cap h.flags = {}
FindName(s, n) == Find(s, {p \in Pages : IsHeaderOf(s.flash, p, n)})

-----------------------------------------------------------------------------

(* Faulty variant: the page first, then the lookup.                        *)
DeletePageFirst(s, p) ==
    LET entry(t) == [Occupy(t, p, Deleted) EXCEPT !.busy = @ - 1, !.deleted = @ + 1]
    IN  IF Failed(s) THEN s ELSE entry(Flag(s, p, {"delet", "used"}))

(* spiffs_page_delete: the lookup first, then the page.                    *)
DeletePage(s, p) ==
    LET entry(t) == [Occupy(t, p, Deleted) EXCEPT !.busy = @ - 1, !.deleted = @ + 1]
    IN  IF Failed(s) THEN s ELSE Flag(entry(s), p, {"delet", "used"})

(* spiffs_page_allocate_data: the lookup, the header, the data if there is *)
(* any and, if it is asked for, the FINAL bit.                             *)
AllocateData(s, header, body, finalize) ==
    LET enter(t) == Write(Allocated(Occupy(t, t.pix, header.id)), t.pix,
                          [header EXCEPT !.flags = @ \cup {"used"}])
        fill(t) == IF body = Blank.body THEN t ELSE Write(t, t.pix, [Blank EXCEPT !.body = body])
        close(t) == IF finalize /\ "final" \notin header.flags
                    THEN Flag(t, t.pix, header.flags \cup {"used", "final"}) ELSE t
        allocate(t) == IF Failed(t) THEN t ELSE close(fill(enter(t)))
    IN  allocate(FindFree(s))

(* Faulty variant: the source is deleted before there is a copy.           *)
MoveDeletingFirst(s, first, final, id, src) ==
    LET copy(t) == Allocated(Occupy(Write(t, t.pix, first), t.pix, id))
        close(t) == IF final THEN Flag(t, t.pix, first.flags \cup {"final"}) ELSE t
    IN  IF Failed(s) THEN s ELSE close(copy(DeletePage(s, src)))

(* spiffs_page_move: a page is written unfinalized, or copied as it is,    *)
(* before it has an entry in the lookup; then the source is deleted.  The  *)
(* page number of the copy is left in pix.                                 *)
MoveTo(s, first, final, id, src) ==
    LET copy(t) == Allocated(Occupy(Write(t, t.pix, first), t.pix, id))
        close(t) == IF final THEN Flag(t, t.pix, first.flags \cup {"final"}) ELSE t
    IN  IF Failed(s) THEN s ELSE DeletePage(close(copy(s)), src)

MovePage(s, image, id, src) ==
    MoveTo(FindFree(s), [image EXCEPT !.flags = (@ \ {"final"}) \cup {"used"}],
           "final" \in image.flags, id, src)

CopyPage(s, id, src) == MoveTo(FindFree(s), s.flash.page[src], FALSE, id, src)
=============================================================================
