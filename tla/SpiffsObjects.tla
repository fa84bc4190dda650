--------------------------- MODULE SpiffsObjects ----------------------------
(***************************************************************************)
(* The objects of a SPIFFS volume: creating, opening, appending to,        *)
(* modifying, truncating, removing and reading them page by page, as       *)
(* spiffs_nucleus.c does.  The page fs->work holds is s.work; s.at says    *)
(* which index page that is (its page number and span), how many bytes are *)
(* written, and the error that ended the loop over the data pages.         *)
(***************************************************************************)
EXTENDS SpiffsGc

Least(a, b) == IF a < b THEN a ELSE b
Most(a, b) == IF a > b THEN a ELSE b

Nowhere == [pix |-> 0, span |-> None, written |-> 0, data |-> Free, error |-> Ok]

(* The number of data pages that hold bytes from offset to end, and which  *)
(* is the i-th.  A loop over them that broke lets the call finish what it  *)
(* began, and fail after that.                                             *)
Spans(offset, end) == (end - 1) \div PageSize - offset \div PageSize + 1
Span(offset, i) == offset \div PageSize + i - 1
Broken(s) == Failed(s) \/ s.at.error # Ok
OrBreak(s) == IF Failed(s) THEN [s EXCEPT !.at.error = s.res, !.res = Ok] ELSE s
Finish(s) == IF Failed(s) THEN s ELSE [s EXCEPT !.res = s.at.error]

(* Loads an index page that is not the header: through the descriptor's    *)
(* cursor, or by a search.                                                 *)
Loaded(s, pix, span) ==
    IF Failed(s) THEN s
    ELSE [s EXCEPT !.work = s.flash.page[pix], !.at.pix = pix, !.at.span = span]
LoadIndex(s, d, span) ==
    LET f == s.fd[d]
        found == IF Failed(s) THEN s
                 ELSE IF f.cspan # span THEN FindIndex(s, f.obj, span)
                 ELSE IF f.cpix \in Pages THEN [s EXCEPT !.pix = f.cpix]
                 ELSE Fail(s, "not an index page")
        valid(t) == IF Failed(t) THEN t ELSE Validate(t, t.flash.page[t.pix], span)
        load(t) == Loaded(t, t.pix, span)
    IN  load(valid(found))
LoadHeader(s, pix) ==
    IF Failed(s) THEN s ELSE Loaded(Validate(s, s.flash.page[pix], 0), pix, 0)

MoveCursor(s, d) ==
    IF Failed(s) THEN s ELSE [s EXCEPT !.fd[d].cpix = s.at.pix, !.fd[d].cspan = s.at.span]
SetSize(s, d, size) == IF Failed(s) THEN s ELSE [s EXCEPT !.fd[d].size = size]
Named(s, span) == s.work.body[IxEntry(span)]
Wrote(s, n) == IF Broken(s) THEN s ELSE [s EXCEPT !.at.written = @ + n]

(* The part of a data page that the bytes from offset to end fill with v.  *)
Bytes(span, offset, end, v) ==
    [i \in 1 .. Cells |-> IF span * PageSize + i - 1 \in offset .. end - 1 THEN v ELSE Free]

-----------------------------------------------------------------------------

(* spiffs_obj_lu_find_free_obj_id, while its bitmap has a bit for every    *)
(* object there may be.                                                    *)
Objects == 1 .. Cardinality(Pages) + 1
FreeObjId(s) ==
    LET taken == {s.flash.lu[p].obj : p \in {q \in Pages : InUse(s.flash.lu[q])}}
    IN  CHOOSE o \in Objects :
            o \notin taken /\ \A r \in 1 .. o - 1 : r \in taken

(* spiffs_object_create.                                                   *)
CreateAs(s, o, n) ==
    LET header == [Blank EXCEPT !.id = IndexId(o), !.span = 0, !.name = n,
                                !.flags = {"final", "index", "used"}]
    IN  IF Failed(s) THEN s
        ELSE Event(Write(Allocated(Occupy(s, s.pix, IndexId(o))), s.pix, header),
                   "new", o, 0, s.pix, Free)
Create(s, n) == CreateAs(FindFree(GcCheck(s, PageSize)), FreeObjId(s), n)

(* spiffs_object_open_by_page.                                             *)
OpenByPage(s, d, pix) ==
    LET header == s.flash.page[pix]
        f == [obj |-> s.flash.lu[pix].obj, hdr |-> pix, size |-> header.size,
              cpix |-> pix, cspan |-> 0]
        open(t) == IF Failed(t) THEN t ELSE [t EXCEPT !.fd[d] = f]
    IN  IF Failed(s) THEN s ELSE open(Validate(s, header, 0))

-----------------------------------------------------------------------------

(* spiffs_object_append: storing the index page in work.  An object that   *)
(* was empty has its header completed in place, another gets a new header; *)
(* an index page is completed in place, and the header gets the size.      *)
SetHeaderSize(s, d, size) ==
    LET hdr == s.fd[d].hdr
    IN  IF Failed(s) THEN s ELSE UpdateIndexHdr(s, d, s.fd[d].obj, hdr, s.flash.page[hdr], size)
AppendStore(s, d, offset, last) ==
    LET o == s.fd[d].obj
        size == offset + s.at.written
        completed == Write(s, s.at.pix, [s.work EXCEPT !.size = size])
    IN  IF Failed(s) THEN s
        ELSE IF s.at.span # 0
        THEN SetHeaderSize(Event(Write(s, s.at.pix, s.work), "upd", o, s.at.span, s.at.pix, 0),
                           d, size)
        ELSE IF offset # 0 THEN UpdateIndexHdr(s, d, o, s.fd[d].hdr, s.work, size)
        ELSE IF last THEN Event(completed, "upd", o, 0, s.at.pix, size)
        ELSE completed

(* The next index page: the header, a new page, or the last one there is.  *)
IndexMade(s, page) ==
    IF Failed(s) THEN s
    ELSE Event([s EXCEPT !.work = [page EXCEPT !.flags = @ \cup {"used"}],
                         !.at.pix = s.pix, !.at.span = page.span],
               "new", page.id.obj, page.span, s.pix, 0)
AppendLoad(s, d, offset, span) ==
    LET f == s.fd[d]
        page == [Blank EXCEPT !.id = IndexId(f.obj), !.span = span, !.flags = {"final", "index"}]
        isNew == s.at.written > 0 \/ span > IxSpan((f.size - 1) \div PageSize)
    IN  IF Failed(s) THEN s
        ELSE IF span = 0 THEN LoadHeader(s, s.at.pix)
        ELSE SetSize(MoveCursor(IF isNew THEN IndexMade(AllocateData(s, page, Blank.body, TRUE), page)
                                ELSE LoadIndex(s, d, span), d), d, offset + s.at.written)

(* A data page of the bytes: a new one, or the last one there is.          *)
Place(s, d, span, from, bytes) ==
    LET header == [Blank EXCEPT !.id = DataId(s.fd[d].obj), !.span = span, !.flags = {"final"}]
        p == Named(s, span)
    IN  IF Failed(s) THEN s
        ELSE IF from % PageSize = 0 THEN OrBreak(AllocateData(s, header, bytes, TRUE))
        ELSE IF p = Free THEN Fail(s, "bad reference")
        ELSE [Write(s, p, [Blank EXCEPT !.body = bytes]) EXCEPT !.pix = p]
NamePlaced(s, span, n) == IF Broken(s) THEN s ELSE Wrote(NameNew(s, span), n)

AppendSpan(s, d, offset, end, v, span) ==
    LET from == Most(offset, span * PageSize)
        to == Least(end, (span + 1) * PageSize)
        stored == IF s.at.written = 0 THEN s
                  ELSE SetSize(AppendStore(s, d, offset, FALSE), d, offset + s.at.written)
        indexed == IF s.at.span = IxSpan(span) THEN s ELSE AppendLoad(stored, d, offset, IxSpan(span))
    IN  IF Broken(s) THEN s
        ELSE NamePlaced(Place(indexed, d, span, from, Bytes(span, from, to, v)), span, to - from)

AppendStart(s, d) ==
    IF Failed(s) THEN s ELSE [s EXCEPT !.at = [Nowhere EXCEPT !.pix = s.fd[d].hdr]]
AppendEnd(s, d, offset) ==
    IF Failed(s) THEN s
    ELSE Finish(AppendStore(SetSize(MoveCursor(s, d), d, offset + s.at.written), d, offset, TRUE))
AppendBytes(s, d, offset, len, v) ==
    LET end == offset + len
    IN  IF len = 0 \/ Failed(s) THEN s
        ELSE AppendEnd(Each(AppendStart(GcCheck([s EXCEPT !.at = Nowhere], len + PageSize), d),
                            Spans(offset, end),
                            LAMBDA t, i : AppendSpan(t, d, offset, end, v, Span(offset, i))),
                       d, offset)

(* spiffs_object_modify: every data page is written anew, and the old one  *)
(* deleted, before the index page that names them is.  That a whole page   *)
(* could not be allocated goes unnoticed: the index then names the page of *)
(* the loop before, or what the variable held; and the cursor is set to    *)
(* the new index page even when there is none.                             *)
WholePage(s) == IF Failed(s) THEN [s EXCEPT !.res = Ok, !.strayed = @ \/ s.at.data = s.stray]
                ELSE [s EXCEPT !.at.data = s.pix]
PartPage(s, bytes, old) ==
    LET rest == [i \in 1 .. Cells |-> IF i <= PageSize /\ bytes[i] = Free
                                       THEN s.flash.page[old].body[i] ELSE Free]
        copied == Write(s, s.pix, [Blank EXCEPT !.body = rest])
        made == Write(copied, s.pix, [Blank EXCEPT !.body = bytes])
    IN  IF Failed(s) THEN s
        ELSE [Flag(made, s.pix, {"final", "used"}) EXCEPT !.at.data = s.pix]
Replace(s, span, old, n) ==
    IF Failed(s) THEN s
    ELSE IF old = Free THEN Fail(s, "no such page")
    ELSE Wrote(Name(DeletePage(s, old), span, s.at.data), n)
Renew(s, d, span, bytes, n) ==
    LET header == [Blank EXCEPT !.id = DataId(s.fd[d].obj), !.span = span]
        old == Named(s, span)
    IN  IF Failed(s) THEN s
        ELSE IF n = PageSize
        THEN OrBreak(Replace(WholePage(AllocateData(s, header, bytes, TRUE)), span, old, n))
        ELSE IF old = Free THEN Fail(s, "bad reference")
        ELSE OrBreak(Replace(PartPage(AllocateData(s, header, Blank.body, FALSE), bytes, old),
                             span, old, n))

ModifySpan(s, d, offset, end, v, span) ==
    LET from == Most(offset, span * PageSize)
        to == Least(end, (span + 1) * PageSize)
        stored == IF s.at.written = 0 THEN s
                  ELSE StoreIndex(s, d, s.fd[d].obj, s.at.span, s.at.pix)
        loaded == IF IxSpan(span) = 0 THEN LoadHeader(stored, s.at.pix)
                  ELSE LoadIndex(stored, d, IxSpan(span))
        indexed == IF s.at.span = IxSpan(span) THEN s ELSE MoveCursor(loaded, d)
    IN  IF Broken(s) THEN s ELSE Renew(indexed, d, span, Bytes(span, from, to, v), to - from)

ModifyStart(s, d) ==
    IF Failed(s) THEN s
    ELSE [s EXCEPT !.at = [Nowhere EXCEPT !.pix = s.fd[d].hdr, !.data = s.stray]]
CursorSet(s, d) == IF Failed(s) /\ s.at.span # 0
                   THEN [s EXCEPT !.fd[d].cpix = s.stray, !.strayed = TRUE] ELSE Finish(s)
ModifyEnd(s, d) ==
    IF Failed(s) THEN s
    ELSE CursorSet(StoreIndex(MoveCursor(s, d), d, s.fd[d].obj, s.at.span, s.at.pix), d)
ModifyBytes(s, d, offset, len, v) ==
    LET end == offset + len
    IN  IF len = 0 \/ Failed(s) THEN s
        ELSE ModifyEnd(Each(ModifyStart(GcCheck(s, len + PageSize), d), Spans(offset, end),
                            LAMBDA t, i : ModifySpan(t, d, offset, end, v, Span(offset, i))), d)

(* spiffs_hydro_write: what lies inside the file is modified, the rest     *)
(* appended.                                                               *)
HydroWrite(s, d, offset, len, v) ==
    LET size == s.fd[d].size
        inside == IF size # Free /\ offset < size THEN Least(size - offset, len) ELSE 0
    IN  AppendBytes(ModifyBytes(s, d, offset, inside, v), d, offset + inside, len - inside, v)

-----------------------------------------------------------------------------

(* Faulty variant: the index page stays when its data pages are gone.      *)
KeepIndex(s, d, full, size) ==
    IF s.at.span = None \/ full THEN s ELSE SetHeaderSize(s, d, size)

DropIndex(s, d, full, size) ==
    LET dropped == Event(DeletePage(s, s.at.pix), "del", s.fd[d].obj, s.at.span, s.at.pix, 0)
    IN  IF s.at.span = None THEN s
        ELSE IF full THEN dropped
        ELSE SetHeaderSize(dropped, d, size)
LoadFound(s, span) ==
    IF Failed(s) THEN s ELSE Loaded(Validate(s, s.flash.page[s.pix], span), s.pix, span)
LoadAnyIndex(s, d, span) ==
    IF Failed(s) THEN s
    ELSE IF span = 0 THEN LoadHeader(s, s.fd[d].hdr)
    ELSE LoadFound(FindIndex(s, s.fd[d].obj, span), span)
Shorten(s, d, span) ==
    LET p == Named(s, span)
        unnamed == Name(s, span, Free)
    IN  IF Failed(s) THEN s
        ELSE SetSize(IF p = Free THEN unnamed ELSE DeletePage(unnamed, p), d, span * PageSize)
(* spiffs_object_truncate to size 0, the only size SPIFFS calls it with,   *)
(* and removing: data pages from the last, each index page when the data   *)
(* pages it names are gone, and at the end the header, emptied or deleted. *)
TruncateSpan(s, d, full, span) ==
    LET loaded == LoadAnyIndex(DropIndex(s, d, full, (span + 1) * PageSize), d, IxSpan(span))
    IN  Shorten(IF s.at.span = IxSpan(span) THEN s ELSE MoveCursor(loaded, d), d, span)

TruncateStart(s, d, full) ==
    LET t == [s EXCEPT !.at = [Nowhere EXCEPT !.pix = s.fd[d].hdr]]
    IN  IF Failed(s) THEN s
        ELSE IF full THEN Flag(t, t.at.pix, {"used", "index", "final", "ixdele"})
        ELSE t
TruncateEnd(s, d, full, o) ==
    IF Failed(s) THEN s
    ELSE IF full THEN Event(DeletePage(s, s.at.pix), "del", o, 0, s.at.pix, 0)
    ELSE SetSize(UpdateIndexHdr(s, d, o, s.at.pix, [s.work EXCEPT !.body = Blank.body], Free), d, 0)
Truncate(s, d, full) ==
    LET size == s.fd[d].size
        spans == IF size \in {0, Free} THEN 0 ELSE Spans(0, size)
        started == TruncateStart(IF full THEN s ELSE GcCheck(s, 2 * PageSize), d, full)
    IN  IF Failed(s) \/ (size \in {0, Free} /\ ~full) THEN s
        ELSE TruncateEnd(Each(started, spans, LAMBDA t, i : TruncateSpan(t, d, full, spans - i)),
                         d, full, s.fd[d].obj)

-----------------------------------------------------------------------------

(* spiffs_object_read from a data page to the end; the bytes read are in   *)
(* s.out.                                                                  *)
ReadPage(s, span, size) ==
    LET p == Named(s, span)
    IN  IF Failed(s) THEN s
        ELSE IF p = Free THEN Fail(s, "bad reference")
        ELSE [s EXCEPT !.out = @ \o SubSeq(s.flash.page[p].body, 1,
                                            Least(PageSize, size - span * PageSize))]
ReadSpan(s, d, span, size) ==
    LET loaded == IF IxSpan(span) = 0 THEN LoadHeader(s, s.fd[d].hdr) ELSE LoadIndex(s, d, IxSpan(span))
    IN  ReadPage(IF s.at.span = IxSpan(span) THEN s ELSE MoveCursor(loaded, d), span, size)

Read(s, d, first) ==
    LET size == s.fd[d].size
    IN  IF size \in {0, Free} THEN s
        ELSE Each([s EXCEPT !.at = Nowhere], Spans(0, size) - first,
                  LAMBDA t, i : ReadSpan(t, d, first + i - 1, size))
=============================================================================
