---------------------------- MODULE SpiffsFiles -----------------------------
(***************************************************************************)
(* The calls of spiffs_hydrogen.c on open files, with the write cache of   *)
(* spiffs_cache.c.  Every call holds the volume's mutex from its first     *)
(* access to its last, so each is one step; the callers are tasks, and the *)
(* three calls of vfs_spiffs_unlink (open, remove, close) are three steps. *)
(* Files have one data page, flash fails only by being full, and nobody    *)
(* removes or truncates a file that is open through another descriptor.    *)
(***************************************************************************)
EXTENDS Integers, Sequences

CONSTANTS
    Names, Objs,    \* file names, object ids
    Fds,            \* the entries of fd_space
    Pages,          \* the pages of the cache
    Bytes,
    MaxSize,        \* bound: the size of a file
    LogPage,        \* the size of a cache page; writes of LogPage are not cached
    Modes,          \* the access rights files are opened with
    SharedFiles,    \* a file may be open through two descriptors
    MayFill,        \* the flash may be full
    None, Undefined, Ok, Err

ASSUME ObjsAssumption == Objs \subseteq Nat
ASSUME SizesAssumption == MaxSize \in Nat /\ LogPage \in Nat \ {0}
ASSUME ModesAssumption == Modes \subseteq SUBSET {"RDONLY", "WRONLY"}
ASSUME PagesAssumption == Pages \subseteq Nat
ASSUME NoneAssumption == None \notin Objs \cup Pages /\ Undefined \notin Nat
ASSUME SwitchesAssumption == SharedFiles \in BOOLEAN /\ MayFill \in BOOLEAN

VARIABLES
    dir,      \* the object id a name is found with
    data,     \* the bytes of every object on flash
    fd,       \* the file descriptors
    page,     \* the cache pages; only those of type WR have an obj
    result    \* what the last call returned

vars == <<dir, data, fd, page, result>>

FreePage == [obj |-> None, offset |-> 0, bytes |-> <<>>]
ClosedFd == [obj |-> None, flags |-> {}, size |-> Undefined, offset |-> 0, page |-> None]

Init == /\ dir = [n \in Names |-> None] /\ data = [o \in Objs |-> <<>>]
        /\ fd = [f \in Fds |-> ClosedFd] /\ page = [p \in Pages |-> FreePage]
        /\ result = Ok

(* A call computes from state to state; an outcome adds its result. *)
Now == [data |-> data, fd |-> fd, page |-> page]
Become(s) == data' = s.data /\ fd' = s.fd /\ page' = s.page
Outcome(s, ok) == [state |-> s, ok |-> ok]
Return(w) == Become(w.state) /\ result' = IF w.ok THEN Ok ELSE Err
Fails == result' = Err /\ UNCHANGED <<dir, data, fd, page>>

Least(a, b) == IF a < b THEN a ELSE b
IsOpen(f) == fd[f].obj # None
OpenOn(o) == {f \in Fds : fd[f].obj = o}
Length(size) == IF size = Undefined THEN 0 ELSE size

Overwrite(d, offset, bytes) ==
    SubSeq(d, 1, offset) \o bytes \o SubSeq(d, offset + Len(bytes) + 1, Len(d))

When(condition, outcome) == IF condition THEN {outcome} ELSE {}

-----------------------------------------------------------------------------
(* Writing to flash *)

(* Faulty variant: only descriptor f learns the new size. *)
AnnounceOne(s, o, size) ==
    LET f == CHOOSE g \in Fds : s.fd[g].obj = o
    IN  [s EXCEPT !.fd[f].size = size]

(* Faulty variant: the sizes add up. *)
AnnounceMore(s, o, size) ==
    [s EXCEPT !.fd = [g \in Fds |-> IF s.fd[g].obj = o
                                      THEN [s.fd[g] EXCEPT !.size = Length(@) + Length(size)]
                                      ELSE s.fd[g]]]

(* spiffs_cb_object_event: every descriptor of the object learns its size. *)
Announce(s, o, size) ==
    [s EXCEPT !.fd = [g \in Fds |-> IF s.fd[g].obj = o
                                      THEN [s.fd[g] EXCEPT !.size = size]
                                      ELSE s.fd[g]]]

(* The part before the end of the file is modified and the rest appended,  *)
(* each after spiffs_gc_check made room.  An empty file has no page to     *)
(* modify or to append into: the offsets lie inside the first page.        *)
HydroWrite(s, f, offset, bytes) ==
    LET o == s.fd[f].obj
        size == s.fd[f].size
        inside == IF offset < Length(size) THEN Least(size - offset, Len(bytes)) ELSE 0
        at == IF size = Undefined THEN offset + inside ELSE Least(offset + inside, size)
        empty == s.data[o] = <<>>
        kept == Overwrite(s.data[o], offset, SubSeq(bytes, 1, inside))
        modified == IF inside = 0 THEN s ELSE [s EXCEPT !.data[o] = kept]
        rest == SubSeq(bytes, inside + 1, Len(bytes))
        appended == Announce([modified EXCEPT !.data[o] = @ \o rest], o, at + Len(rest))
        noModify == inside > 0 /\ empty
        noAppend == empty /\ at > 0
    IN  When(inside > 0 /\ (MayFill \/ empty), Outcome(s, FALSE))
        \cup When(~noModify /\ rest = <<>>, Outcome(modified, TRUE))
        \cup When(~noModify /\ rest # <<>> /\ (MayFill \/ noAppend), Outcome(modified, FALSE))
        \cup When(~noModify /\ rest # <<>> /\ ~noAppend, Outcome(appended, TRUE))

-----------------------------------------------------------------------------
(* The write cache *)

(* Faulty variant: a page another descriptor took is not found. *)
PageOfFd(s, f) == s.fd[f].page

(* spiffs_cache_page_get_by_fd, unless the descriptor has a page already. *)
PageOf(s, f) ==
    IF s.fd[f].page # None THEN s.fd[f].page
    ELSE IF \E p \in Pages : s.page[p].obj = s.fd[f].obj
      THEN CHOOSE p \in Pages : /\ s.page[p].obj = s.fd[f].obj
                                /\ \A q \in Pages : s.page[q].obj = s.fd[f].obj => p <= q
      ELSE None

(* Faulty variant: only one descriptor forgets the page. *)
ReleaseFor(s, p) ==
    LET f == CHOOSE g \in Fds : s.fd[g].page = p
    IN  [s EXCEPT !.page[p] = FreePage, !.fd[f].page = None]

(* spiffs_cache_fd_release: open descriptors forget the page. *)
Release(s, p) ==
    [s EXCEPT !.page[p] = FreePage,
              !.fd = [g \in Fds |-> IF s.fd[g].obj # None /\ s.fd[g].page = p
                                      THEN [s.fd[g] EXCEPT !.page = None]
                                      ELSE s.fd[g]]]

(* Faulty variant: the last byte is left out. *)
DumpShort(s, f, p) ==
    {Outcome(Release(w.state, p), w.ok) :
        w \in HydroWrite(s, f, s.page[p].offset,
                         SubSeq(s.page[p].bytes, 1, Len(s.page[p].bytes) - 1))}

(* A page is written back and released, also when writing it fails. *)
Dump(s, f, p) ==
    {Outcome(Release(w.state, p), w.ok) :
        w \in HydroWrite(s, f, s.page[p].offset, s.page[p].bytes)}

(* spiffs_fflush_cache *)
Flush(s, f) ==
    IF PageOf(s, f) = None THEN {Outcome(s, TRUE)} ELSE Dump(s, f, PageOf(s, f))

(* spiffs_cache_page_allocate_by_fd evicts a read page, but not one that was *)
(* used in the current tick: with one page left it may find none.            *)
Available(s) ==
    LET free == {p \in Pages : s.page[p].obj = None}
    IN  free \cup When(\A p, q \in free : p = q, None)

Advance(s, f, n) == [s EXCEPT !.fd[f].offset = @ + n]

Store(s, f, p, bytes) ==
    Advance([s EXCEPT !.fd[f].page = p,
                      !.page[p].bytes = Overwrite(@, s.fd[f].offset - s.page[p].offset, bytes)],
            f, Len(bytes))

Fits(s, f, p, len) ==
    /\ s.fd[f].offset >= s.page[p].offset
    /\ s.fd[f].offset <= s.page[p].offset + Len(s.page[p].bytes)
    /\ s.fd[f].offset + len <= s.page[p].offset + LogPage

Direct(s, f, bytes) ==
    {Outcome(IF w.ok THEN Advance(w.state, f, Len(bytes)) ELSE w.state, w.ok) :
        w \in HydroWrite(s, f, s.fd[f].offset, bytes)}

(* A small write without a page takes a new one, or goes to flash. *)
Cache(s, f, bytes) ==
    UNION {IF p = None THEN Direct(s, f, bytes)
           ELSE {Outcome(Store([s EXCEPT !.page[p] = [obj |-> s.fd[f].obj,
                                   offset |-> s.fd[f].offset, bytes |-> <<>>]],
                               f, p, bytes), TRUE)} : p \in Available(s)}

(* Faulty variant: a big write leaves the cached one for later. *)
WriteBigFirst(s, f, bytes) ==
    LET p == PageOf(s, f)
    IN  IF Len(bytes) >= LogPage THEN Direct(s, f, bytes)
        ELSE IF p # None /\ Fits(s, f, p, Len(bytes))
          THEN {Outcome(Store(s, f, p, bytes), TRUE)}
          ELSE UNION {IF w.ok THEN Cache(w.state, f, bytes) ELSE {w} : w \in Flush(s, f)}

WriteOutcomes(s, f, bytes) ==
    LET p == PageOf(s, f)
        small == Len(bytes) < LogPage
    IN  IF small /\ p # None /\ Fits(s, f, p, Len(bytes))
          THEN {Outcome(Store(s, f, p, bytes), TRUE)}
          ELSE UNION {IF ~w.ok THEN {w}
                      ELSE IF small THEN Cache(w.state, f, bytes)
                      ELSE Direct(w.state, f, bytes) : w \in Flush(s, f)}

-----------------------------------------------------------------------------
(* The calls *)

MayOpen(n) ==
    /\ dir[n] # None
    /\ SharedFiles \/ OpenOn(dir[n]) = {}

(* spiffs_object_open_by_page; the slot's cache_page is not touched. *)
Opened(s, f, o, flags) ==
    [s EXCEPT !.fd[f] = [obj |-> o, flags |-> flags, offset |-> 0, page |-> s.fd[f].page,
                         size |-> IF s.data[o] = <<>> THEN Undefined ELSE Len(s.data[o])]]

Open(n, f, flags) ==
    /\ ~IsOpen(f) /\ MayOpen(n)
    /\ Return(Outcome(Opened(Now, f, dir[n], flags), TRUE)) /\ UNCHANGED dir

(* SPIFFS_TRUNC on an existing file: nothing to do for an empty one; on a    *)
(* full flash it fails and the slot is given back.                           *)
Emptied(s, f) ==
    LET o == s.fd[f].obj
        empty == Announce([s EXCEPT !.data[o] = <<>>], o, Undefined)
    IN  IF s.fd[f].size = Undefined THEN s ELSE [empty EXCEPT !.fd[f].size = 0]

OpenTruncated(n, f, flags) ==
    /\ ~IsOpen(f) /\ dir[n] # None /\ OpenOn(dir[n]) = {}
    /\ Return(Outcome(Emptied(Opened(Now, f, dir[n], flags), f), TRUE)) /\ UNCHANGED dir

(* SPIFFS_CREAT on a missing file takes the lowest free object id. *)
OpenCreated(n, f, flags) ==
    LET unused == Objs \ {dir[m] : m \in Names}
    IN  \E o \in unused : /\ \A i \in unused : o <= i
                          /\ ~IsOpen(f) /\ dir[n] = None
                          /\ dir' = [dir EXCEPT ![n] = o]
                          /\ Return(Outcome(Opened(Now, f, o, flags), TRUE))

(* A call with a closed descriptor, without the right, for a missing or an  *)
(* existing name, or that finds the flash full before it changes anything.  *)
Refuse == Fails

(* SPIFFS_read: an empty size is the end of the file before the cache is *)
(* flushed, and the flush's result is ignored.                           *)
Read(f, len) ==
    /\ "RDONLY" \in fd[f].flags
    /\ \/ /\ fd[f].size = Undefined
          /\ result' = [read |-> <<>>] /\ UNCHANGED <<dir, data, fd, page>>
       \/ /\ fd[f].size # Undefined
          /\ \E w \in Flush(Now, f) :
                LET d == w.state.data[w.state.fd[f].obj]
                    at == w.state.fd[f].offset
                    size == w.state.fd[f].size
                    bytes == SubSeq(d, at + 1, Least(at + len, size))
                IN  IF at < size /\ d = <<>> THEN Return(Outcome(w.state, FALSE))
                    ELSE /\ Become(Advance(w.state, f, Len(bytes)))
                         /\ result' = [read |-> bytes]
          /\ UNCHANGED dir

Write(f, bytes) ==
    /\ "WRONLY" \in fd[f].flags
    /\ fd[f].offset + Len(bytes) <= MaxSize
    /\ \E w \in WriteOutcomes(Now, f, bytes) : Return(w)
    /\ UNCHANGED dir

(* SPIFFS_lseek: behind the end it goes to the end, and fails. *)
Seek(f, to) ==
    /\ IsOpen(f)
    /\ \E w \in Flush(Now, f) :
          LET size == Length(w.state.fd[f].size)
              there == [w.state EXCEPT !.fd[f].offset = Least(to, size)]
          IN  Return(Outcome(there, to <= size))
    /\ UNCHANGED dir

Fstat(f) ==
    /\ IsOpen(f)
    /\ \E w \in Flush(Now, f) :
          Become(w.state) /\ result' = [size |-> Len(w.state.data[fd[f].obj])]
    /\ UNCHANGED dir

Closed(d) == [ClosedFd EXCEPT !.page = d.page]

(* SPIFFS_close: a failing flush leaves the descriptor open. *)
Close(f) ==
    /\ IsOpen(f)
    /\ \E w \in Flush(Now, f) :
          Return(IF w.ok THEN Outcome([w.state EXCEPT !.fd[f] = Closed(@)], TRUE) ELSE w)
    /\ UNCHANGED dir

(* SPIFFS_fremove: the deletion closes every descriptor of the object. *)
Fremove(f) ==
    LET o == fd[f].obj
        s == IF fd[f].page = None THEN Now ELSE Release(Now, fd[f].page)
    IN  /\ "WRONLY" \in fd[f].flags
        /\ OpenOn(o) = {f}
        /\ dir' = [n \in Names |-> IF dir[n] = o THEN None ELSE dir[n]]
        /\ Return(Outcome([s EXCEPT !.data[o] = <<>>,
                                    !.fd = [g \in Fds |-> IF s.fd[g].obj = o THEN Closed(s.fd[g])
                                                                            ELSE s.fd[g]]], TRUE))

(* SPIFFS_rename opens the old name in a free slot and gives it back. *)
Rename(old, new) ==
    /\ dir[old] # None /\ dir[new] = None /\ \E f \in Fds : ~IsOpen(f)
    /\ dir' = [dir EXCEPT ![old] = None, ![new] = dir[old]]
    /\ result' = Ok /\ UNCHANGED <<data, fd, page>>

Call(f) == \/ \E n \in Names, flags \in Modes :
                 Open(n, f, flags) \/ OpenTruncated(n, f, flags) \/ OpenCreated(n, f, flags)
           \/ \E len \in 1 .. LogPage : Read(f, len)
           \/ \E k \in 1 .. LogPage : \E bytes \in [1 .. k -> Bytes] : Write(f, bytes)
           \/ \E to \in 0 .. MaxSize : Seek(f, to)
           \/ Fstat(f) \/ Close(f) \/ Fremove(f)

Next == \/ Refuse
        \/ \E f \in Fds : Call(f)
        \/ \E old, new \in Names : Rename(old, new)

Spec == Init /\ [][Next]_vars

-----------------------------------------------------------------------------
(* Properties *)

Position == 0 .. MaxSize
Size == Position \cup {Undefined}
Content == UNION {[1 .. k -> Bytes] : k \in 0 .. MaxSize}

TypeOK ==
    /\ dir \in [Names -> Objs \cup {None}]
    /\ data \in [Objs -> Content]
    /\ fd \in [Fds -> [obj : Objs \cup {None}, flags : Modes \cup {{}}, size : Size,
                       offset : Position, page : Pages \cup {None}]]
    /\ page \in [Pages -> [obj : Objs \cup {None}, offset : Position, bytes : Content]]

(* Every descriptor of a file knows its size, whoever changed it: the sizes *)
(* kept by spiffs_cb_object_event are those of the flash.                   *)
SizesAgree == \A f \in Fds : IsOpen(f) => Length(fd[f].size) = Len(data[fd[f].obj])

(* spiffs_cache_page_allocate_by_fd: "before this function is called, it is *)
(* ensured that there is no already existing cache page with same object    *)
(* id".  Two pages of one object would be written back in any order.        *)
OneWritePage ==
    \A p, q \in Pages : page[p].obj # None /\ page[p].obj = page[q].obj => p = q

(* A write page belongs to an open file, and a descriptor points to a page  *)
(* of its own file: spiffs_hydro_write of a page through a descriptor never *)
(* puts one file's bytes into another.                                      *)
PagesOwned ==
    /\ \A p \in Pages : page[p].obj # None => OpenOn(page[p].obj) # {}
    /\ \A f \in Fds : fd[f].page # None => /\ IsOpen(f)
                                          /\ page[fd[f].page].obj = fd[f].obj

(* What a file holds for its users: the flash below the write page. *)
View(o) == LET P == {p \in Pages : page[p].obj = o}
               p == CHOOSE p \in P : TRUE
           IN  IF P = {} THEN data[o] ELSE Overwrite(data[o], page[p].offset, page[p].bytes)

(* spiffs_fflush_cache: "Checks if there are any cached writes ... If so,   *)
(* these writes are flushed."  A page of a file that lives on gives its     *)
(* bytes to the flash when it is released in a call that reports success,   *)
(* but for those the call itself passes over.                               *)
Passed(o, i) == \E f \in OpenOn(o) : i \in fd[f].offset + 1 .. fd'[f].offset

CachedWritesFlushed ==
    [][\A p \in Pages :
         LET o == page[p].obj
             last == page[p].offset + Len(page[p].bytes)
         IN  /\ o # None /\ page'[p].obj = None /\ result' # Err
             /\ \E n \in Names : dir'[n] = o
             => /\ last <= Len(data'[o])
                /\ \A i \in page[p].offset + 1 .. last :
                      Passed(o, i) \/ data'[o][i] = page[p].bytes[i - page[p].offset]]_vars

(* Files opened once behave as if nothing were cached. *)
Plain == INSTANCE FileStore WITH
    content <- [o \in Objs |-> View(o)],
    handle <- [f \in Fds |-> [obj |-> fd[f].obj, flags |-> fd[f].flags,
                              offset |-> fd[f].offset]]
Uncached == Plain!Spec

=============================================================================
