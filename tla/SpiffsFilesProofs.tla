------------------------- MODULE SpiffsFilesProofs --------------------------
(***************************************************************************)
(* Proofs about SpiffsFiles: no object has two write pages, a write page   *)
(* is one its descriptors know, and the sizes in the descriptors are those *)
(* of the flash as long as it does not fill up.                            *)
(***************************************************************************)
EXTENDS SpiffsFiles, SequenceTheorems, TLAPS

(* A closed descriptor has no rights. *)
FdType == {d \in [obj : Objs \cup {None}, flags : Modes \cup {{}}, size : Size,
                  offset : Position, page : Pages \cup {None}] :
             d.obj = None => d.flags = {}}
PageType == [obj : Objs \cup {None}, offset : Position, bytes : Content]
StateType == [data : [Objs -> Content], fd : [Fds -> FdType], page : [Pages -> PageType]]

(* A file has the size its descriptors say, or nothing after a failed      *)
(* append; it has exactly that size while the flash has room.              *)
Agrees(s, f) == Length(s.fd[f].size) = Len(s.data[s.fd[f].obj])
SizesRight(s) ==
    \A f \in Fds : s.fd[f].obj # None =>
        (s.data[s.fd[f].obj] = <<>> /\ MayFill) \/ Agrees(s, f)

PagesFit(s) == \A p \in Pages : s.page[p].offset + Len(s.page[p].bytes) <= MaxSize
OnePage(s) == \A p, q \in Pages :
    s.page[p].obj # None /\ s.page[p].obj = s.page[q].obj => p = q
Pointed(s) == \A p \in Pages : s.page[p].obj # None =>
    \E f \in Fds : s.fd[f].obj = s.page[p].obj /\ s.fd[f].page = p
PointsOwn(s) == \A f \in Fds : s.fd[f].page # None =>
    s.fd[f].obj # None /\ s.page[s.fd[f].page].obj = s.fd[f].obj

(* While the flash has room nobody stands, and no page begins, behind what *)
(* is on flash and in the file's write page.                               *)
Reached(s, o, i) ==
    \/ i <= Len(s.data[o])
    \/ \E p \in Pages : s.page[p].obj = o /\ i <= s.page[p].offset + Len(s.page[p].bytes)
Reach(s) ==
    ~MayFill => /\ \A f \in Fds : s.fd[f].obj # None => Reached(s, s.fd[f].obj, s.fd[f].offset)
                /\ \A p \in Pages : s.page[p].obj # None =>
                      s.page[p].offset <= Len(s.data[s.page[p].obj])

Good(s) == /\ s \in StateType /\ SizesRight(s) /\ PagesFit(s) /\ OnePage(s)
           /\ Pointed(s) /\ PointsOwn(s) /\ Reach(s)

IInv == dir \in [Names -> Objs \cup {None}] /\ Good(Now)

-----------------------------------------------------------------------------
(* Lemmas about bytes *)

(* Content, as sequences.                                                 *)
LEMMA ContentIs == Content = {d \in Seq(Bytes) : Len(d) <= MaxSize}
<1>1. ASSUME NEW d \in Content PROVE d \in Seq(Bytes) /\ Len(d) <= MaxSize
  <2>1. PICK k \in 0 .. MaxSize : d \in [1 .. k -> Bytes]
    BY DEF Content
  <2> QED
    BY <2>1, SizesAssumption
<1>2. ASSUME NEW d \in Seq(Bytes), Len(d) <= MaxSize PROVE d \in Content
  <2>1. Len(d) \in 0 .. MaxSize /\ d \in [1 .. Len(d) -> Bytes]
    BY <1>2, LenProperties, SizesAssumption
  <2> QED
    BY <2>1 DEF Content
<1> QED
  BY <1>1, <1>2

(* Overwriting from inside or from the end makes a file no shorter.        *)
LEMMA OverwriteRight ==
  ASSUME NEW d \in Seq(Bytes), NEW k \in 0 .. Len(d), NEW bytes \in Seq(Bytes)
  PROVE  /\ Overwrite(d, k, bytes) \in Seq(Bytes)
         /\ Len(Overwrite(d, k, bytes)) =
              IF k + Len(bytes) <= Len(d) THEN Len(d) ELSE k + Len(bytes)
<1>1. Len(d) \in Nat /\ Len(bytes) \in Nat /\ \A i \in 1 .. Len(d) : d[i] \in Bytes
  BY LenProperties, ElementOfSeq
<1>2. SubSeq(d, 1, k) \in Seq(Bytes) /\ Len(SubSeq(d, 1, k)) = k
  <2>1. \A i \in 1 .. k : d[i] \in Bytes
    BY <1>1
  <2> QED
    BY <1>1, <2>1, SubSeqProperties
<1> DEFINE end == k + Len(bytes) + 1
           tail == SubSeq(d, end, Len(d))
<1>3. tail \in Seq(Bytes) /\ Len(tail) = IF end <= Len(d) THEN Len(d) - end + 1 ELSE 0
  <2>1. \A i \in end .. Len(d) : d[i] \in Bytes
    BY <1>1
  <2> QED
    BY <1>1, <2>1, SubSeqProperties
<1>4. /\ SubSeq(d, 1, k) \o bytes \in Seq(Bytes)
      /\ Len(SubSeq(d, 1, k) \o bytes) = k + Len(bytes)
  BY <1>2, ConcatProperties
<1>5. /\ (SubSeq(d, 1, k) \o bytes) \o tail \in Seq(Bytes)
      /\ Len((SubSeq(d, 1, k) \o bytes) \o tail) = k + Len(bytes) + Len(tail)
  BY <1>3, <1>4, ConcatProperties
<1>6. Overwrite(d, k, bytes) = (SubSeq(d, 1, k) \o bytes) \o tail
  BY DEF Overwrite
<1>7. Overwrite(d, k, bytes) \in Seq(Bytes)
  BY <1>5, <1>6
<1> QED
  <2>1. k \in Nat /\ Len(d) \in Nat /\ Len(bytes) \in Nat
    BY <1>1
  <2>2. Len(Overwrite(d, k, bytes)) = k + Len(bytes) + Len(tail)
    BY <1>5, <1>6
  <2>3. CASE k + Len(bytes) < Len(d)
    <3>1. Len(tail) = Len(d) - (k + Len(bytes))
      BY <1>3, <2>1, <2>3
    <3>2. Len(Overwrite(d, k, bytes)) = Len(d)
      <4> HIDE DEF tail
      <4> QED
        BY <2>1, <2>2, <3>1
    <3> QED
      BY <1>7, <2>1, <2>3, <3>2
  <2>4. CASE k + Len(bytes) >= Len(d)
    <3>1. Len(tail) = 0
      BY <1>3, <2>1, <2>4
    <3>2. Len(Overwrite(d, k, bytes)) = k + Len(bytes)
      <4> HIDE DEF tail
      <4> QED
        BY <2>1, <2>2, <3>1
    <3> QED
      BY <1>7, <2>1, <2>4, <3>2
  <2> QED
    BY <2>1, <2>3, <2>4

-----------------------------------------------------------------------------
(* Lemmas about spiffs_hydro_write *)

(* How many of n bytes lie inside the file, and where the others go.       *)
Inside(size, offset, n) == IF offset < Length(size) THEN Least(size - offset, n) ELSE 0
Behind(size, offset, n) ==
    IF size = Undefined THEN offset + Inside(size, offset, n)
    ELSE Least(offset + Inside(size, offset, n), size)

(* The split of a write at the end of the file.                            *)
LEMMA InsideRight ==
  ASSUME NEW size \in Size, NEW offset \in Nat, NEW n \in Nat, offset + n <= MaxSize
  PROVE  /\ Inside(size, offset, n) \in 0 .. n
         /\ Inside(size, offset, n) > 0 =>
              size \in Nat /\ offset + Inside(size, offset, n) <= size
         /\ size = Undefined => Inside(size, offset, n) = 0 /\ Behind(size, offset, n) = offset
         /\ size # Undefined /\ Inside(size, offset, n) < n => Behind(size, offset, n) = size
         /\ Behind(size, offset, n) \in Position
         /\ Behind(size, offset, n) + n - Inside(size, offset, n) <= MaxSize
<1>1. CASE size = Undefined
  BY <1>1, SizesAssumption, NoneAssumption DEF Inside, Behind, Length, Position
<1>2. CASE size # Undefined
  <2>1. size \in Nat /\ size <= MaxSize /\ Length(size) = size
    BY <1>2, SizesAssumption DEF Size, Position, Length
  <2> QED
    BY <1>2, <2>1, SizesAssumption DEF Inside, Behind, Least, Position
<1> QED
  BY <1>1, <1>2

SameUse(s, t) ==
    /\ t.page = s.page
    /\ \A g \in Fds : /\ t.fd[g].obj = s.fd[g].obj /\ t.fd[g].flags = s.fd[g].flags
                      /\ t.fd[g].offset = s.fd[g].offset /\ t.fd[g].page = s.fd[g].page
                      /\ s.fd[g].size # Undefined => t.fd[g].size # Undefined

Rest(bytes, n) == SubSeq(bytes, n + 1, Len(bytes))
Modified(s, o, offset, bytes, n) ==
    IF n = 0 THEN s
    ELSE [s EXCEPT !.data[o] = Overwrite(s.data[o], offset, SubSeq(bytes, 1, n))]

Appended(s, o, at, rest) == Announce([s EXCEPT !.data[o] = @ \o rest], o, at + Len(rest))

HydroOutcome(s, w, d, n, at, rest, modified, f, o) ==
    \/ w = Outcome(s, FALSE) /\ n > 0 /\ (MayFill \/ d = <<>>)
    \/ /\ ~(n > 0 /\ d = <<>>)
       /\ \/ w = Outcome(modified, TRUE) /\ rest = <<>>
          \/ w = Outcome(modified, FALSE) /\ MayFill
          \/ w = Outcome(modified, FALSE) /\ d = <<>> /\ at > 0 /\ rest # <<>>
          \/ w = Outcome(Appended(modified, o, at, rest), TRUE) /\ ~(d = <<>> /\ at > 0) /\ rest # <<>>

(* The outcomes of HydroWrite, by name.                                    *)
LEMMA HydroCases ==
  ASSUME NEW s, NEW f, NEW offset, NEW bytes, NEW w \in HydroWrite(s, f, offset, bytes)
  PROVE  LET o == s.fd[f].obj
             n == Inside(s.fd[f].size, offset, Len(bytes))
         IN  HydroOutcome(s, w, s.data[o], n, Behind(s.fd[f].size, offset, Len(bytes)),
                          Rest(bytes, n), Modified(s, o, offset, bytes, n), f, o)
BY DEF HydroWrite, When, Inside, Behind, Modified, Rest, Appended, HydroOutcome

Kept(d, offset, bytes, n) == IF n = 0 THEN d ELSE Overwrite(d, offset, SubSeq(bytes, 1, n))

(* The bytes of the file after a write: what was there, or more.           *)
LEMMA HydroBytes ==
  ASSUME NEW d \in Content, NEW size \in Size, NEW offset \in Nat, NEW bytes \in Seq(Bytes),
         offset + Len(bytes) <= MaxSize, d = <<>> \/ Length(size) = Len(d),
         NEW n, n = Inside(size, offset, Len(bytes)), NEW at, at = Behind(size, offset, Len(bytes)),
         NEW rest, rest = Rest(bytes, n), NEW kept, kept = Kept(d, offset, bytes, n),
         ~(n > 0 /\ d = <<>>)
  PROVE  /\ kept \in Content /\ Len(kept) = Len(d)
         /\ rest # <<>> => Len(rest) > 0 /\ n < Len(bytes)
         /\ rest = <<>> => n = Len(bytes)
         /\ Len(rest) \in Nat /\ Len(rest) = Len(bytes) - n
         /\ ~(d = <<>> /\ at > 0) /\ rest # <<>> =>
               /\ kept \o rest \in Content
               /\ Len(kept \o rest) = at + Len(rest)
               /\ Len(kept \o rest) >= Len(d)
               /\ at + Len(rest) >= offset + Len(bytes) \/ offset > Len(d)
<1>1. /\ Len(bytes) \in Nat /\ d \in Seq(Bytes) /\ Len(d) \in Nat /\ Len(d) <= MaxSize
      /\ \A i \in 1 .. Len(bytes) : bytes[i] \in Bytes
  BY ContentIs, LenProperties, ElementOfSeq
<1>2. /\ n \in 0 .. Len(bytes) /\ at \in Position /\ at + Len(bytes) - n <= MaxSize
      /\ n > 0 => size \in Nat /\ offset + n <= size
      /\ size = Undefined => n = 0 /\ at = offset
      /\ size # Undefined /\ n < Len(bytes) => at = size
  BY <1>1, InsideRight
<1>3. rest \in Seq(Bytes) /\ Len(rest) = Len(bytes) - n /\ Len(rest) \in Nat
  <2>1. \A i \in n + 1 .. Len(bytes) : bytes[i] \in Bytes
    BY <1>1, <1>2
  <2>2. rest \in Seq(Bytes) /\ Len(rest) = IF n + 1 <= Len(bytes) THEN Len(bytes) - (n + 1) + 1 ELSE 0
    BY <1>1, <1>2, <2>1, SubSeqProperties DEF Rest
  <2> QED
    BY <1>1, <1>2, <2>2
<1>4. SubSeq(bytes, 1, n) \in Seq(Bytes) /\ Len(SubSeq(bytes, 1, n)) = n
  <2>1. \A i \in 1 .. n : bytes[i] \in Bytes
    BY <1>1, <1>2
  <2> QED
    BY <1>1, <1>2, <2>1, SubSeqProperties
<1>5. kept \in Seq(Bytes) /\ Len(kept) = Len(d)
  <2>1. CASE n = 0
    BY <2>1, <1>1 DEF Kept
  <2>2. CASE n > 0
    <3>1. Len(d) = size /\ offset + n <= Len(d) /\ offset \in 0 .. Len(d)
      BY <1>1, <1>2, <2>2, EmptySeq, NoneAssumption DEF Length
    <3> QED
      BY <1>1, <1>4, <2>2, <3>1, OverwriteRight DEF Kept
  <2> QED
    BY <1>2, <2>1, <2>2
<1>6. kept \in Content
  BY <1>1, <1>5, ContentIs
<1>7. rest # <<>> => Len(rest) > 0
  BY <1>3, EmptySeq
<1>8. rest = <<>> => Len(rest) = 0
  BY EmptySeq
<1>9. ASSUME ~(d = <<>> /\ at > 0), rest # <<>>
      PROVE  /\ kept \o rest \in Content
             /\ Len(kept \o rest) = at + Len(rest)
             /\ Len(kept \o rest) >= Len(d)
             /\ at + Len(rest) >= offset + Len(bytes) \/ offset > Len(d)
  <2>1. kept \o rest \in Seq(Bytes) /\ Len(kept \o rest) = Len(d) + Len(rest)
    <3>1. kept \o rest \in Seq(Bytes) /\ Len(kept \o rest) = Len(kept) + Len(rest)
      BY <1>3, <1>5, ConcatProperties
    <3> QED
      BY <1>5, <3>1
  <2>2. n < Len(bytes) /\ at \in Nat
    BY <1>1, <1>2, <1>3, <1>7, <1>9, SizesAssumption DEF Position
  <2>3. Len(d) = at
    <3>1. CASE d = <<>>
      BY <3>1, <1>9, <2>2, EmptySeq
    <3>2. CASE d # <<>>
      <4>1. Len(d) > 0 /\ Length(size) = Len(d)
        BY <3>2, <1>1, EmptySeq
      <4>2. size # Undefined /\ Length(size) = size
        BY <4>1 DEF Length
      <4> QED
        BY <4>1, <4>2, <2>2, <1>2
    <3> QED
      BY <3>1, <3>2
  <2>4. kept \o rest \in Content
    <3>1. Len(d) + Len(rest) <= MaxSize
      BY <1>1, <1>2, <1>3, <2>2, <2>3, SizesAssumption
    <3> QED
      BY <2>1, <3>1, ContentIs
  <2>5. at + Len(rest) >= offset + Len(bytes) \/ offset > Len(d)
    <3>1. n > 0 => offset + n <= at
      BY <1>2, <2>2, NoneAssumption
    <3> QED
      BY <1>1, <1>2, <1>3, <2>2, <2>3, <3>1
  <2>6. Len(kept \o rest) >= Len(d)
    BY <1>1, <1>3, <2>1
  <2> QED
    BY <2>1, <2>3, <2>4, <2>5, <2>6
<1> QED
  BY <1>1, <1>2, <1>3, <1>5, <1>6, <1>7, <1>8, <1>9

LEMMA SizeSet ==
  ASSUME NEW r \in FdType, NEW size \in Size
  PROVE  /\ [r EXCEPT !.size = size] \in FdType
         /\ [r EXCEPT !.size = size].size = size
         /\ [r EXCEPT !.size = size].obj = r.obj /\ [r EXCEPT !.size = size].flags = r.flags
         /\ [r EXCEPT !.size = size].offset = r.offset /\ [r EXCEPT !.size = size].page = r.page
BY DEF FdType

(* A write keeps types and sizes, takes no byte away, and with room on     *)
(* flash takes every byte from a place the file reaches.                   *)
LEMMA HydroShape ==
  ASSUME NEW s \in StateType, NEW f \in Fds, s.fd[f].obj # None, SizesRight(s),
         NEW offset \in Nat, NEW bytes \in Seq(Bytes), offset + Len(bytes) <= MaxSize,
         ~MayFill => offset <= Len(s.data[s.fd[f].obj]),
         NEW w \in HydroWrite(s, f, offset, bytes)
  PROVE  LET o == s.fd[f].obj IN
         /\ w.ok \in BOOLEAN /\ w.state \in StateType /\ SizesRight(w.state)
         /\ SameUse(s, w.state)
         /\ \A r \in Objs : Len(w.state.data[r]) >= Len(s.data[r])
         /\ ~MayFill /\ offset <= Len(s.data[o]) =>
               w.ok /\ Len(w.state.data[o]) >= offset + Len(bytes)
<1> DEFINE o == s.fd[f].obj
           d == s.data[o]
           size == s.fd[f].size
           n == Inside(size, offset, Len(bytes))
           at == Behind(size, offset, Len(bytes))
           rest == Rest(bytes, n)
           kept == Kept(d, offset, bytes, n)
           modified == Modified(s, o, offset, bytes, n)
<1> SUFFICES /\ w.ok \in BOOLEAN /\ w.state \in StateType /\ SizesRight(w.state)
             /\ SameUse(s, w.state)
             /\ \A r \in Objs : Len(w.state.data[r]) >= Len(s.data[r])
             /\ ~MayFill /\ offset <= Len(d) =>
                   w.ok /\ Len(w.state.data[o]) >= offset + Len(bytes)
  OBVIOUS
<1>1. /\ o \in Objs /\ d \in Content /\ size \in Size /\ Len(d) \in Nat
      /\ Len(bytes) \in Nat /\ ((MayFill /\ d = <<>>) \/ Length(size) = Len(d))
  <2>1. s.fd[f] \in FdType /\ s.data \in [Objs -> Content]
    BY DEF StateType
  <2>2. o \in Objs /\ size \in Size
    BY <2>1 DEF FdType
  <2> QED
    BY <2>1, <2>2, ContentIs, LenProperties DEF SizesRight, Agrees
<1>2. /\ n \in 0 .. Len(bytes) /\ at \in Position /\ at + Len(bytes) - n <= MaxSize
      /\ n > 0 => size \in Nat /\ offset + n <= size
      /\ size = Undefined => n = 0 /\ at = offset
      /\ size # Undefined /\ n < Len(bytes) => at = size
  <2> HIDE DEF o, d, size
  <2> QED
    BY <1>1, InsideRight
<1>3. ~(n > 0 /\ d = <<>>) =>
        /\ kept \in Content /\ Len(kept) = Len(d)
        /\ rest # <<>> => Len(rest) > 0 /\ n < Len(bytes)
        /\ rest = <<>> => n = Len(bytes)
        /\ Len(rest) \in Nat /\ Len(rest) = Len(bytes) - n
        /\ ~(d = <<>> /\ at > 0) /\ rest # <<>> =>
              /\ kept \o rest \in Content
              /\ Len(kept \o rest) = at + Len(rest)
              /\ Len(kept \o rest) >= Len(d)
              /\ at + Len(rest) >= offset + Len(bytes) \/ offset > Len(d)
  <2> HIDE DEF o, d, size
  <2> QED
    BY <1>1, HydroBytes
<1>4. HydroOutcome(s, w, d, n, at, rest, modified, f, o)
  BY HydroCases
<1>5. /\ s.data \in [Objs -> Content] /\ s.fd \in [Fds -> FdType] /\ s.page \in [Pages -> PageType]
      /\ \A g \in Fds : s.fd[g].size \in Size
      /\ \A r \in Objs : Len(s.data[r]) \in Nat
  BY ContentIs, LenProperties DEF StateType, FdType
<1>6. ASSUME ~(n > 0 /\ d = <<>>)
      PROVE  /\ modified \in StateType /\ modified.page = s.page /\ modified.fd = s.fd
             /\ modified.data = [s.data EXCEPT ![o] = kept]
  <2>1. kept \in Content
    BY <1>3, <1>6
  <2>2. CASE n = 0
    BY <2>2, <1>1, <1>5 DEF Modified, Kept
  <2>3. CASE n # 0
    <3>1. modified = [s EXCEPT !.data[o] = kept]
      BY <2>3 DEF Modified, Kept
    <3> HIDE DEF modified, kept, o
    <3> QED
      BY <1>1, <2>1, <3>1 DEF StateType
  <2> QED
    BY <2>2, <2>3
<1> HIDE DEF n, at, rest, kept, modified
<1>7. CASE w = Outcome(s, FALSE) /\ n > 0 /\ (MayFill \/ d = <<>>)
  <2>1. w.ok = FALSE /\ w.state = s
    BY <1>7 DEF Outcome
  <2>2. MayFill
    BY <1>1, <1>2, <1>7, EmptySeq, NoneAssumption DEF Length
  <2>3. SameUse(s, s)
    BY DEF SameUse
  <2>4. \A r \in Objs : Len(s.data[r]) >= Len(s.data[r])
    BY <1>5
  <2> HIDE DEF d, o
  <2> QED
    BY <2>1, <2>2, <2>3, <2>4
<1>8. ASSUME ~(n > 0 /\ d = <<>>), w.state = modified, w.ok \in BOOLEAN,
             ~MayFill => w.ok /\ rest = <<>>
      PROVE  /\ w.ok \in BOOLEAN /\ w.state \in StateType /\ SizesRight(w.state)
             /\ SameUse(s, w.state)
             /\ \A r \in Objs : Len(w.state.data[r]) >= Len(s.data[r])
             /\ ~MayFill /\ offset <= Len(d) =>
                   w.ok /\ Len(w.state.data[o]) >= offset + Len(bytes)
  <2>1. /\ w.state.data = [s.data EXCEPT ![o] = kept] /\ w.state.fd = s.fd
        /\ w.state.page = s.page /\ w.state \in StateType
    BY <1>6, <1>8
  <2>2. kept \in Content /\ Len(kept) = Len(d) /\ (d = <<>> => kept = <<>>)
    <3>1. kept \in Content /\ Len(kept) = Len(d) /\ kept \in Seq(Bytes)
      BY <1>3, <1>8, ContentIs
    <3> QED
      BY <3>1, EmptySeq
  <2>3. \A r \in Objs : w.state.data[r] = IF r = o THEN kept ELSE s.data[r]
    BY <1>5, <2>1
  <2>4. \A g \in Fds : s.fd[g].obj # None => s.fd[g].obj \in Objs
    BY <1>5 DEF FdType
  <2>5. SizesRight(w.state)
    BY <2>1, <2>2, <2>3, <2>4 DEF SizesRight, Agrees
  <2>6. SameUse(s, w.state)
    BY <2>1 DEF SameUse
  <2>7. \A r \in Objs : Len(w.state.data[r]) >= Len(s.data[r])
    BY <1>5, <2>2, <2>3
  <2>8. ASSUME ~MayFill, offset <= Len(d) PROVE Len(kept) >= offset + Len(bytes)
    <3>1. n = Len(bytes) /\ Length(size) = Len(d)
      BY <1>1, <1>3, <1>8, <2>8
    <3> QED
      BY <1>1, <1>2, <2>2, <2>8, <3>1, NoneAssumption DEF Length
  <2> QED
    BY <1>1, <1>8, <2>1, <2>3, <2>5, <2>6, <2>7, <2>8
<1>9. CASE ~(n > 0 /\ d = <<>>) /\ w = Outcome(modified, TRUE) /\ rest = <<>>
  BY <1>8, <1>9 DEF Outcome
<1>10. CASE ~(n > 0 /\ d = <<>>) /\ w = Outcome(modified, FALSE) /\ MayFill
  BY <1>8, <1>10 DEF Outcome
<1>11. CASE /\ ~(n > 0 /\ d = <<>>) /\ w = Outcome(modified, FALSE)
            /\ d = <<>> /\ at > 0 /\ rest # <<>>
  <2>1. MayFill
    <3>1. ASSUME ~MayFill PROVE FALSE
      <4>1. Len(d) = 0 /\ Length(size) = 0 /\ offset = 0
        BY <1>1, <1>11, <3>1, EmptySeq
      <4>2. size = Undefined \/ size = 0
        BY <4>1 DEF Length
      <4>3. n < Len(bytes)
        BY <1>3, <1>11
      <4> QED
        BY <1>2, <1>11, <4>1, <4>2, <4>3
    <3> QED
      BY <3>1
  <2>2. w.state = modified /\ w.ok = FALSE
    BY <1>11 DEF Outcome
  <2> QED
    BY <1>8, <1>11, <2>1, <2>2
<1>12. CASE /\ ~(n > 0 /\ d = <<>>) /\ w = Outcome(Appended(modified, o, at, rest), TRUE)
            /\ ~(d = <<>> /\ at > 0) /\ rest # <<>>
  <2> DEFINE total == at + Len(rest)
             grown == kept \o rest
  <2>1. /\ grown \in Content /\ Len(grown) = total
        /\ total >= offset + Len(bytes) \/ offset > Len(d)
        /\ Len(rest) \in Nat /\ Len(rest) > 0 /\ at \in Nat /\ Len(kept) = Len(d)
    BY <1>2, <1>3, <1>12, SizesAssumption DEF Position
  <2>2. total \in Position /\ total \in Size /\ total # Undefined /\ total # 0
    BY <2>1, <1>2, <1>3, <1>12, NoneAssumption, SizesAssumption DEF Position, Size
  <2>3. w.ok = TRUE /\ w.state = Appended(modified, o, at, rest)
    BY <1>12 DEF Outcome
  <2>4. /\ modified \in StateType /\ modified.page = s.page /\ modified.fd = s.fd
        /\ modified.data = [s.data EXCEPT ![o] = kept]
    BY <1>6, <1>12
  <2>5. modified.data[o] = kept
    BY <1>1, <1>5, <2>4
  <2> HIDE DEF o, d, size
  <2>6. /\ w.state.page = s.page
        /\ w.state.data = [modified.data EXCEPT ![o] = grown]
        /\ w.state.fd = [g \in Fds |-> IF s.fd[g].obj = o THEN [s.fd[g] EXCEPT !.size = total]
                                                        ELSE s.fd[g]]
        /\ w.state = [data |-> w.state.data, fd |-> w.state.fd, page |-> w.state.page]
    <3>1. modified = [data |-> modified.data, fd |-> modified.fd, page |-> modified.page]
      BY <2>4 DEF StateType
    <3> DEFINE more == [modified EXCEPT !.data[o] = grown]
    <3>2. /\ more = [data |-> [modified.data EXCEPT ![o] = grown], fd |-> s.fd, page |-> s.page]
          /\ Appended(modified, o, at, rest) = Announce(more, o, total)
      BY <2>4, <2>5, <3>1 DEF Appended
    <3> DEFINE told == [g \in Fds |-> IF s.fd[g].obj = o THEN [s.fd[g] EXCEPT !.size = total]
                                                     ELSE s.fd[g]]
    <3>3. more.fd = s.fd
      BY <3>2
    <3> HIDE DEF more, grown, total
    <3>4. w.state = [more EXCEPT !.fd = told]
      BY <2>3, <3>2, <3>3 DEF Announce
    <3> HIDE DEF told
    <3>5. w.state = [data |-> [modified.data EXCEPT ![o] = grown], fd |-> told, page |-> s.page]
      BY <3>2, <3>4
    <3> QED
      BY <3>5 DEF told
  <2>7. \A r \in Objs : w.state.data[r] = IF r = o THEN grown ELSE s.data[r]
    BY <1>5, <2>4, <2>6
  <2>8. \A g \in Fds : /\ w.state.fd[g].obj = s.fd[g].obj
                       /\ w.state.fd[g].size = IF s.fd[g].obj = o THEN total ELSE s.fd[g].size
                       /\ w.state.fd[g].flags = s.fd[g].flags
                       /\ w.state.fd[g].offset = s.fd[g].offset
                       /\ w.state.fd[g].page = s.fd[g].page
    BY <1>5, <2>6 DEF FdType
  <2>9. w.state.fd \in [Fds -> FdType]
    <3> HIDE DEF total
    <3> QED
      BY <1>5, <2>2, <2>6, SizeSet
  <2>10. w.state.data \in [Objs -> Content]
    <3>1. modified.data \in [Objs -> Content]
      BY <2>4 DEF StateType
    <3> HIDE DEF grown
    <3> QED
      BY <2>1, <2>6, <3>1
  <2>11. w.state \in StateType
    BY <1>5, <2>6, <2>9, <2>10 DEF StateType
  <2>12. \A g \in Fds : s.fd[g].obj # None => s.fd[g].obj \in Objs
    BY <1>5 DEF FdType
  <2>13. SizesRight(w.state)
    <3>1. Length(total) = Len(grown)
      BY <2>1, <2>2 DEF Length
    <3> HIDE DEF total, grown
    <3>2. ASSUME NEW g \in Fds, w.state.fd[g].obj # None
          PROVE  \/ w.state.data[w.state.fd[g].obj] = <<>> /\ MayFill
                 \/ Agrees(w.state, g)
      <4>1. CASE s.fd[g].obj = o
        BY <1>1, <2>7, <2>8, <3>1, <4>1 DEF Agrees
      <4>2. CASE s.fd[g].obj # o
        <5>1. /\ w.state.fd[g].obj = s.fd[g].obj /\ w.state.fd[g].size = s.fd[g].size
              /\ w.state.data[s.fd[g].obj] = s.data[s.fd[g].obj]
          BY <2>7, <2>8, <2>12, <3>2, <4>2
        <5> QED
          BY <3>2, <5>1 DEF SizesRight, Agrees
      <4> QED
        BY <4>1, <4>2
    <3> QED
      BY <3>2 DEF SizesRight
  <2>14. SameUse(s, w.state)
    BY <2>2, <2>6, <2>8 DEF SameUse
  <2>15. Len(grown) >= Len(d)
    BY <1>3, <1>12
  <2>16. \A r \in Objs : Len(w.state.data[r]) >= Len(s.data[r])
    <3>1. Len(grown) >= Len(s.data[o])
      BY <2>15 DEF d
    <3> HIDE DEF grown
    <3>2. ASSUME NEW r \in Objs PROVE Len(w.state.data[r]) >= Len(s.data[r])
      <4>1. Len(s.data[r]) >= Len(s.data[r])
        BY <1>5
      <4> QED
        BY <2>7, <3>1, <4>1
    <3> QED
      BY <3>2
  <2>17. ~MayFill /\ offset <= Len(d) => Len(w.state.data[o]) >= offset + Len(bytes)
    <3>1. w.state.data[o] = grown /\ Len(d) \in Nat
      BY <1>1, <2>7
    <3>2. offset <= Len(d) => total >= offset + Len(bytes)
      BY <2>1, <3>1
    <3> HIDE DEF total, grown
    <3> QED
      BY <2>1, <3>1, <3>2
  <2> QED
    BY <2>3, <2>11, <2>13, <2>14, <2>16, <2>17 DEF d
<1> QED
  BY <1>4, <1>7, <1>9, <1>10, <1>11, <1>12 DEF HydroOutcome

LEMMA Chain == \A a, b, c \in Int : a <= b /\ b <= c => a <= c
OBVIOUS

(* spiffs_hydro_write keeps the invariant, and the flash with room takes   *)
(* everything.                                                             *)
LEMMA HydroGood ==
  ASSUME NEW s, Good(s), NEW f \in Fds, s.fd[f].obj # None,
         NEW offset \in Nat, NEW bytes \in Seq(Bytes), offset + Len(bytes) <= MaxSize,
         ~MayFill => offset <= Len(s.data[s.fd[f].obj]),
         NEW w \in HydroWrite(s, f, offset, bytes)
  PROVE  /\ Good(w.state) /\ w.ok \in BOOLEAN /\ SameUse(s, w.state)
         /\ ~MayFill => /\ w.ok
                        /\ Len(w.state.data[s.fd[f].obj]) >= offset + Len(bytes)
<1> DEFINE t == w.state
<1>1. s \in StateType /\ SizesRight(s) /\ PagesFit(s) /\ OnePage(s) /\ Pointed(s)
      /\ PointsOwn(s) /\ Reach(s)
  BY DEF Good
<1>2. /\ w.ok \in BOOLEAN /\ t \in StateType /\ SizesRight(t) /\ SameUse(s, t)
      /\ \A r \in Objs : Len(t.data[r]) >= Len(s.data[r])
      /\ ~MayFill => w.ok /\ Len(t.data[s.fd[f].obj]) >= offset + Len(bytes)
  BY <1>1, HydroShape
<1> HIDE DEF t
<1>3. /\ t.page = s.page
      /\ \A g \in Fds : /\ t.fd[g].obj = s.fd[g].obj /\ t.fd[g].offset = s.fd[g].offset
                        /\ t.fd[g].page = s.fd[g].page
  BY <1>2 DEF SameUse
<1>4. PagesFit(t) /\ OnePage(t) /\ Pointed(t) /\ PointsOwn(t)
  BY <1>1, <1>3 DEF PagesFit, OnePage, Pointed, PointsOwn
<1>5. Reach(t)
  <2> SUFFICES ASSUME ~MayFill
               PROVE  /\ \A g \in Fds : t.fd[g].obj # None => Reached(t, t.fd[g].obj, t.fd[g].offset)
                      /\ \A p \in Pages : t.page[p].obj # None =>
                            t.page[p].offset <= Len(t.data[t.page[p].obj])
    BY DEF Reach
  <2>1. /\ \A g \in Fds : s.fd[g].obj \in Objs \cup {None} /\ s.fd[g].offset \in Int
        /\ \A p \in Pages : s.page[p].obj \in Objs \cup {None} /\ s.page[p].offset \in Int
        /\ \A r \in Objs : Len(s.data[r]) \in Nat /\ Len(t.data[r]) \in Nat
    BY <1>1, <1>2, ContentIs, LenProperties, SizesAssumption
       DEF StateType, FdType, PageType, Position
  <2>2. ASSUME NEW r \in Objs, NEW i \in Int, Reached(s, r, i) PROVE Reached(t, r, i)
    <3>1. Len(s.data[r]) \in Nat /\ Len(t.data[r]) \in Nat /\ Len(t.data[r]) >= Len(s.data[r])
      BY <1>2, <2>1
    <3> QED
      BY <1>3, <2>2, <3>1 DEF Reached
  <2>3. ASSUME NEW g \in Fds, t.fd[g].obj # None
        PROVE  Reached(t, t.fd[g].obj, t.fd[g].offset)
    BY <1>1, <1>3, <2>1, <2>2, <2>3 DEF Reach
  <2>4. ASSUME NEW p \in Pages, t.page[p].obj # None
        PROVE  t.page[p].offset <= Len(t.data[t.page[p].obj])
    <3>1. s.page[p].obj \in Objs /\ s.page[p].offset <= Len(s.data[s.page[p].obj])
      BY <1>1, <1>3, <2>1, <2>4 DEF Reach
    <3>2. /\ Len(t.data[s.page[p].obj]) >= Len(s.data[s.page[p].obj])
          /\ Len(t.data[s.page[p].obj]) \in Nat /\ Len(s.data[s.page[p].obj]) \in Nat
          /\ s.page[p].offset \in Int /\ Len(s.data[s.page[p].obj]) \in Int
          /\ Len(t.data[s.page[p].obj]) \in Int
          /\ Len(s.data[s.page[p].obj]) <= Len(t.data[s.page[p].obj])
      BY <1>2, <2>1, <3>1
    <3>3. s.page[p].offset <= Len(t.data[s.page[p].obj])
      BY <3>1, <3>2, Chain, Zenon
    <3> QED
      BY <1>3, <3>3
  <2> QED
    BY <2>3, <2>4
<1> QED
  BY <1>2, <1>4, <1>5 DEF Good, t

-----------------------------------------------------------------------------
(* Lemmas about the write cache *)

Kin(s, t) == \A g \in Fds :
    /\ t.fd[g].obj = s.fd[g].obj /\ t.fd[g].flags = s.fd[g].flags
    /\ t.fd[g].offset = s.fd[g].offset
    /\ s.fd[g].size # Undefined => t.fd[g].size # Undefined
NoPage(s, o) == \A p \in Pages : s.page[p].obj # o

(* The page found for a descriptor is the one page of its file.            *)
LEMMA PageOfRight ==
  ASSUME NEW s, Good(s), NEW f \in Fds, s.fd[f].obj # None
  PROVE  IF PageOf(s, f) = None THEN NoPage(s, s.fd[f].obj)
         ELSE PageOf(s, f) \in Pages /\ s.page[PageOf(s, f)].obj = s.fd[f].obj
<1> DEFINE o == s.fd[f].obj
<1>1. OnePage(s) /\ PointsOwn(s) /\ s.fd[f].page \in Pages \cup {None}
  BY DEF Good, StateType, FdType
<1>2. CASE s.fd[f].page # None
  BY <1>1, <1>2 DEF PageOf, PointsOwn
<1>3. CASE s.fd[f].page = None /\ ~ \E p \in Pages : s.page[p].obj = o
  BY <1>3 DEF PageOf, NoPage
<1>4. CASE s.fd[f].page = None /\ \E p \in Pages : s.page[p].obj = o
  <2>1. PICK p \in Pages : s.page[p].obj = o
    BY <1>4
  <2> DEFINE P(q) == /\ s.page[q].obj = o
                     /\ \A r \in Pages : s.page[r].obj = o => q <= r
  <2>2. P(p)
    <3>1. \A r \in Pages : s.page[r].obj = o => r = p
      BY <1>1, <2>1 DEF OnePage
    <3>2. p <= p
      BY PagesAssumption
    <3> QED
      BY <2>1, <3>1, <3>2
  <2>3. (CHOOSE q \in Pages : P(q)) \in Pages /\ P(CHOOSE q \in Pages : P(q))
    <3> HIDE DEF P
    <3> QED
      BY <2>2
  <2>4. PageOf(s, f) = CHOOSE q \in Pages : P(q)
    BY <1>4 DEF PageOf
  <2>5. PageOf(s, f) \in Pages /\ s.page[PageOf(s, f)].obj = o
    BY <2>3, <2>4
  <2> QED
    BY <2>5, NoneAssumption
<1> QED
  BY <1>2, <1>3, <1>4

(* Released, the page is no longer anybody's.                              *)
LEMMA ReleaseRight ==
  ASSUME NEW s, Good(s), NEW p \in Pages, s.page[p].obj # None,
         ~MayFill => s.page[p].offset + Len(s.page[p].bytes) <= Len(s.data[s.page[p].obj])
  PROVE  LET t == Release(s, p)
         IN  /\ Good(t) /\ Kin(s, t) /\ NoPage(t, s.page[p].obj)
             /\ t.data = s.data
<1> DEFINE t == Release(s, p)
           o == s.page[p].obj
<1>1. s \in StateType /\ SizesRight(s) /\ PagesFit(s) /\ OnePage(s) /\ Pointed(s)
      /\ PointsOwn(s) /\ Reach(s)
  BY DEF Good
<1>2. /\ s.data \in [Objs -> Content] /\ s.fd \in [Fds -> FdType] /\ s.page \in [Pages -> PageType]
      /\ s = [data |-> s.data, fd |-> s.fd, page |-> s.page]
  BY <1>1 DEF StateType
<1> DEFINE fds == [g \in Fds |-> IF s.fd[g].obj # None /\ s.fd[g].page = p
                                   THEN [s.fd[g] EXCEPT !.page = None] ELSE s.fd[g]]
<1>3. t = [data |-> s.data, fd |-> fds, page |-> [s.page EXCEPT ![p] = FreePage]]
  <2> DEFINE u == [s EXCEPT !.page[p] = FreePage]
  <2>1. u = [data |-> s.data, fd |-> s.fd, page |-> [s.page EXCEPT ![p] = FreePage]]
    BY <1>2
  <2> HIDE DEF u, fds
  <2>2. t = [u EXCEPT !.fd = fds]
    BY DEF Release, u, fds
  <2> QED
    BY <2>1, <2>2
<1> HIDE DEF t
<1>4. \A g \in Fds : /\ t.fd[g].obj = s.fd[g].obj /\ t.fd[g].flags = s.fd[g].flags
                     /\ t.fd[g].offset = s.fd[g].offset /\ t.fd[g].size = s.fd[g].size
                     /\ t.fd[g].page = IF s.fd[g].page = p THEN None ELSE s.fd[g].page
                     /\ t.fd[g] \in FdType
  <2> SUFFICES ASSUME NEW g \in Fds
               PROVE  /\ t.fd[g].obj = s.fd[g].obj /\ t.fd[g].flags = s.fd[g].flags
                      /\ t.fd[g].offset = s.fd[g].offset /\ t.fd[g].size = s.fd[g].size
                      /\ t.fd[g].page = IF s.fd[g].page = p THEN None ELSE s.fd[g].page
                      /\ t.fd[g] \in FdType
    OBVIOUS
  <2>1. s.fd[g] \in FdType /\ (s.fd[g].page = p => s.fd[g].obj # None)
    BY <1>1, <1>2, NoneAssumption DEF PointsOwn
  <2>2. t.fd[g] = IF s.fd[g].obj # None /\ s.fd[g].page = p
                  THEN [s.fd[g] EXCEPT !.page = None] ELSE s.fd[g]
    BY <1>3
  <2> QED
    BY <2>1, <2>2 DEF FdType
<1>5. /\ t.data = s.data /\ t.page \in [Pages -> PageType]
      /\ \A q \in Pages : t.page[q] = IF q = p THEN FreePage ELSE s.page[q]
  <2>1. FreePage \in PageType
    <3>1. <<>> \in Content
      BY ContentIs, EmptySeq, SizesAssumption
    <3> QED
      BY <3>1, SizesAssumption DEF FreePage, PageType, Position
  <2> QED
    BY <1>2, <1>3, <2>1
<1>6. t \in StateType
  <2>1. t.fd \in [Fds -> FdType]
    BY <1>3, <1>4
  <2> QED
    BY <1>2, <1>3, <1>5, <2>1 DEF StateType
<1>7. SizesRight(t)
  BY <1>1, <1>4, <1>5 DEF SizesRight, Agrees
<1>8. PagesFit(t)
  BY <1>1, <1>5, EmptySeq, SizesAssumption DEF PagesFit, FreePage
<1>9. OnePage(t) /\ NoPage(t, o)
  BY <1>1, <1>5 DEF OnePage, NoPage, FreePage
<1>10. Pointed(t)
  BY <1>1, <1>4, <1>5 DEF Pointed, FreePage
<1>11. PointsOwn(t)
  <2>1. \A g \in Fds : s.fd[g].page \in Pages \cup {None}
    BY <1>2 DEF FdType
  <2> QED
    BY <1>1, <1>4, <1>5, <2>1 DEF PointsOwn
<1>12. Reach(t)
  <2> SUFFICES ASSUME ~MayFill
               PROVE  /\ \A g \in Fds : t.fd[g].obj # None => Reached(t, t.fd[g].obj, t.fd[g].offset)
                      /\ \A q \in Pages : t.page[q].obj # None =>
                            t.page[q].offset <= Len(t.data[t.page[q].obj])
    BY DEF Reach
  <2>1. \A q \in Pages : t.page[q].obj # None =>
            t.page[q].offset <= Len(t.data[t.page[q].obj])
    BY <1>1, <1>5 DEF Reach, FreePage
  <2>2. ASSUME NEW g \in Fds, t.fd[g].obj # None
        PROVE  Reached(t, t.fd[g].obj, t.fd[g].offset)
    <3>1. Reached(s, s.fd[g].obj, s.fd[g].offset) /\ s.fd[g].obj \in Objs
      BY <1>1, <1>2, <1>4, <2>2 DEF Reach, FdType
    <3>2. s.fd[g].offset \in Int /\ s.page[p].offset \in Int
          /\ Len(s.page[p].bytes) \in Nat /\ Len(s.data[s.fd[g].obj]) \in Nat
      BY <1>2, <3>1, ContentIs, LenProperties, SizesAssumption DEF FdType, PageType, Position
    <3>3. CASE s.fd[g].offset <= Len(s.data[s.fd[g].obj])
      BY <1>4, <1>5, <3>3 DEF Reached
    <3>4. ASSUME NEW q \in Pages, s.page[q].obj = s.fd[g].obj,
                 s.fd[g].offset <= s.page[q].offset + Len(s.page[q].bytes)
          PROVE  Reached(t, t.fd[g].obj, t.fd[g].offset)
      <4>1. CASE q = p
        <5>1. s.fd[g].offset <= Len(s.data[s.fd[g].obj])
          <6>1. s.page[p].offset + Len(s.page[p].bytes) <= Len(s.data[s.fd[g].obj])
            BY <3>4, <4>1
          <6>2. /\ s.page[p].offset + Len(s.page[p].bytes) \in Int
                /\ s.fd[g].offset \in Int /\ Len(s.data[s.fd[g].obj]) \in Int
                /\ s.fd[g].offset <= s.page[p].offset + Len(s.page[p].bytes)
            BY <3>2, <3>4, <4>1
          <6> QED
            BY <6>1, <6>2, Chain, Zenon
        <5> QED
          BY <1>4, <1>5, <5>1 DEF Reached
      <4>2. CASE q # p
        BY <1>4, <1>5, <3>4, <4>2 DEF Reached
      <4> QED
        BY <4>1, <4>2
    <3> QED
      BY <3>1, <3>3, <3>4 DEF Reached
  <2> QED
    BY <2>1, <2>2
<1>13. Kin(s, t)
  BY <1>4 DEF Kin
<1> QED
  BY <1>5, <1>6, <1>7, <1>8, <1>9, <1>10, <1>11, <1>12, <1>13 DEF Good, t

(* What a flush leaves: the invariant, the descriptors where they were and *)
(* no page of the file.                                                    *)
Flushed(s, f, w) ==
    /\ Good(w.state) /\ w.ok \in BOOLEAN /\ Kin(s, w.state)
    /\ NoPage(w.state, s.fd[f].obj)
    /\ ~MayFill => w.ok

(* Writing a page back and releasing it.                                   *)
LEMMA DumpGood ==
  ASSUME NEW s, Good(s), NEW f \in Fds, s.fd[f].obj # None,
         NEW p \in Pages, s.page[p].obj = s.fd[f].obj, NEW w \in Dump(s, f, p)
  PROVE  Flushed(s, f, w)
<1> DEFINE offset == s.page[p].offset
           bytes == s.page[p].bytes
<1>1. /\ offset \in Nat /\ bytes \in Seq(Bytes) /\ offset + Len(bytes) <= MaxSize
      /\ ~MayFill => offset <= Len(s.data[s.fd[f].obj])
  <2>1. s.page[p] \in PageType /\ PagesFit(s) /\ Reach(s)
    BY DEF Good, StateType
  <2>2. offset \in Nat /\ bytes \in Seq(Bytes)
    BY <2>1, ContentIs, SizesAssumption DEF PageType, Position
  <2>3. offset + Len(bytes) <= MaxSize
    BY <2>1 DEF PagesFit
  <2>4. ~MayFill => offset <= Len(s.data[s.fd[f].obj])
    BY <2>1 DEF Reach
  <2> QED
    BY <2>2, <2>3, <2>4
<1> HIDE DEF offset, bytes
<1>2. PICK v \in HydroWrite(s, f, offset, bytes) : w = Outcome(Release(v.state, p), v.ok)
  BY DEF Dump, offset, bytes
<1>3. /\ Good(v.state) /\ v.ok \in BOOLEAN /\ SameUse(s, v.state)
      /\ ~MayFill => /\ v.ok
                     /\ Len(v.state.data[s.fd[f].obj]) >= offset + Len(bytes)
  BY <1>1, HydroGood
<1>4. v.state.page = s.page
  BY <1>3 DEF SameUse
<1>5. ~MayFill => v.state.page[p].offset + Len(v.state.page[p].bytes)
                    <= Len(v.state.data[v.state.page[p].obj])
  <2> SUFFICES ASSUME ~MayFill PROVE s.page[p].offset + Len(s.page[p].bytes)
                                       <= Len(v.state.data[s.fd[f].obj])
    BY <1>4
  <2>1. Len(v.state.data[s.fd[f].obj]) >= offset + Len(bytes)
    BY <1>3
  <2>2. Len(v.state.data[s.fd[f].obj]) \in Nat
    <3>1. v.state.data \in [Objs -> Content] /\ s.fd[f].obj \in Objs
      BY <1>3 DEF Good, StateType, FdType
    <3> QED
      BY <3>1, ContentIs, LenProperties
  <2>3. offset + Len(bytes) \in Nat
    BY <1>1, LenProperties
  <2>4. offset + Len(bytes) <= Len(v.state.data[s.fd[f].obj])
    BY <2>1, <2>2, <2>3
  <2> QED
    BY <2>4 DEF offset, bytes
<1> DEFINE t == Release(v.state, p)
<1>6. Good(t) /\ Kin(v.state, t) /\ NoPage(t, s.fd[f].obj)
  <2> HIDE DEF t
  <2>1. v.state.page[p].obj # None /\ v.state.page[p].obj = s.fd[f].obj
    BY <1>4
  <2>2. Good(t) /\ Kin(v.state, t) /\ NoPage(t, v.state.page[p].obj)
    BY <1>3, <1>5, <2>1, ReleaseRight DEF t
  <2> QED
    BY <2>1, <2>2
<1>7. Kin(s, t)
  BY <1>3, <1>6 DEF SameUse, Kin
<1>8. w.state = t /\ w.ok = v.ok
  BY <1>2 DEF Outcome
<1> HIDE DEF t
<1> QED
  BY <1>3, <1>6, <1>7, <1>8 DEF Flushed

(* spiffs_fflush_cache.                                                    *)
LEMMA FlushGood ==
  ASSUME NEW s, Good(s), NEW f \in Fds, s.fd[f].obj # None, NEW w \in Flush(s, f)
  PROVE  Flushed(s, f, w)
<1>1. CASE PageOf(s, f) = None
  <2>1. w = Outcome(s, TRUE) /\ NoPage(s, s.fd[f].obj)
    BY <1>1, PageOfRight DEF Flush
  <2>2. w.state = s /\ w.ok = TRUE
    BY <2>1 DEF Outcome
  <2>3. Kin(s, s)
    BY DEF Kin
  <2> QED
    BY <2>1, <2>2, <2>3 DEF Flushed
<1>2. CASE PageOf(s, f) # None
  BY <1>2, PageOfRight, DumpGood DEF Flush
<1> QED
  BY <1>1, <1>2

(* A descriptor may move to any position that is reached.                  *)
Moved(s, f, x) == [s EXCEPT !.fd[f].offset = x]

LEMMA MoveGood ==
  ASSUME NEW s, Good(s), NEW f \in Fds, s.fd[f].obj # None, NEW x \in Position,
         ~MayFill => Reached(s, s.fd[f].obj, x)
  PROVE  Good(Moved(s, f, x))
<1> DEFINE t == Moved(s, f, x)
<1>1. s \in StateType /\ SizesRight(s) /\ PagesFit(s) /\ OnePage(s) /\ Pointed(s)
      /\ PointsOwn(s) /\ Reach(s)
  BY DEF Good
<1>2. /\ s.fd \in [Fds -> FdType]
      /\ s = [data |-> s.data, fd |-> s.fd, page |-> s.page]
  BY <1>1 DEF StateType
<1>3. t = [data |-> s.data, fd |-> [s.fd EXCEPT ![f].offset = x], page |-> s.page]
  BY <1>2 DEF Moved
<1> HIDE DEF t
<1>4. /\ t.data = s.data /\ t.page = s.page
      /\ \A g \in Fds : /\ t.fd[g].obj = s.fd[g].obj /\ t.fd[g].size = s.fd[g].size
                        /\ t.fd[g].page = s.fd[g].page
                        /\ t.fd[g].offset = IF g = f THEN x ELSE s.fd[g].offset
  BY <1>2, <1>3 DEF FdType
<1>5. t \in StateType
  <2>1. [s.fd[f] EXCEPT !.offset = x] \in FdType
    BY <1>2 DEF FdType
  <2>2. [s.fd EXCEPT ![f].offset = x] \in [Fds -> FdType]
    BY <1>2, <2>1
  <2> QED
    BY <1>1, <1>3, <2>2 DEF StateType
<1>6. SizesRight(t) /\ PagesFit(t) /\ OnePage(t) /\ Pointed(t) /\ PointsOwn(t)
  BY <1>1, <1>4 DEF SizesRight, Agrees, PagesFit, OnePage, Pointed, PointsOwn
<1>7. \A o, i : Reached(t, o, i) <=> Reached(s, o, i)
  BY <1>4 DEF Reached
<1>8. Reach(t)
  BY <1>1, <1>4, <1>7 DEF Reach
<1> QED
  BY <1>5, <1>6, <1>8 DEF Good, t

(* A descriptor of a file without a page stands on flash.                  *)
LEMMA StandsOnFlash ==
  ASSUME NEW s, Good(s), NEW f \in Fds, s.fd[f].obj # None, NoPage(s, s.fd[f].obj), ~MayFill
  PROVE  s.fd[f].offset <= Len(s.data[s.fd[f].obj])
BY DEF Good, Reach, Reached, NoPage

(* A write that is not cached.                                             *)
LEMMA DirectGood ==
  ASSUME NEW s, Good(s), NEW f \in Fds, s.fd[f].obj # None, NoPage(s, s.fd[f].obj),
         NEW bytes \in Seq(Bytes), s.fd[f].offset + Len(bytes) <= MaxSize,
         NEW w \in Direct(s, f, bytes)
  PROVE  Good(w.state)
<1> DEFINE o == s.fd[f].obj
           offset == s.fd[f].offset
<1>1. s.fd[f] \in FdType /\ offset \in Nat /\ Len(bytes) \in Nat /\ o \in Objs
  BY SizesAssumption, LenProperties DEF Good, StateType, FdType, Position
<1>2. PICK v \in HydroWrite(s, f, offset, bytes) :
        w = Outcome(IF v.ok THEN Advance(v.state, f, Len(bytes)) ELSE v.state, v.ok)
  BY DEF Direct
<1>3. /\ Good(v.state) /\ v.ok \in BOOLEAN /\ SameUse(s, v.state)
      /\ ~MayFill => /\ v.ok
                     /\ Len(v.state.data[o]) >= offset + Len(bytes)
  BY <1>1, StandsOnFlash, HydroGood
<1>4. v.state.fd[f].obj = o /\ v.state.fd[f].offset = offset
  BY <1>3 DEF SameUse
<1>5. CASE v.ok
  <2>1. w.state = Advance(v.state, f, Len(bytes))
    BY <1>2, <1>5 DEF Outcome
  <2>2. v.state \in StateType
    BY <1>3 DEF Good
  <2>3. Advance(v.state, f, Len(bytes)) = Moved(v.state, f, offset + Len(bytes))
    BY <1>4, <2>2 DEF Advance, Moved, StateType, FdType
  <2>4. offset + Len(bytes) \in Position
    <3> HIDE DEF offset
    <3> QED
      BY <1>1, SizesAssumption DEF Position, offset
  <2>5. ~MayFill => Reached(v.state, o, offset + Len(bytes))
    <3>1. Len(v.state.data[o]) \in Nat
      BY <1>1, <2>2, ContentIs, LenProperties DEF StateType
    <3> HIDE DEF o, offset
    <3> QED
      BY <1>1, <1>3, <3>1 DEF Reached
  <2> QED
    BY <1>3, <1>4, <2>1, <2>3, <2>4, <2>5, MoveGood
<1>6. CASE ~v.ok
  BY <1>2, <1>3, <1>6 DEF Outcome
<1> QED
  BY <1>5, <1>6

(* Bytes put into a page make it the descriptor's; the page may be new and *)
(* nobody point to it yet.                                                 *)
PointedBut(s, p) == \A q \in Pages \ {p} : s.page[q].obj # None =>
    \E g \in Fds : s.fd[g].obj = s.page[q].obj /\ s.fd[g].page = q

LEMMA StoreGood ==
  ASSUME NEW s \in StateType, SizesRight(s), PagesFit(s), OnePage(s), PointsOwn(s), Reach(s),
         NEW f \in Fds, s.fd[f].obj # None, NEW p \in Pages, s.page[p].obj = s.fd[f].obj,
         PointedBut(s, p), NEW bytes \in Seq(Bytes), s.fd[f].offset + Len(bytes) <= MaxSize,
         s.page[p].offset <= s.fd[f].offset,
         s.fd[f].offset <= s.page[p].offset + Len(s.page[p].bytes)
  PROVE  Good(Store(s, f, p, bytes))
<1> DEFINE t == Store(s, f, p, bytes)
           o == s.fd[f].obj
           there == s.fd[f].offset + Len(bytes)
           start == s.page[p].offset
           mixed == Overwrite(s.page[p].bytes, s.fd[f].offset - start, bytes)
           handle == [s.fd[f] EXCEPT !.page = p, !.offset = there]
           cached == [s.page[p] EXCEPT !.bytes = mixed]
<1>1. /\ s.data \in [Objs -> Content] /\ s.fd \in [Fds -> FdType] /\ s.page \in [Pages -> PageType]
      /\ s = [data |-> s.data, fd |-> s.fd, page |-> s.page]
      /\ s.fd[f] \in FdType /\ s.page[p] \in PageType
  BY DEF StateType
<1>2. /\ s.fd[f].offset \in Nat /\ start \in Nat /\ Len(bytes) \in Nat /\ o \in Objs
      /\ s.page[p].bytes \in Seq(Bytes) /\ Len(s.page[p].bytes) \in Nat
      /\ start + Len(s.page[p].bytes) <= MaxSize
  BY <1>1, ContentIs, LenProperties, SizesAssumption DEF FdType, PageType, Position, PagesFit
<1>3. /\ mixed \in Seq(Bytes) /\ Len(mixed) \in Nat
      /\ start + Len(mixed) <= MaxSize /\ there <= start + Len(mixed)
      /\ Len(mixed) >= Len(s.page[p].bytes) /\ mixed \in Content
  <2> DEFINE k == s.fd[f].offset - start
             old == s.page[p].bytes
  <2>1. k \in 0 .. Len(old) /\ k + start = s.fd[f].offset
    BY <1>2
  <2> HIDE DEF k, old
  <2>2. mixed \in Seq(Bytes) /\ Len(mixed) = IF k + Len(bytes) <= Len(old) THEN Len(old)
                                             ELSE k + Len(bytes)
    BY <1>2, <2>1, OverwriteRight DEF k, old
  <2> HIDE DEF mixed, start
  <2>3. /\ Len(old) \in Nat /\ Len(bytes) \in Nat /\ start \in Nat /\ k \in Nat
        /\ start + Len(old) <= MaxSize /\ there = k + start + Len(bytes) /\ there <= MaxSize
    BY <1>2, <2>1 DEF old
  <2> HIDE DEF there
  <2>4. Len(mixed) \in Nat /\ start + Len(mixed) <= MaxSize /\ there <= start + Len(mixed)
        /\ Len(mixed) >= Len(old)
    BY <2>2, <2>3, SizesAssumption
  <2>5. mixed \in Content
    <3>1. Len(mixed) <= MaxSize
      BY <2>3, <2>4, SizesAssumption
    <3> QED
      BY <2>2, <3>1, ContentIs
  <2> QED
    BY <2>2, <2>4, <2>5 DEF old
<1>4. there \in Position
  BY <1>2, SizesAssumption DEF Position
<1>5. t = [data |-> s.data, fd |-> [s.fd EXCEPT ![f] = handle], page |-> [s.page EXCEPT ![p] = cached]]
  <2> DEFINE u == [s EXCEPT !.fd[f].page = p,
                            !.page[p].bytes = Overwrite(@, s.fd[f].offset - s.page[p].offset, bytes)]
  <2>1. u = [data |-> s.data, fd |-> [s.fd EXCEPT ![f].page = p],
             page |-> [s.page EXCEPT ![p] = cached]]
    <3>1. u = [s EXCEPT !.fd[f].page = p, !.page[p].bytes = mixed]
      OBVIOUS
    <3>2. [s.page EXCEPT ![p].bytes = mixed] = [s.page EXCEPT ![p] = cached]
      BY <1>1
    <3> HIDE DEF u, mixed, cached
    <3>3. u = [data |-> s.data, fd |-> [s.fd EXCEPT ![f].page = p],
               page |-> [s.page EXCEPT ![p].bytes = mixed]]
      BY <1>1, <3>1
    <3> QED
      BY <3>2, <3>3
  <2>2. t = Advance(u, f, Len(bytes))
    BY DEF Store
  <2> HIDE DEF u, cached, t
  <2>3. /\ u.fd = [s.fd EXCEPT ![f].page = p] /\ u.fd[f] = [s.fd[f] EXCEPT !.page = p]
        /\ u.fd[f].offset = s.fd[f].offset
    BY <1>1, <2>1 DEF FdType
  <2>4. t = [data |-> s.data, fd |-> [u.fd EXCEPT ![f].offset = there],
             page |-> [s.page EXCEPT ![p] = cached]]
    BY <2>1, <2>2, <2>3 DEF Advance
  <2> HIDE DEF there
  <2>5. [u.fd EXCEPT ![f].offset = there] = [s.fd EXCEPT ![f] = handle]
    BY <1>1, <2>3 DEF FdType
  <2> QED
    BY <2>4, <2>5
<1>6. /\ handle \in FdType /\ handle.obj = o /\ handle.size = s.fd[f].size
      /\ handle.page = p /\ handle.offset = there
  <2> HIDE DEF there
  <2> QED
    BY <1>1, <1>4 DEF FdType
<1>7. /\ cached \in PageType /\ cached.obj = o /\ cached.offset = start /\ cached.bytes = mixed
  <2> HIDE DEF mixed
  <2> QED
    BY <1>1, <1>3 DEF PageType
<1> HIDE DEF t, handle, cached, mixed, there
<1>8. /\ t.data = s.data
      /\ \A g \in Fds : t.fd[g] = IF g = f THEN handle ELSE s.fd[g]
      /\ \A q \in Pages : t.page[q] = IF q = p THEN cached ELSE s.page[q]
      /\ t \in StateType
  BY <1>1, <1>5, <1>6, <1>7 DEF StateType
<1>9. /\ \A g \in Fds : t.fd[g].obj = s.fd[g].obj /\ t.fd[g].size = s.fd[g].size
      /\ \A q \in Pages : t.page[q].obj = s.page[q].obj /\ t.page[q].offset = s.page[q].offset
  BY <1>6, <1>7, <1>8
<1>10. SizesRight(t)
  BY <1>8, <1>9 DEF SizesRight, Agrees
<1>11. PagesFit(t)
  BY <1>3, <1>7, <1>8 DEF PagesFit
<1>12. OnePage(t)
  BY <1>9 DEF OnePage
<1>13. s.fd[f].page \in {p, None}
  BY <1>1 DEF PointsOwn, OnePage, FdType
<1>14. Pointed(t)
  <2>1. ASSUME NEW q \in Pages, q # p, t.page[q].obj # None
        PROVE  \E g \in Fds : t.fd[g].obj = t.page[q].obj /\ t.fd[g].page = q
    <3>1. PICK g \in Fds : s.fd[g].obj = s.page[q].obj /\ s.fd[g].page = q
      BY <1>9, <2>1 DEF PointedBut
    <3>2. g # f
      BY <1>13, <2>1, <3>1, NoneAssumption
    <3> QED
      BY <1>8, <1>9, <3>1, <3>2
  <2>2. t.fd[f].obj = t.page[p].obj /\ t.fd[f].page = p
    BY <1>6, <1>8, <1>9
  <2> QED
    BY <2>1, <2>2 DEF Pointed
<1>15. PointsOwn(t)
  <2>1. \A g \in Fds : s.fd[g].page \in Pages \cup {None}
    BY <1>1 DEF FdType
  <2> QED
    BY <1>6, <1>8, <1>9, <2>1 DEF PointsOwn
<1>16. Reach(t)
  <2> SUFFICES ASSUME ~MayFill
               PROVE  /\ \A g \in Fds : t.fd[g].obj # None => Reached(t, t.fd[g].obj, t.fd[g].offset)
                      /\ \A q \in Pages : t.page[q].obj # None =>
                            t.page[q].offset <= Len(t.data[t.page[q].obj])
    BY DEF Reach
  <2>1. \A q \in Pages : t.page[q].obj # None =>
            t.page[q].offset <= Len(t.data[t.page[q].obj])
    BY <1>8, <1>9 DEF Reach
  <2>2. Reached(t, t.fd[f].obj, t.fd[f].offset)
    BY <1>3, <1>6, <1>7, <1>8, <1>9 DEF Reached
  <2>3. ASSUME NEW g \in Fds, g # f, t.fd[g].obj # None
        PROVE  Reached(t, t.fd[g].obj, t.fd[g].offset)
    <3>1. /\ Reached(s, s.fd[g].obj, s.fd[g].offset) /\ t.fd[g] = s.fd[g]
          /\ s.fd[g].offset \in Int
      BY <1>1, <1>8, <2>3, SizesAssumption DEF Reach, FdType, Position
    <3>2. ASSUME NEW q \in Pages, s.page[q].obj = s.fd[g].obj,
                 s.fd[g].offset <= s.page[q].offset + Len(s.page[q].bytes)
          PROVE  Reached(t, t.fd[g].obj, t.fd[g].offset)
      <4>1. CASE q = p
        <5>1. s.fd[g].offset <= start + Len(s.page[p].bytes)
          BY <3>2, <4>1
        <5>2. /\ start + Len(s.page[p].bytes) <= start + Len(mixed)
              /\ start + Len(s.page[p].bytes) \in Int /\ start + Len(mixed) \in Int
          <6> HIDE DEF start
          <6> QED
            BY <1>2, <1>3
        <5>3. s.fd[g].offset <= start + Len(mixed)
          BY <3>1, <5>1, <5>2, Chain, Zenon
        <5>4. t.page[p].obj = t.fd[g].obj /\ t.page[p].offset = start /\ t.page[p].bytes = mixed
          BY <1>7, <1>8, <1>9, <3>2, <4>1
        <5> QED
          BY <3>1, <5>3, <5>4 DEF Reached
      <4>2. CASE q # p
        BY <1>8, <3>1, <3>2, <4>2 DEF Reached
      <4> QED
        BY <4>1, <4>2
    <3>3. CASE s.fd[g].offset <= Len(s.data[s.fd[g].obj])
      BY <1>8, <3>1, <3>3 DEF Reached
    <3> QED
      BY <3>1, <3>2, <3>3 DEF Reached
  <2> QED
    BY <2>1, <2>2, <2>3
<1> QED
  BY <1>8, <1>10, <1>11, <1>12, <1>14, <1>15, <1>16 DEF Good, t

(* A small write to a file without a page.                                 *)
LEMMA CacheGood ==
  ASSUME NEW s, Good(s), NEW f \in Fds, s.fd[f].obj # None, NoPage(s, s.fd[f].obj),
         NEW bytes \in Seq(Bytes), s.fd[f].offset + Len(bytes) <= MaxSize,
         NEW w \in Cache(s, f, bytes)
  PROVE  Good(w.state)
<1> DEFINE o == s.fd[f].obj
           new == [obj |-> s.fd[f].obj, offset |-> s.fd[f].offset, bytes |-> <<>>]
<1>1. PICK p \in Available(s) :
        w \in IF p = None THEN Direct(s, f, bytes)
              ELSE {Outcome(Store([s EXCEPT !.page[p] = new], f, p, bytes), TRUE)}
  BY DEF Cache
<1>2. CASE p = None
  BY <1>1, <1>2, DirectGood
<1>3. CASE p # None
  <2> DEFINE u == [s EXCEPT !.page[p] = new]
  <2>1. p \in Pages /\ s.page[p].obj = None
    BY <1>3 DEF Available, When
  <2>2. s \in StateType /\ SizesRight(s) /\ PagesFit(s) /\ OnePage(s) /\ Pointed(s)
        /\ PointsOwn(s) /\ Reach(s)
    BY DEF Good
  <2>3. /\ s.page \in [Pages -> PageType] /\ s.fd \in [Fds -> FdType] /\ o \in Objs
        /\ s.fd[f].offset \in Position
        /\ s = [data |-> s.data, fd |-> s.fd, page |-> s.page]
    BY <2>2 DEF StateType, FdType
  <2>4. new \in PageType /\ <<>> \in Content
    <3>1. <<>> \in Content
      BY ContentIs, EmptySeq, SizesAssumption
    <3> QED
      BY <2>3, <3>1 DEF PageType
  <2>5. u = [data |-> s.data, fd |-> s.fd, page |-> [s.page EXCEPT ![p] = new]]
    <3> HIDE DEF new
    <3> QED
      BY <2>3
  <2>6. new.obj = o /\ new.offset = s.fd[f].offset /\ new.bytes = <<>>
    OBVIOUS
  <2> HIDE DEF new, u
  <2>7. /\ u.data = s.data /\ u.fd = s.fd /\ u \in StateType
        /\ \A q \in Pages : u.page[q] = IF q = p THEN new ELSE s.page[q]
    BY <2>1, <2>2, <2>3, <2>4, <2>5 DEF StateType
  <2>8. SizesRight(u)
    BY <2>2, <2>7 DEF SizesRight, Agrees
  <2>9. PagesFit(u)
    <3>1. s.fd[f].offset + Len(<<>>) <= MaxSize
      BY <2>3, EmptySeq, SizesAssumption DEF Position
    <3> QED
      BY <2>2, <2>6, <2>7, <3>1 DEF PagesFit
  <2>10. OnePage(u)
    BY <2>2, <2>6, <2>7 DEF OnePage, NoPage
  <2>11. PointsOwn(u)
    <3>1. \A g \in Fds : s.fd[g].page \in Pages \cup {None}
      BY <2>3 DEF FdType
    <3> QED
      BY <2>1, <2>2, <2>7, <3>1 DEF PointsOwn
  <2>12. PointedBut(u, p)
    BY <2>2, <2>7 DEF Pointed, PointedBut
  <2>13. Reach(u)
    <3> SUFFICES ASSUME ~MayFill
                 PROVE  /\ \A g \in Fds : u.fd[g].obj # None => Reached(u, u.fd[g].obj, u.fd[g].offset)
                        /\ \A q \in Pages : u.page[q].obj # None =>
                              u.page[q].offset <= Len(u.data[u.page[q].obj])
      BY DEF Reach
    <3>1. \A g \in Fds : u.fd[g].obj # None => Reached(u, u.fd[g].obj, u.fd[g].offset)
      <4>1. \A r, i : r # None /\ Reached(s, r, i) => Reached(u, r, i)
        BY <2>1, <2>7 DEF Reached
      <4> QED
        BY <2>2, <2>7, <4>1 DEF Reach
    <3>2. \A q \in Pages : u.page[q].obj # None =>
            u.page[q].offset <= Len(u.data[u.page[q].obj])
      BY <2>2, <2>6, <2>7, StandsOnFlash DEF Reach
    <3> QED
      BY <3>1, <3>2
  <2>14. u.page[p].offset <= u.fd[f].offset
    BY <2>1, <2>3, <2>6, <2>7, SizesAssumption DEF Position
  <2>15. u.fd[f].offset <= u.page[p].offset + Len(u.page[p].bytes)
    <3>1. u.fd[f].offset = s.fd[f].offset /\ u.page[p].offset = s.fd[f].offset
          /\ Len(u.page[p].bytes) = 0 /\ s.fd[f].offset \in Int
      BY <2>1, <2>3, <2>6, <2>7, EmptySeq, SizesAssumption DEF Position
    <3> QED
      BY <3>1
  <2>16. Good(Store(u, f, p, bytes))
    BY <2>1, <2>6, <2>7, <2>8, <2>9, <2>10, <2>11, <2>12, <2>13, <2>14, <2>15, StoreGood
  <2>17. w.state = Store(u, f, p, bytes)
    BY <1>1, <1>3 DEF Outcome, u
  <2> QED
    BY <2>16, <2>17
<1> QED
  BY <1>2, <1>3

(* SPIFFS_write, flush and all.                                            *)
LEMMA WriteGood ==
  ASSUME NEW s, Good(s), NEW f \in Fds, s.fd[f].obj # None,
         NEW bytes \in Seq(Bytes), s.fd[f].offset + Len(bytes) <= MaxSize,
         NEW w \in WriteOutcomes(s, f, bytes)
  PROVE  Good(w.state)
<1> DEFINE p == PageOf(s, f)
           small == Len(bytes) < LogPage
<1>1. CASE small /\ p # None /\ Fits(s, f, p, Len(bytes))
  <2>1. w.state = Store(s, f, p, bytes)
    BY <1>1 DEF WriteOutcomes, Outcome
  <2>2. p \in Pages /\ s.page[p].obj = s.fd[f].obj
    BY <1>1, PageOfRight
  <2> HIDE DEF p
  <2>3. /\ s \in StateType /\ SizesRight(s) /\ PagesFit(s) /\ OnePage(s) /\ PointedBut(s, p)
        /\ PointsOwn(s) /\ Reach(s)
    BY DEF Good, Pointed, PointedBut
  <2>4. /\ s.page[p].offset <= s.fd[f].offset
        /\ s.fd[f].offset <= s.page[p].offset + Len(s.page[p].bytes)
    <3>1. s.page[p].offset \in Int /\ s.fd[f].offset \in Int
      BY <2>2, <2>3, SizesAssumption DEF StateType, FdType, PageType, Position
    <3> QED
      BY <1>1, <3>1 DEF Fits
  <2> QED
    BY <2>1, <2>2, <2>3, <2>4, StoreGood
<1>2. CASE ~(small /\ p # None /\ Fits(s, f, p, Len(bytes)))
  <2>1. PICK v \in Flush(s, f) : w \in IF ~v.ok THEN {v}
                                       ELSE IF small THEN Cache(v.state, f, bytes)
                                       ELSE Direct(v.state, f, bytes)
    <3> HIDE DEF p
    <3> QED
      BY <1>2 DEF WriteOutcomes, p
  <2>2. /\ Good(v.state) /\ v.ok \in BOOLEAN /\ v.state.fd[f].obj = s.fd[f].obj
        /\ NoPage(v.state, v.state.fd[f].obj) /\ v.state.fd[f].offset = s.fd[f].offset
    BY FlushGood DEF Flushed, Kin
  <2> QED
    BY <2>1, <2>2, CacheGood, DirectGood
<1> QED
  BY <1>1, <1>2

-----------------------------------------------------------------------------
(* Lemmas about opening and closing *)

LEMMA EmptyContent == <<>> \in Content /\ Len(<<>>) = 0
BY ContentIs, EmptySeq, SizesAssumption

(* A descriptor is replaced and, if it is the file's only one and the file *)
(* has no page, the bytes with it.                                         *)
LEMMA ReplaceGood ==
  ASSUME NEW s, Good(s), NEW f \in Fds, NEW o \in Objs, NEW d \in Content, NEW handle \in FdType,
         handle.obj = o, handle.page = None, handle.offset = 0, Length(handle.size) = Len(d),
         s.fd[f].obj # None => NoPage(s, s.fd[f].obj),
         d = s.data[o] \/ (NoPage(s, o) /\ \A g \in Fds : s.fd[g].obj = o => g = f),
         NEW t, t = [data |-> [s.data EXCEPT ![o] = d], fd |-> [s.fd EXCEPT ![f] = handle],
                     page |-> s.page]
  PROVE  Good(t)
<1>1. s \in StateType /\ SizesRight(s) /\ PagesFit(s) /\ OnePage(s) /\ Pointed(s)
      /\ PointsOwn(s) /\ Reach(s)
  BY DEF Good
<1>2. s.data \in [Objs -> Content] /\ s.fd \in [Fds -> FdType] /\ s.page \in [Pages -> PageType]
  BY <1>1 DEF StateType
<1>3. /\ \A g \in Fds : t.fd[g] = IF g = f THEN handle ELSE s.fd[g]
      /\ \A r \in Objs : t.data[r] = IF r = o THEN d ELSE s.data[r]
      /\ t.page = s.page /\ t \in StateType
  BY <1>2 DEF StateType
<1>4. /\ \A g \in Fds : s.fd[g].obj \in Objs \cup {None} /\ s.fd[g].page \in Pages \cup {None}
      /\ \A p \in Pages : s.page[p].obj \in Objs \cup {None}
      /\ o # None /\ Len(d) \in Nat
  BY <1>2, NoneAssumption, ContentIs, LenProperties DEF FdType, PageType
<1>5. \A g \in Fds : g # f /\ s.fd[g].obj # None => t.data[s.fd[g].obj] = s.data[s.fd[g].obj]
  BY <1>3, <1>4
<1>6. \A p \in Pages : s.page[p].obj # None => t.data[s.page[p].obj] = s.data[s.page[p].obj]
  BY <1>3, <1>4 DEF NoPage
<1>7. SizesRight(t)
  BY <1>1, <1>3, <1>5 DEF SizesRight, Agrees
<1>8. PagesFit(t) /\ OnePage(t)
  BY <1>1, <1>3 DEF PagesFit, OnePage
<1>9. Pointed(t)
  BY <1>1, <1>3 DEF Pointed, NoPage
<1>10. PointsOwn(t)
  BY <1>1, <1>3, <1>4 DEF PointsOwn
<1>11. Reach(t)
  <2> SUFFICES ASSUME ~MayFill
               PROVE  /\ \A g \in Fds : t.fd[g].obj # None => Reached(t, t.fd[g].obj, t.fd[g].offset)
                      /\ \A p \in Pages : t.page[p].obj # None =>
                            t.page[p].offset <= Len(t.data[t.page[p].obj])
    BY DEF Reach
  <2>1. \A p \in Pages : t.page[p].obj # None => t.page[p].offset <= Len(t.data[t.page[p].obj])
    BY <1>1, <1>3, <1>6 DEF Reach
  <2>2. \A g \in Fds : g # f /\ t.fd[g].obj # None => Reached(t, t.fd[g].obj, t.fd[g].offset)
    BY <1>1, <1>3, <1>5 DEF Reach, Reached
  <2>3. Reached(t, t.fd[f].obj, t.fd[f].offset)
    <3>1. 0 <= Len(d)
      BY <1>4
    <3> QED
      BY <1>3, <3>1 DEF Reached
  <2> QED
    BY <2>1, <2>2, <2>3
<1> QED
  BY <1>3, <1>7, <1>8, <1>9, <1>10, <1>11 DEF Good

(* A closed slot is opened on an object.                                   *)
LEMMA OpenedGood ==
  ASSUME NEW s, Good(s), NEW f \in Fds, s.fd[f].obj = None, NEW o \in Objs, NEW flags \in Modes
  PROVE  Good(Opened(s, f, o, flags))
<1> DEFINE size == IF s.data[o] = <<>> THEN Undefined ELSE Len(s.data[o])
           handle == [obj |-> o, flags |-> flags, offset |-> 0, page |-> s.fd[f].page, size |-> size]
<1>1. s \in StateType /\ PointsOwn(s)
  BY DEF Good
<1>2. /\ s.data \in [Objs -> Content] /\ s.fd \in [Fds -> FdType] /\ s.data[o] \in Content
      /\ s = [data |-> s.data, fd |-> s.fd, page |-> s.page] /\ s.fd[f].page = None
  BY <1>1 DEF StateType, PointsOwn
<1>3. Len(s.data[o]) \in Nat /\ Len(s.data[o]) <= MaxSize
  BY <1>2, ContentIs, LenProperties
<1>4. size \in Size /\ Length(size) = Len(s.data[o])
  <2>1. CASE s.data[o] = <<>>
    BY <2>1, EmptyContent DEF Size, Length
  <2>2. CASE s.data[o] # <<>>
    <3>1. size = Len(s.data[o]) /\ size \in Nat /\ size <= MaxSize
      BY <1>3, <2>2
    <3> HIDE DEF size
    <3>2. size \in Position /\ size # Undefined
      BY <3>1, SizesAssumption, NoneAssumption DEF Position
    <3> QED
      BY <3>1, <3>2 DEF Size, Length
  <2> QED
    BY <2>1, <2>2
<1> HIDE DEF size
<1>5. /\ handle \in FdType /\ handle.obj = o /\ handle.page = None /\ handle.offset = 0
      /\ handle.size = size
  BY <1>2, <1>4, SizesAssumption, NoneAssumption DEF FdType, Position
<1>6. Opened(s, f, o, flags) = [data |-> [s.data EXCEPT ![o] = s.data[o]],
                                fd |-> [s.fd EXCEPT ![f] = handle], page |-> s.page]
  <2>1. [s.data EXCEPT ![o] = s.data[o]] = s.data
    BY <1>2
  <2>2. Opened(s, f, o, flags) = [s EXCEPT !.fd[f] = handle]
    BY DEF Opened, size
  <2> HIDE DEF handle
  <2> QED
    BY <1>2, <2>1, <2>2
<1> HIDE DEF handle
<1> DEFINE d == s.data[o]
           t == Opened(s, f, o, flags)
<1>7. /\ d \in Content /\ Length(handle.size) = Len(d) /\ d = s.data[o]
      /\ t = [data |-> [s.data EXCEPT ![o] = d], fd |-> [s.fd EXCEPT ![f] = handle],
              page |-> s.page]
  BY <1>2, <1>4, <1>5, <1>6
<1> HIDE DEF d, t
<1> QED
  <2>1. Good(t)
    BY <1>5, <1>7, ReplaceGood
  <2> QED
    BY <2>1 DEF t

(* The only descriptor of a file without a page truncates it.              *)
LEMMA EmptiedGood ==
  ASSUME NEW s, Good(s), NEW f \in Fds, s.fd[f].obj # None, NoPage(s, s.fd[f].obj),
         \A g \in Fds : s.fd[g].obj = s.fd[f].obj => g = f, s.fd[f].offset = 0
  PROVE  Good(Emptied(s, f))
<1> DEFINE o == s.fd[f].obj
           handle == [s.fd[f] EXCEPT !.size = 0]
<1>1. s \in StateType /\ PointsOwn(s)
  BY DEF Good
<1>2. /\ s.data \in [Objs -> Content] /\ s.fd \in [Fds -> FdType] /\ s.fd[f] \in FdType
      /\ s = [data |-> s.data, fd |-> s.fd, page |-> s.page] /\ o \in Objs
  BY <1>1 DEF StateType, FdType
<1>3. s.fd[f].page = None
  BY <1>1, <1>2 DEF PointsOwn, NoPage, FdType
<1>4. 0 \in Size /\ Length(0) = 0
  BY SizesAssumption, NoneAssumption DEF Size, Position, Length
<1>5. /\ handle \in FdType /\ handle.obj = o /\ handle.page = None /\ handle.offset = 0
      /\ handle.size = 0
  BY <1>2, <1>3, <1>4, SizeSet
<1>6. CASE s.fd[f].size = Undefined
  BY <1>6 DEF Emptied
<1>7. CASE s.fd[f].size # Undefined
  <2> DEFINE bare == [s EXCEPT !.data[o] = <<>>]
             told == [g \in Fds |-> IF s.fd[g].obj = o THEN [s.fd[g] EXCEPT !.size = Undefined]
                                                       ELSE s.fd[g]]
  <2>1. bare = [data |-> [s.data EXCEPT ![o] = <<>>], fd |-> s.fd, page |-> s.page]
    BY <1>2
  <2>2. Emptied(s, f) = [Announce(bare, o, Undefined) EXCEPT !.fd[f].size = 0]
    BY <1>7 DEF Emptied
  <2> HIDE DEF bare, o
  <2>3. Announce(bare, o, Undefined)
          = [data |-> [s.data EXCEPT ![o] = <<>>], fd |-> told, page |-> s.page]
    BY <2>1 DEF Announce
  <2>4. told \in [Fds -> [obj : Objs \cup {None}, flags : Modes \cup {{}}, size : Size,
                          offset : Position, page : Pages \cup {None}]]
    BY <1>2 DEF FdType, Size
  <2>5. \A g \in Fds : told[g] = IF g = f THEN [s.fd[f] EXCEPT !.size = Undefined] ELSE s.fd[g]
    BY DEF o
  <2>6. [told EXCEPT ![f].size = 0] = [s.fd EXCEPT ![f] = handle]
    BY <1>2, <2>5 DEF FdType
  <2> HIDE DEF told, handle
  <2>7. Emptied(s, f) = [data |-> [s.data EXCEPT ![o] = <<>>], fd |-> [s.fd EXCEPT ![f] = handle],
                         page |-> s.page]
    <3> DEFINE a == Announce(bare, o, Undefined)
               fds == [told EXCEPT ![f].size = 0]
    <3>1. a.data = [s.data EXCEPT ![o] = <<>>] /\ a.fd = told /\ a.page = s.page
      BY <2>3
    <3>2. Emptied(s, f) = [a EXCEPT !.fd = [a.fd EXCEPT ![f].size = 0]]
      BY <2>2
    <3>3. Emptied(s, f) = [a EXCEPT !.fd = fds]
      BY <3>1, <3>2
    <3>4. a = [data |-> a.data, fd |-> a.fd, page |-> a.page]
      BY <2>3
    <3> HIDE DEF a, fds
    <3>5. Emptied(s, f) = [data |-> a.data, fd |-> fds, page |-> a.page]
      BY <3>3, <3>4
    <3> QED
      BY <2>6, <3>1, <3>5 DEF fds
  <2>8. NoPage(s, o) /\ \A g \in Fds : s.fd[g].obj = o => g = f
    BY DEF o
  <2>9. s.fd[f].obj # None => NoPage(s, s.fd[f].obj)
    OBVIOUS
  <2> QED
    BY <1>2, <1>4, <1>5, <2>7, <2>8, <2>9, EmptyContent, ReplaceGood
<1> QED
  BY <1>6, <1>7

(* A descriptor is closed: the file has no page any more, or neither a     *)
(* page nor bytes nor another descriptor.                                  *)
LEMMA GoneGood ==
  ASSUME NEW s, Good(s), NEW f \in Fds, NEW o \in Objs, s.fd[f].obj = o, NEW t \in StateType,
         \A q \in Pages : t.page[q] = IF s.page[q].obj = o THEN FreePage ELSE s.page[q],
         \A g \in Fds : t.fd[g] = IF g = f THEN ClosedFd ELSE s.fd[g],
         \A r \in Objs \ {o} : t.data[r] = s.data[r],
         \/ \A g \in Fds : s.fd[g].obj = o => g = f
         \/ NoPage(s, o) /\ t.data[o] = s.data[o]
  PROVE  Good(t)
<1>1. s \in StateType /\ SizesRight(s) /\ PagesFit(s) /\ OnePage(s) /\ Pointed(s)
      /\ PointsOwn(s) /\ Reach(s)
  BY DEF Good
<1>2. /\ \A g \in Fds : s.fd[g].obj \in Objs \cup {None} /\ s.fd[g].page \in Pages \cup {None}
      /\ \A q \in Pages : s.page[q].obj \in Objs \cup {None}
      /\ o # None /\ ClosedFd.obj = None /\ ClosedFd.page = None
      /\ FreePage.obj = None /\ FreePage.offset = 0 /\ FreePage.bytes = <<>>
  BY <1>1, NoneAssumption DEF StateType, FdType, PageType, ClosedFd, FreePage
<1>3. \A g \in Fds : g # f /\ s.fd[g].obj # None => t.data[s.fd[g].obj] = s.data[s.fd[g].obj]
  BY <1>2
<1>4. \A q \in Pages : t.page[q].obj # None =>
         /\ t.page[q] = s.page[q] /\ s.page[q].obj # o
         /\ t.data[t.page[q].obj] = s.data[s.page[q].obj]
  BY <1>2
<1>5. SizesRight(t)
  <2>1. ASSUME NEW g \in Fds, t.fd[g].obj # None
        PROVE  (t.data[t.fd[g].obj] = <<>> /\ MayFill) \/ Agrees(t, g)
    <3>1. g # f /\ t.fd[g] = s.fd[g] /\ s.fd[g].obj # None
      BY <1>2, <2>1
    <3>2. t.data[s.fd[g].obj] = s.data[s.fd[g].obj]
      BY <1>3, <3>1
    <3> QED
      BY <1>1, <3>1, <3>2 DEF SizesRight, Agrees
  <2> QED
    BY <2>1 DEF SizesRight
<1>6. PagesFit(t)
  BY <1>1, <1>2, EmptyContent, SizesAssumption DEF PagesFit
<1>7. OnePage(t)
  BY <1>1, <1>4 DEF OnePage
<1>8. Pointed(t)
  BY <1>1, <1>4 DEF Pointed
<1>9. PointsOwn(t)
  BY <1>1, <1>2 DEF PointsOwn, NoPage
<1>10. Reach(t)
  <2> SUFFICES ASSUME ~MayFill
               PROVE  /\ \A g \in Fds : t.fd[g].obj # None => Reached(t, t.fd[g].obj, t.fd[g].offset)
                      /\ \A p \in Pages : t.page[p].obj # None =>
                            t.page[p].offset <= Len(t.data[t.page[p].obj])
    BY DEF Reach
  <2>1. ASSUME NEW g \in Fds, t.fd[g].obj # None
        PROVE  Reached(t, t.fd[g].obj, t.fd[g].offset)
    <3>1. g # f /\ t.fd[g] = s.fd[g] /\ Reached(s, s.fd[g].obj, s.fd[g].offset)
      BY <1>1, <1>2, <2>1 DEF Reach
    <3>2. t.data[s.fd[g].obj] = s.data[s.fd[g].obj]
      BY <1>3, <2>1, <3>1
    <3>3. \A q \in Pages : s.page[q].obj = s.fd[g].obj => t.page[q] = s.page[q]
      BY <3>1 DEF NoPage
    <3> QED
      BY <3>1, <3>2, <3>3 DEF Reached
  <2>2. \A p \in Pages : t.page[p].obj # None => t.page[p].offset <= Len(t.data[t.page[p].obj])
    BY <1>1, <1>4 DEF Reach
  <2> QED
    BY <2>1, <2>2
<1> QED
  BY <1>5, <1>6, <1>7, <1>8, <1>9, <1>10 DEF Good

LEMMA ClosedFdTyped == ClosedFd \in FdType /\ FreePage \in PageType
BY EmptyContent, SizesAssumption DEF ClosedFd, FreePage, FdType, PageType, Size, Position

(* SPIFFS_close after a flush. *)
LEMMA CloseGood ==
  ASSUME NEW s, Good(s), NEW f \in Fds, s.fd[f].obj # None, NoPage(s, s.fd[f].obj)
  PROVE  Good([s EXCEPT !.fd[f] = Closed(@)])
<1> DEFINE o == s.fd[f].obj
           t == [s EXCEPT !.fd[f] = Closed(@)]
<1>1. s \in StateType /\ PointsOwn(s)
  BY DEF Good
<1>2. /\ s.data \in [Objs -> Content] /\ s.fd \in [Fds -> FdType] /\ s.fd[f] \in FdType
      /\ s = [data |-> s.data, fd |-> s.fd, page |-> s.page] /\ o \in Objs
  BY <1>1 DEF StateType, FdType
<1>3. s.fd[f].page = None
  BY <1>1, <1>2 DEF PointsOwn, NoPage, FdType
<1>4. Closed(s.fd[f]) = ClosedFd
  BY <1>3 DEF Closed, ClosedFd
<1>5. t = [data |-> s.data, fd |-> [s.fd EXCEPT ![f] = ClosedFd], page |-> s.page]
  BY <1>2, <1>4
<1> HIDE DEF t
<1>6. /\ t \in StateType /\ t.data = s.data /\ t.page = s.page
      /\ \A g \in Fds : t.fd[g] = IF g = f THEN ClosedFd ELSE s.fd[g]
  BY <1>1, <1>2, <1>5, ClosedFdTyped DEF StateType
<1>7. \A q \in Pages : t.page[q] = IF s.page[q].obj = o THEN FreePage ELSE s.page[q]
  BY <1>6 DEF NoPage
<1>8. NoPage(s, o) /\ t.data[o] = s.data[o] /\ \A r \in Objs \ {o} : t.data[r] = s.data[r]
  BY <1>6
<1> HIDE DEF o
<1>9. s.fd[f].obj = o
  BY DEF o
<1> QED
  <2>1. Good(t)
    BY <1>2, <1>6, <1>7, <1>8, <1>9, GoneGood
  <2> QED
    BY <2>1 DEF t

(* SPIFFS_fremove of the file's only descriptor. *)
Removed(r, o) ==
    [r EXCEPT !.data[o] = <<>>,
              !.fd = [g \in Fds |-> IF r.fd[g].obj = o THEN Closed(r.fd[g]) ELSE r.fd[g]]]

LEMMA RemoveGood ==
  ASSUME NEW s, Good(s), NEW f \in Fds, s.fd[f].obj # None,
         \A g \in Fds : s.fd[g].obj = s.fd[f].obj => g = f,
         NEW r, r = IF s.fd[f].page = None THEN s ELSE Release(s, s.fd[f].page)
  PROVE  Good(Removed(r, s.fd[f].obj))
<1> DEFINE o == s.fd[f].obj
           p == s.fd[f].page
           t == Removed(r, o)
<1>1. s \in StateType /\ OnePage(s) /\ Pointed(s) /\ PointsOwn(s)
  BY DEF Good
<1>2. /\ s.data \in [Objs -> Content] /\ s.fd \in [Fds -> FdType] /\ s.page \in [Pages -> PageType]
      /\ s = [data |-> s.data, fd |-> s.fd, page |-> s.page] /\ o \in Objs
      /\ p \in Pages \cup {None}
  BY <1>1 DEF StateType, FdType
<1>3. /\ \A q \in Pages : s.page[q].obj = o <=> q = p /\ p # None
      /\ \A g \in Fds : s.fd[g].page = p /\ p # None => g = f
  <2>1. \A q \in Pages : s.page[q].obj = o => q = p /\ p # None
    BY <1>1, NoneAssumption DEF Pointed
  <2>2. p # None => s.page[p].obj = o
    BY <1>1 DEF PointsOwn
  <2>3. \A g \in Fds : s.fd[g].page = p /\ p # None => g = f
    BY <1>1, <2>2 DEF PointsOwn
  <2> QED
    BY <2>1, <2>2, <2>3
<1>4. \E fds, pages :
        /\ r = [data |-> s.data, fd |-> fds, page |-> pages]
        /\ pages \in [Pages -> PageType]
        /\ \A q \in Pages : pages[q] = IF s.page[q].obj = o THEN FreePage ELSE s.page[q]
        /\ fds \in [Fds -> FdType]
        /\ \A g \in Fds : g # f => fds[g] = s.fd[g]
        /\ fds[f].obj = o /\ fds[f].page = None
  <2>1. CASE p = None
    BY <1>2, <1>3, <2>1
  <2>2. CASE p # None
    <3> DEFINE fds == [g \in Fds |-> IF s.fd[g].obj # None /\ s.fd[g].page = p
                                       THEN [s.fd[g] EXCEPT !.page = None] ELSE s.fd[g]]
               pages == [s.page EXCEPT ![p] = FreePage]
               u == [s EXCEPT !.page[p] = FreePage]
    <3>1. u = [data |-> s.data, fd |-> s.fd, page |-> pages]
      BY <1>2
    <3>2. r = [u EXCEPT !.fd = fds]
      BY <2>2 DEF Release
    <3>3. \A g \in Fds : fds[g] = IF g = f THEN [s.fd[f] EXCEPT !.page = None] ELSE s.fd[g]
      BY <1>2, <1>3, <2>2
    <3>4. [s.fd[f] EXCEPT !.page = None] \in FdType
          /\ [s.fd[f] EXCEPT !.page = None].obj = o /\ [s.fd[f] EXCEPT !.page = None].page = None
      BY <1>2 DEF FdType
    <3>5. fds \in [Fds -> FdType]
      BY <1>2, <3>3, <3>4
    <3>6. pages \in [Pages -> PageType]
          /\ \A q \in Pages : pages[q] = IF s.page[q].obj = o THEN FreePage ELSE s.page[q]
      BY <1>2, <1>3, <2>2, ClosedFdTyped
    <3> HIDE DEF fds, pages, u
    <3>7. r = [data |-> s.data, fd |-> fds, page |-> pages]
      BY <3>1, <3>2
    <3>8. (\A g \in Fds : g # f => fds[g] = s.fd[g]) /\ fds[f].obj = o /\ fds[f].page = None
      BY <3>3, <3>4
    <3> HIDE DEF o
    <3> QED
      BY <3>5, <3>6, <3>7, <3>8
  <2> QED
    BY <2>1, <2>2
<1>5. PICK fds, pages :
        /\ r = [data |-> s.data, fd |-> fds, page |-> pages]
        /\ pages \in [Pages -> PageType]
        /\ \A q \in Pages : pages[q] = IF s.page[q].obj = o THEN FreePage ELSE s.page[q]
        /\ fds \in [Fds -> FdType]
        /\ \A g \in Fds : g # f => fds[g] = s.fd[g]
        /\ fds[f].obj = o /\ fds[f].page = None
  BY <1>4
<1> DEFINE shut == [g \in Fds |-> IF fds[g].obj = o THEN Closed(fds[g]) ELSE fds[g]]
<1>6. shut = [g \in Fds |-> IF g = f THEN ClosedFd ELSE s.fd[g]]
  <2>1. Closed(fds[f]) = ClosedFd
    <3>1. fds[f].page = None
      BY <1>5
    <3> QED
      BY <3>1 DEF Closed, ClosedFd
  <2>2. \A g \in Fds : shut[g] = IF g = f THEN ClosedFd ELSE s.fd[g]
    BY <1>5, <2>1
  <2> QED
    BY <2>2
<1>7. t = [data |-> [s.data EXCEPT ![o] = <<>>], fd |-> shut, page |-> pages]
  <2>1. r.fd = fds /\ r.data = s.data
    BY <1>5
  <2>2. t = [r EXCEPT !.data[o] = <<>>, !.fd = shut]
    BY <2>1 DEF Removed
  <2>3. r = [data |-> s.data, fd |-> fds, page |-> pages]
    BY <1>5
  <2> DEFINE left == [s.data EXCEPT ![o] = <<>>]
  <2> HIDE DEF shut, t
  <2> DEFINE u == [r EXCEPT !.data[o] = <<>>]
  <2>4. u = [data |-> left, fd |-> fds, page |-> pages]
    BY <2>3
  <2>5. t = [u EXCEPT !.fd = shut]
    BY <2>2
  <2> HIDE DEF u, left
  <2>6. t = [data |-> left, fd |-> shut, page |-> pages]
    BY <2>4, <2>5
  <2> QED
    BY <2>6 DEF left
<1> HIDE DEF t, shut
<1>8. /\ t \in StateType
      /\ \A q \in Pages : t.page[q] = IF s.page[q].obj = o THEN FreePage ELSE s.page[q]
      /\ \A g \in Fds : t.fd[g] = IF g = f THEN ClosedFd ELSE s.fd[g]
      /\ \A i \in Objs \ {o} : t.data[i] = s.data[i]
  <2>1. shut \in [Fds -> FdType]
    BY <1>2, <1>6, ClosedFdTyped
  <2>2. [s.data EXCEPT ![o] = <<>>] \in [Objs -> Content]
    BY <1>2, EmptyContent
  <2>3. t \in StateType
    BY <1>5, <1>7, <2>1, <2>2 DEF StateType
  <2> QED
    BY <1>2, <1>5, <1>6, <1>7, <2>3
<1>9. s.fd[f].obj = o /\ \A g \in Fds : s.fd[g].obj = o => g = f
  OBVIOUS
<1> HIDE DEF o
<1> QED
  <2>1. Good(t)
    BY <1>2, <1>8, <1>9, GoneGood
  <2> QED
    BY <2>1 DEF t, o

-----------------------------------------------------------------------------
(* Lemmas about reading and seeking *)

LEMMA LeastRight ==
  \A i, j \in Nat : Least(i, j) \in Nat /\ Least(i, j) <= i /\ Least(i, j) <= j
                   /\ (Least(i, j) = i \/ Least(i, j) = j)
BY DEF Least

(* A read advances to a place the file reaches.                            *)
LEMMA ReadGood ==
  ASSUME NEW s, Good(s), NEW f \in Fds, s.fd[f].obj # None,
         NEW len \in Nat, NEW at, at = s.fd[f].offset, NEW size, size = s.fd[f].size,
         size # Undefined, NEW d, d = s.data[s.fd[f].obj], ~(at < size /\ d = <<>>)
  PROVE  Good(Advance(s, f, Len(SubSeq(d, at + 1, Least(at + len, size)))))
<1> DEFINE bytes == SubSeq(d, at + 1, Least(at + len, size))
           o == s.fd[f].obj
<1>1. s \in StateType /\ SizesRight(s) /\ Reach(s)
  BY DEF Good
<1>2. /\ s.fd \in [Fds -> FdType] /\ s.fd[f] \in FdType /\ o \in Objs /\ d \in Content
      /\ s = [data |-> s.data, fd |-> s.fd, page |-> s.page]
  BY <1>1 DEF StateType, FdType
<1>3. /\ at \in Nat /\ at <= MaxSize /\ size \in Nat /\ size <= MaxSize
      /\ d \in Seq(Bytes) /\ Len(d) \in Nat /\ Len(d) <= MaxSize
  BY <1>2, ContentIs, LenProperties, SizesAssumption DEF FdType, Size, Position
<1> DEFINE n == Len(bytes)
<1> HIDE DEF n
<1>4. n \in Nat /\ at + n <= MaxSize /\ (at + n <= Len(d) \/ n = 0)
  <2> DEFINE last == Least(at + len, size)
  <2>1. CASE at < size
    <3>1. size = Len(d)
      BY <1>1, <1>3, <2>1 DEF SizesRight, Agrees, Length
    <3>2. last \in Nat /\ last >= at /\ last <= Len(d)
      <4>1. at + len \in Nat /\ size \in Nat /\ at \in Nat
        BY <1>3
      <4>2. last \in Nat /\ last <= size /\ (last = at + len \/ last = size)
        BY <4>1, LeastRight
      <4> HIDE DEF last
      <4>3. last >= at
        BY <2>1, <4>1, <4>2
      <4> QED
        BY <3>1, <4>2, <4>3
    <3> HIDE DEF last
    <3>3. \A i \in at + 1 .. last : d[i] \in Bytes
      BY <1>3, <3>2, ElementOfSeq
    <3>4. Len(SubSeq(d, at + 1, last)) = IF at + 1 <= last THEN last - (at + 1) + 1 ELSE 0
      BY <1>3, <3>2, <3>3, SubSeqProperties
    <3>5. last \in Nat /\ at \in Nat /\ last >= at
      BY <1>3, <3>2
    <3>6. (IF at + 1 <= last THEN last - (at + 1) + 1 ELSE 0) = last - at
      BY <3>5
    <3>7. n = last - at
      BY <3>4, <3>6 DEF last, n
    <3>8. n \in Nat /\ at + n = last
      BY <3>5, <3>7
    <3>9. last <= MaxSize
      BY <1>3, <3>2, <3>5, SizesAssumption
    <3> QED
      BY <3>2, <3>8, <3>9
  <2>2. CASE size <= at
    <3>1. last \in Nat /\ last <= at
      <4>1. at + len \in Nat /\ size \in Nat /\ at \in Nat
        BY <1>3
      <4>2. last \in Nat /\ last <= size
        BY <4>1, LeastRight
      <4> HIDE DEF last
      <4> QED
        BY <2>2, <4>1, <4>2
    <3> HIDE DEF last
    <3>2. \A i \in at + 1 .. last : d[i] \in Bytes
      BY <1>3, <3>1
    <3>3. Len(SubSeq(d, at + 1, last)) = 0
      BY <1>3, <3>1, <3>2, SubSeqProperties
    <3>4. n = 0
      BY <3>3 DEF last, n
    <3> QED
      BY <1>3, <3>4
  <2>3. size <= at \/ at < size
    BY <1>3
  <2> QED
    BY <2>1, <2>2, <2>3
<1>5. at + n \in Position
  BY <1>3, <1>4, SizesAssumption DEF Position
<1>6. ~MayFill => Reached(s, o, at + n)
  <2>1. CASE at + n <= Len(d)
    BY <2>1 DEF Reached
  <2>2. CASE n = 0
    <3>1. at + n = at
      BY <1>3, <2>2
    <3> QED
      BY <1>1, <3>1 DEF Reach
  <2> QED
    BY <1>4, <2>1, <2>2
<1>7. Advance(s, f, n) = Moved(s, f, at + n)
  BY <1>2 DEF Advance, Moved, FdType
<1>8. Good(Moved(s, f, at + n))
  BY <1>5, <1>6, MoveGood
<1> QED
  BY <1>7, <1>8 DEF n

(* So does a seek.                                                         *)
LEMMA SeekGood ==
  ASSUME NEW s, Good(s), NEW f \in Fds, s.fd[f].obj # None, NEW to \in Position
  PROVE  Good(Moved(s, f, Least(to, Length(s.fd[f].size))))
<1> DEFINE size == Length(s.fd[f].size)
           o == s.fd[f].obj
<1>1. s \in StateType /\ SizesRight(s)
  BY DEF Good
<1>2. s.fd[f].size \in Size /\ s.data[o] \in Content
  BY <1>1 DEF StateType, FdType
<1>3. /\ to \in Nat /\ to <= MaxSize /\ size \in Nat /\ Len(s.data[o]) \in Nat
  BY <1>2, ContentIs, LenProperties, SizesAssumption DEF Position, Size, Length
<1>4. ~MayFill => size = Len(s.data[o])
  BY <1>1 DEF SizesRight, Agrees
<1> HIDE DEF size
<1>5. Least(to, size) \in Position /\ Least(to, size) <= size
  BY <1>3, SizesAssumption DEF Least, Position
<1>6. ~MayFill => Reached(s, o, Least(to, size))
  BY <1>4, <1>5 DEF Reached
<1>7. Good(Moved(s, f, Least(to, size)))
  BY <1>5, <1>6, MoveGood
<1> QED
  BY <1>7 DEF size

-----------------------------------------------------------------------------
(* The invariant *)

LEMMA BecomeGood ==
  ASSUME NEW s, Good(s), Become(s)
  PROVE  Good(Now)'
<1>1. s = [data |-> s.data, fd |-> s.fd, page |-> s.page]
  BY DEF Good, StateType
<1>2. Now' = s
  BY <1>1 DEF Become, Now
<1> QED
  BY <1>2

LEMMA InitRight == Init => IInv
<1> SUFFICES ASSUME Init PROVE IInv
  OBVIOUS
<1>1. dir \in [Names -> Objs \cup {None}]
  BY DEF Init
<1>2. /\ Now.data = [o \in Objs |-> <<>>] /\ Now.fd = [f \in Fds |-> ClosedFd]
      /\ Now.page = [p \in Pages |-> FreePage]
      /\ Now = [data |-> Now.data, fd |-> Now.fd, page |-> Now.page]
  BY DEF Init, Now
<1> DEFINE s == Now
<1> HIDE DEF s
<1>3. s \in StateType
  BY <1>2, EmptyContent, ClosedFdTyped DEF StateType, s
<1>4. ClosedFd.obj = None /\ ClosedFd.page = None /\ FreePage.obj = None
      /\ FreePage.offset = 0 /\ FreePage.bytes = <<>>
  BY DEF ClosedFd, FreePage
<1>5. SizesRight(s) /\ OnePage(s) /\ Pointed(s) /\ PointsOwn(s) /\ Reach(s)
  BY <1>2, <1>4 DEF s, SizesRight, OnePage, Pointed, PointsOwn, Reach
<1>6. PagesFit(s)
  BY <1>2, <1>4, EmptyContent, SizesAssumption DEF s, PagesFit
<1> QED
  BY <1>1, <1>3, <1>5, <1>6 DEF IInv, Good, s

(* Every call keeps the invariant.                                         *)
LEMMA CallRight ==
  ASSUME IInv, NEW f \in Fds, Call(f)
  PROVE  IInv'
<1>1. /\ dir \in [Names -> Objs \cup {None}] /\ Good(Now)
      /\ Now.fd = fd /\ Now.data = data /\ Now.page = page
  BY DEF IInv, Now
<1>2. /\ Now \in StateType /\ fd \in [Fds -> FdType] /\ Pointed(Now)
      /\ \A flags \in Modes, r \in {"RDONLY", "WRONLY"} : r \in fd[f].flags => IsOpen(f)
  BY <1>1 DEF Good, StateType, FdType, IsOpen
<1>3. ASSUME NEW n \in Names, NEW flags \in Modes, Open(n, f, flags)
      PROVE  IInv'
  <2>1. fd[f].obj = None /\ dir[n] \in Objs /\ dir' = dir
        /\ Become(Opened(Now, f, dir[n], flags))
    BY <1>1, <1>3 DEF Open, MayOpen, IsOpen, Return, Outcome
  <2>2. Good(Opened(Now, f, dir[n], flags))
    BY <1>1, <2>1, OpenedGood
  <2> QED
    BY <1>1, <2>1, <2>2, BecomeGood DEF IInv
<1>4. ASSUME NEW n \in Names, NEW flags \in Modes, OpenTruncated(n, f, flags)
      PROVE  IInv'
  <2> DEFINE o == dir[n]
             s == Opened(Now, f, o, flags)
  <2>1. fd[f].obj = None /\ o \in Objs /\ dir' = dir /\ OpenOn(o) = {} /\ Become(Emptied(s, f))
    BY <1>1, <1>4 DEF OpenTruncated, IsOpen, Return, Outcome
  <2>2. Good(s)
    BY <1>1, <2>1, OpenedGood
  <2>3. /\ s.fd[f].obj = o /\ s.fd[f].offset = 0 /\ s.page = page
        /\ \A g \in Fds : g # f => s.fd[g] = fd[g]
    BY <1>1, <1>2, <2>1 DEF Opened, StateType
  <2>4. o # None /\ \A g \in Fds : fd[g].obj # o
    BY <2>1, NoneAssumption DEF OpenOn
  <2>5. NoPage(s, o)
    BY <1>1, <1>2, <2>3, <2>4 DEF Pointed, NoPage
  <2> HIDE DEF s, o
  <2>6. Good(Emptied(s, f))
    BY <2>2, <2>3, <2>4, <2>5, EmptiedGood
  <2> QED
    BY <1>1, <2>1, <2>6, BecomeGood DEF IInv
<1>5. ASSUME NEW n \in Names, NEW flags \in Modes, OpenCreated(n, f, flags)
      PROVE  IInv'
  <2>1. PICK o \in Objs \ {dir[m] : m \in Names} :
          /\ fd[f].obj = None /\ dir' = [dir EXCEPT ![n] = o]
          /\ Become(Opened(Now, f, o, flags))
    BY <1>5 DEF OpenCreated, IsOpen, Return, Outcome
  <2>2. Good(Opened(Now, f, o, flags))
    BY <1>1, <2>1, OpenedGood
  <2>3. dir' \in [Names -> Objs \cup {None}]
    BY <1>1, <2>1
  <2> QED
    BY <2>1, <2>2, <2>3, BecomeGood DEF IInv
<1>6. ASSUME NEW len \in 1 .. LogPage, Read(f, len)
      PROVE  IInv'
  <2>1. fd[f].obj # None /\ dir' = dir
    <3>1. "RDONLY" \in fd[f].flags /\ dir' = dir
      BY <1>6 DEF Read
    <3>2. fd[f].obj = None => fd[f].flags = {}
      BY <1>2 DEF FdType
    <3> QED
      BY <3>1, <3>2
  <2>2. CASE fd[f].size = Undefined
    <3>1. data' = data /\ fd' = fd /\ page' = page
      BY <1>6, <2>2 DEF Read
    <3>2. Now' = Now
      BY <3>1 DEF Now
    <3> QED
      BY <1>1, <2>1, <3>2 DEF IInv
  <2>3. CASE fd[f].size # Undefined
    <3>1. PICK w \in Flush(Now, f) :
            LET d == w.state.data[w.state.fd[f].obj]
                at == w.state.fd[f].offset
                size == w.state.fd[f].size
                bytes == SubSeq(d, at + 1, Least(at + len, size))
            IN  \/ Become(w.state)
                \/ ~(at < size /\ d = <<>>) /\ Become(Advance(w.state, f, Len(bytes)))
      BY <1>6, <2>3 DEF Read, Return, Outcome
    <3>2. Good(w.state) /\ w.state.fd[f].obj # None /\ w.state.fd[f].size # Undefined
      BY <1>1, <2>1, <2>3, FlushGood DEF Flushed, Kin
    <3>3. CASE Become(w.state)
      BY <1>1, <2>1, <3>2, <3>3, BecomeGood DEF IInv
    <3> DEFINE d == w.state.data[w.state.fd[f].obj]
               at == w.state.fd[f].offset
               size == w.state.fd[f].size
               t == Advance(w.state, f, Len(SubSeq(d, at + 1, Least(at + len, size))))
    <3>4. CASE ~(at < size /\ d = <<>>) /\ Become(t)
      <4>1. Good(t)
        <5>1. ASSUME NEW x, x = at, NEW y, y = size, NEW z, z = d
              PROVE  Good(Advance(w.state, f, Len(SubSeq(z, x + 1, Least(x + len, y)))))
          <6>1. len \in Nat /\ ~(x < y /\ z = <<>>) /\ y # Undefined
            BY <3>2, <3>4, <5>1, SizesAssumption
          <6> QED
            BY <3>2, <5>1, <6>1, ReadGood
        <5> HIDE DEF at, size, d
        <5> QED
          BY <5>1 DEF t
      <4> HIDE DEF t
      <4> QED
        BY <1>1, <2>1, <3>4, <4>1, BecomeGood DEF IInv
    <3> QED
      BY <3>1, <3>3, <3>4
  <2> QED
    BY <2>2, <2>3
<1>7. ASSUME NEW k \in 1 .. LogPage, NEW bytes \in [1 .. k -> Bytes], Write(f, bytes)
      PROVE  IInv'
  <2>1. /\ fd[f].obj # None /\ dir' = dir /\ bytes \in Seq(Bytes)
        /\ Now.fd[f].offset + Len(bytes) <= MaxSize
    <3>1. "WRONLY" \in fd[f].flags /\ dir' = dir /\ fd[f].offset + Len(bytes) <= MaxSize
      BY <1>7 DEF Write
    <3>2. fd[f].obj = None => fd[f].flags = {}
      BY <1>2 DEF FdType
    <3>3. bytes \in Seq(Bytes)
      BY SizesAssumption
    <3> QED
      BY <1>1, <3>1, <3>2, <3>3
  <2>2. PICK w \in WriteOutcomes(Now, f, bytes) : Become(w.state)
    BY <1>7 DEF Write, Return
  <2>3. Good(w.state)
    BY <1>1, <2>1, WriteGood
  <2> QED
    BY <1>1, <2>1, <2>2, <2>3, BecomeGood DEF IInv
<1>8. ASSUME NEW to \in 0 .. MaxSize, Seek(f, to)
      PROVE  IInv'
  <2>1. fd[f].obj # None /\ dir' = dir /\ to \in Position
    BY <1>8 DEF Seek, IsOpen, Position
  <2>2. PICK w \in Flush(Now, f) :
          Become(Moved(w.state, f, Least(to, Length(w.state.fd[f].size))))
    BY <1>8 DEF Seek, Return, Outcome, Moved
  <2>3. Good(w.state) /\ w.state.fd[f].obj # None
    BY <1>1, <2>1, FlushGood DEF Flushed, Kin
  <2>4. Good(Moved(w.state, f, Least(to, Length(w.state.fd[f].size))))
    BY <2>1, <2>3, SeekGood
  <2> QED
    BY <1>1, <2>1, <2>2, <2>4, BecomeGood DEF IInv
<1>9. CASE Fstat(f)
  <2>1. fd[f].obj # None /\ dir' = dir
    BY <1>9 DEF Fstat, IsOpen
  <2>2. PICK w \in Flush(Now, f) : Become(w.state)
    BY <1>9 DEF Fstat
  <2>3. Good(w.state)
    BY <1>1, <2>1, FlushGood DEF Flushed
  <2> QED
    BY <1>1, <2>1, <2>2, <2>3, BecomeGood DEF IInv
<1>10. CASE Close(f)
  <2>1. fd[f].obj # None /\ dir' = dir
    BY <1>10 DEF Close, IsOpen
  <2>2. PICK w \in Flush(Now, f) :
          Become(w.state) \/ Become([w.state EXCEPT !.fd[f] = Closed(@)])
    BY <1>10 DEF Close, Return, Outcome
  <2>3. /\ Good(w.state) /\ w.state.fd[f].obj # None
        /\ NoPage(w.state, w.state.fd[f].obj)
    BY <1>1, <2>1, FlushGood DEF Flushed, Kin
  <2>4. Good([w.state EXCEPT !.fd[f] = Closed(@)])
    BY <2>3, CloseGood
  <2> QED
    BY <1>1, <2>1, <2>2, <2>3, <2>4, BecomeGood DEF IInv
<1>11. CASE Fremove(f)
  <2> DEFINE o == fd[f].obj
             r == IF fd[f].page = None THEN Now ELSE Release(Now, fd[f].page)
  <2>1. /\ o # None /\ OpenOn(o) = {f} /\ Become(Removed(r, o))
        /\ dir' = [n \in Names |-> IF dir[n] = o THEN None ELSE dir[n]]
    <3>1. /\ "WRONLY" \in fd[f].flags /\ OpenOn(o) = {f}
          /\ dir' = [n \in Names |-> IF dir[n] = o THEN None ELSE dir[n]]
      BY <1>11 DEF Fremove
    <3>2. Become(Removed(r, o))
      BY <1>11 DEF Fremove, Return, Outcome, Removed
    <3>3. fd[f].obj = None => fd[f].flags = {}
      BY <1>2 DEF FdType
    <3> QED
      BY <3>1, <3>2, <3>3
  <2>2. \A g \in Fds : fd[g].obj = o => g = f
    BY <2>1 DEF OpenOn
  <2>3. dir' \in [Names -> Objs \cup {None}]
    BY <1>1, <2>1
  <2>4. /\ Now.fd[f].obj = o /\ \A g \in Fds : Now.fd[g].obj = Now.fd[f].obj => g = f
        /\ r = IF Now.fd[f].page = None THEN Now ELSE Release(Now, Now.fd[f].page)
    BY <1>1, <2>2
  <2> HIDE DEF r, o
  <2>5. Good(Removed(r, o))
    BY <1>1, <2>1, <2>4, RemoveGood
  <2> QED
    BY <2>1, <2>3, <2>5, BecomeGood DEF IInv
<1> QED
  BY <1>3, <1>4, <1>5, <1>6, <1>7, <1>8, <1>9, <1>10, <1>11 DEF Call

LEMMA StepRight == IInv /\ [Next]_vars => IInv'
<1> SUFFICES ASSUME IInv, [Next]_vars PROVE IInv'
  OBVIOUS
<1>1. CASE Refuse \/ UNCHANGED vars
  <2>1. dir' = dir /\ Now' = Now
    BY <1>1 DEF Refuse, Fails, vars, Now
  <2> QED
    BY <2>1 DEF IInv
<1>2. ASSUME NEW f \in Fds, Call(f) PROVE IInv'
  BY <1>2, CallRight
<1>3. ASSUME NEW old \in Names, NEW new \in Names, Rename(old, new) PROVE IInv'
  <2>1. Now' = Now /\ dir' = [dir EXCEPT ![old] = None, ![new] = dir[old]]
    BY <1>3 DEF Rename, Now
  <2>2. dir' \in [Names -> Objs \cup {None}]
    BY <2>1 DEF IInv
  <2> QED
    BY <2>1, <2>2 DEF IInv
<1> QED
  BY <1>1, <1>2, <1>3 DEF Next

(* The inductive invariant of the calls and the cache.                     *)
THEOREM Invariance == Spec => []IInv
<1> QED
  BY InitRight, StepRight, PTL DEF Spec

-----------------------------------------------------------------------------
(* The results *)

(* The directory, the flash, the descriptors and the cache pages have the  *)
(* types spiffs_nucleus.h gives them: no descriptor stands and no page     *)
(* reaches behind the greatest size.                                       *)
THEOREM TypeCorrect == Spec => []TypeOK
<1>1. IInv => TypeOK
  <2> SUFFICES ASSUME IInv PROVE TypeOK
    OBVIOUS
  <2>1. /\ Now \in StateType /\ Now.data = data /\ Now.fd = fd /\ Now.page = page
        /\ dir \in [Names -> Objs \cup {None}]
    BY DEF IInv, Good, Now
  <2>2. data \in [Objs -> Content] /\ fd \in [Fds -> FdType] /\ page \in [Pages -> PageType]
    BY <2>1 DEF StateType
  <2>3. fd \in [Fds -> [obj : Objs \cup {None}, flags : Modes \cup {{}}, size : Size,
                        offset : Position, page : Pages \cup {None}]]
    BY <2>2 DEF FdType
  <2> QED
    BY <2>1, <2>2, <2>3 DEF TypeOK, PageType
<1> QED
  BY <1>1, Invariance, PTL

(* spiffs_cache_page_allocate_by_fd never gives an object a second write   *)
(* page, however many descriptors share the file and whichever fails.      *)
THEOREM OnePageAnObject == Spec => []OneWritePage
<1>1. IInv => OneWritePage
  BY DEF IInv, Good, Now, OnePage, OneWritePage
<1> QED
  BY <1>1, Invariance, PTL

(* A write page is that of an open file, and a descriptor's page is one of *)
(* its own file, also for the slots that spiffs_object_open_by_page leaves *)
(* with the cache_page of their last use.                                  *)
THEOREM PagesHaveOwners == Spec => []PagesOwned
<1>1. IInv => PagesOwned
  <2> SUFFICES ASSUME IInv PROVE PagesOwned
    OBVIOUS
  <2>1. Pointed(Now) /\ PointsOwn(Now) /\ Now.fd = fd /\ Now.page = page
    BY DEF IInv, Good, Now
  <2> QED
    BY <2>1 DEF Pointed, PointsOwn, PagesOwned, OpenOn, IsOpen
<1> QED
  BY <1>1, Invariance, PTL

(* While the flash has room, the size every descriptor of a file knows is  *)
(* that of the file on flash, whichever of them wrote.                     *)
THEOREM SizesAgreeWithRoom == Spec /\ ~MayFill => []SizesAgree
<1>1. IInv /\ ~MayFill => SizesAgree
  <2> SUFFICES ASSUME IInv, ~MayFill PROVE SizesAgree
    OBVIOUS
  <2>1. SizesRight(Now) /\ Now.fd = fd /\ Now.data = data
    BY DEF IInv, Good, Now
  <2> QED
    BY <2>1 DEF SizesRight, Agrees, SizesAgree, IsOpen
<1>2. ~MayFill => [](~MayFill)
  OBVIOUS
<1> QED
  BY <1>1, <1>2, Invariance, PTL
=============================================================================
