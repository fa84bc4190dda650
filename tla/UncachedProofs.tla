--------------------------- MODULE UncachedProofs ---------------------------
(***************************************************************************)
(* Proofs about the bytes of SpiffsFiles: while the flash has room, every  *)
(* cached write reaches the flash, and files that are opened once behave   *)
(* as if nothing were cached.                                              *)
(***************************************************************************)
EXTENDS SpiffsFilesProofs

(* Overwriting, byte by byte.                                              *)
LEMMA OverwriteAt ==
  ASSUME NEW d \in Seq(Bytes), NEW k \in 0 .. Len(d), NEW bytes \in Seq(Bytes),
         NEW i \in 1 .. Len(Overwrite(d, k, bytes))
  PROVE  Overwrite(d, k, bytes)[i] = IF i <= k THEN d[i]
                                     ELSE IF i <= k + Len(bytes) THEN bytes[i - k] ELSE d[i]
<1>1. Len(d) \in Nat /\ Len(bytes) \in Nat /\ \A j \in 1 .. Len(d) : d[j] \in Bytes
  BY LenProperties, ElementOfSeq
<1> DEFINE front == SubSeq(d, 1, k)
           end == k + Len(bytes) + 1
           tail == SubSeq(d, end, Len(d))
<1>2. /\ front \in Seq(Bytes) /\ Len(front) = k
      /\ \A j \in 1 .. k : front[j] = d[j]
  <2>1. \A j \in 1 .. k : d[j] \in Bytes
    BY <1>1
  <2>2. \A j \in 1 .. k - 1 + 1 : front[j] = d[1 + j - 1]
    BY <1>1, <2>1, SubSeqProperties
  <2>3. front \in Seq(Bytes) /\ Len(front) = k
    BY <1>1, <2>1, SubSeqProperties
  <2> HIDE DEF front
  <2> QED BY <1>1, <2>2, <2>3
<1>3. /\ tail \in Seq(Bytes) /\ Len(tail) = IF end <= Len(d) THEN Len(d) - end + 1 ELSE 0
      /\ \A j \in 1 .. Len(d) - end + 1 : tail[j] = d[end + j - 1]
  <2>1. \A j \in end .. Len(d) : d[j] \in Bytes
    BY <1>1
  <2> QED BY <1>1, <2>1, SubSeqProperties
<1> HIDE DEF front, tail
<1>4. /\ front \o bytes \in Seq(Bytes) /\ Len(front \o bytes) = k + Len(bytes)
      /\ \A j \in 1 .. k + Len(bytes) :
            (front \o bytes)[j] = IF j <= k THEN d[j] ELSE bytes[j - k]
  <2>1. \A j \in 1 .. Len(front) + Len(bytes) :
            (front \o bytes)[j] = IF j <= Len(front) THEN front[j] ELSE bytes[j - Len(front)]
    BY <1>2, ConcatProperties
  <2>2. front \o bytes \in Seq(Bytes) /\ Len(front \o bytes) = Len(front) + Len(bytes)
    BY <1>2, ConcatProperties
  <2> QED BY <1>1, <1>2, <2>1, <2>2
<1> DEFINE w == front \o bytes
<1>5. Overwrite(d, k, bytes) = w \o tail
  BY DEF Overwrite, front, tail
<1>6. w \in Seq(Bytes) /\ Len(w) = k + Len(bytes)
  BY <1>4
<1> HIDE DEF w
<1>7. /\ Len(w \o tail) = Len(w) + Len(tail)
      /\ \A j \in 1 .. Len(w) + Len(tail) : (w \o tail)[j] = IF j <= Len(w) THEN w[j] ELSE tail[j - Len(w)]
  <2>1. tail \in Seq(Bytes)
    BY <1>3
  <2>2. ASSUME NEW x \in Seq(Bytes), NEW y \in Seq(Bytes)
        PROVE  /\ Len(x \o y) = Len(x) + Len(y)
               /\ \A j \in 1 .. Len(x) + Len(y) : (x \o y)[j] = IF j <= Len(x) THEN x[j] ELSE y[j - Len(x)]
    BY ConcatProperties
  <2> QED BY <1>6, <2>1, <2>2
<1>8. Len(tail) \in Nat /\ k \in Nat /\ i \in 1 .. Len(w) + Len(tail)
  <2>1. Len(tail) \in Nat
    BY <1>3, LenProperties
  <2> QED BY <1>1, <1>5, <1>7, <2>1
<1>11. (w \o tail)[i] = IF i <= Len(w) THEN w[i] ELSE tail[i - Len(w)]
  BY <1>7, <1>8
<1>9. CASE i <= k + Len(bytes)
  BY <1>4, <1>5, <1>6, <1>8, <1>9, <1>11 DEF w
<1>10. CASE ~ (i <= k + Len(bytes))
  <2>1. i - Len(w) \in 1 .. Len(d) - end + 1
    <3>1. i > Len(w) /\ i <= Len(w) + Len(tail)
      BY <1>1, <1>6, <1>8, <1>10
    <3>2. Len(tail) = Len(d) - end + 1
      <4>1. end \in Nat /\ Len(tail) = IF end <= Len(d) THEN Len(d) - end + 1 ELSE 0
        BY <1>1, <1>3, <1>8
      <4>2. Len(tail) > 0
        BY <1>6, <1>1, <1>8, <3>1
      <4> HIDE DEF end
      <4> QED BY <4>1, <4>2
    <3> QED BY <1>1, <1>6, <1>8, <3>1, <3>2
  <2>2. tail[i - Len(w)] = d[end + (i - Len(w)) - 1]
    BY <1>3, <2>1
  <2>3. end + (i - Len(w)) - 1 = i /\ ~(i <= k)
    BY <1>1, <1>6, <1>8, <1>10
  <2> QED BY <1>5, <1>6, <1>8, <1>11, <1>10, <2>2, <2>3
<1> QED BY <1>9, <1>10

(* Nothing overwritten.                                                    *)
LEMMA OverwriteNothing ==
  ASSUME NEW bytes \in Seq(Bytes)
  PROVE  Overwrite(<<>>, 0, bytes) = bytes
<1> SUFFICES ASSUME NEW e \in Seq(Bytes), Len(e) = 0
             PROVE  Overwrite(e, 0, bytes) = bytes
  BY EmptySeq
<1>1. Len(bytes) \in Nat /\ 0 \in 0 .. Len(e)
  BY LenProperties
<1> SUFFICES ASSUME NEW k \in Nat, k = 0
             PROVE  Overwrite(e, k, bytes) = bytes
  OBVIOUS
<1>2. k \in 0 .. Len(e) /\ k + Len(bytes) = Len(bytes)
  BY <1>1
<1>3. Overwrite(e, k, bytes) \in Seq(Bytes) /\ Len(Overwrite(e, k, bytes)) = Len(bytes)
  <2>1. /\ Overwrite(e, k, bytes) \in Seq(Bytes)
        /\ Len(Overwrite(e, k, bytes)) = IF k + Len(bytes) <= Len(e) THEN Len(e) ELSE k + Len(bytes)
    BY <1>2, OverwriteRight
  <2> QED BY <1>1, <1>2, <2>1
<1>4. ASSUME NEW i \in 1 .. Len(bytes) PROVE Overwrite(e, k, bytes)[i] = bytes[i]
  <2>1. i \in 1 .. Len(Overwrite(e, k, bytes))
    BY <1>3
  <2>2. Overwrite(e, k, bytes)[i] = IF i <= k THEN e[i]
                                    ELSE IF i <= k + Len(bytes) THEN bytes[i - k] ELSE e[i]
    BY <1>2, <2>1, OverwriteAt
  <2> QED BY <1>1, <2>2
<1> QED BY <1>3, <1>4, SeqEqual

(* Overwriting what was just written, or behind it, is overwriting once.   *)
LEMMA OverwriteTwice ==
  ASSUME NEW d \in Seq(Bytes), NEW po \in 0 .. Len(d), NEW pb \in Seq(Bytes),
         NEW k \in 0 .. Len(pb), NEW b \in Seq(Bytes), NEW o, o = po + k
  PROVE  Overwrite(Overwrite(d, po, pb), o, b) = Overwrite(d, po, Overwrite(pb, k, b))
<1>1. Len(d) \in Nat /\ Len(pb) \in Nat /\ Len(b) \in Nat
  BY LenProperties
<1> DEFINE e == Overwrite(d, po, pb)
           c == Overwrite(pb, k, b)
<1>2. /\ e \in Seq(Bytes) /\ Len(e) = IF po + Len(pb) <= Len(d) THEN Len(d) ELSE po + Len(pb)
      /\ \A i \in 1 .. Len(e) : e[i] = IF i <= po THEN d[i]
                                       ELSE IF i <= po + Len(pb) THEN pb[i - po] ELSE d[i]
  BY OverwriteRight, OverwriteAt
<1>3. /\ c \in Seq(Bytes) /\ Len(c) = IF k + Len(b) <= Len(pb) THEN Len(pb) ELSE k + Len(b)
      /\ \A i \in 1 .. Len(c) : c[i] = IF i <= k THEN pb[i]
                                       ELSE IF i <= k + Len(b) THEN b[i - k] ELSE pb[i]
  BY OverwriteRight, OverwriteAt
<1> HIDE DEF e, c
<1>4. o \in 0 .. Len(e) /\ Len(e) \in Nat /\ Len(c) \in Nat /\ o \in Nat /\ k \in Nat /\ po \in Nat
  BY <1>1, <1>2, <1>3
<1> DEFINE x == Overwrite(e, o, b)
           y == Overwrite(d, po, c)
<1>5. /\ x \in Seq(Bytes) /\ Len(x) = IF o + Len(b) <= Len(e) THEN Len(e) ELSE o + Len(b)
      /\ \A i \in 1 .. Len(x) : x[i] = IF i <= o THEN e[i]
                                       ELSE IF i <= o + Len(b) THEN b[i - o] ELSE e[i]
  BY <1>2, <1>4, OverwriteRight, OverwriteAt
<1>6. /\ y \in Seq(Bytes) /\ Len(y) = IF po + Len(c) <= Len(d) THEN Len(d) ELSE po + Len(c)
      /\ \A i \in 1 .. Len(y) : y[i] = IF i <= po THEN d[i]
                                       ELSE IF i <= po + Len(c) THEN c[i - po] ELSE d[i]
  BY <1>3, OverwriteRight, OverwriteAt
<1> HIDE DEF x, y
<1>7. Len(x) = Len(y) /\ Len(x) \in Nat
  BY <1>1, <1>2, <1>3, <1>4, <1>5, <1>6, SMTT(30)
<1>8. ASSUME NEW i \in 1 .. Len(x) PROVE x[i] = y[i]
  <2>1. i \in Nat /\ i >= 1 /\ i \in 1 .. Len(y) /\ o = po + k
    BY <1>7
  <2>2. CASE i <= o
    <3>1. x[i] = e[i] /\ i \in 1 .. Len(e)
      BY <1>4, <1>5, <2>1, <2>2, SMTT(30)
    <3>2. CASE i <= po
      BY <1>1, <1>2, <1>6, <2>1, <3>1, <3>2
    <3>3. CASE po < i
      <4>1. i <= po + Len(pb) /\ ~(i <= po) /\ i - po \in 1 .. k /\ i <= po + Len(c)
        BY <1>1, <1>3, <1>4, <2>1, <2>2, <3>3
      <4>2. e[i] = pb[i - po]
        BY <1>2, <3>1, <4>1
      <4>3. i - po \in 1 .. Len(c) /\ i - po <= k
        BY <1>1, <1>3, <1>4, <4>1
      <4>4. c[i - po] = pb[i - po]
        BY <1>3, <4>3
      <4>5. y[i] = c[i - po]
        BY <1>6, <2>1, <4>1
      <4> QED BY <3>1, <4>2, <4>4, <4>5
    <3> QED BY <1>4, <2>1, <3>2, <3>3
  <2>3. CASE o < i /\ i <= o + Len(b)
    <3>1. x[i] = b[i - o]
      BY <1>4, <1>5, <2>1, <2>3, SMTT(30)
    <3>2. /\ i - po \in 1 .. Len(c) /\ ~(i - po <= k) /\ i - po <= k + Len(b)
          /\ (i - po) - k = i - o /\ ~(i <= po) /\ i <= po + Len(c)
      BY <1>1, <1>3, <1>4, <2>1, <2>3, SMTT(30)
    <3>3. c[i - po] = b[(i - po) - k]
      BY <1>3, <3>2
    <3>4. y[i] = c[i - po]
      BY <1>6, <2>1, <3>2
    <3> QED BY <3>1, <3>2, <3>3, <3>4
  <2>4. CASE o + Len(b) < i
    <3>1. x[i] = e[i] /\ i \in 1 .. Len(e) /\ ~(i <= po)
      BY <1>1, <1>4, <1>5, <2>1, <2>4, SMTT(30)
    <3>2. CASE i <= po + Len(pb)
      <4>1. /\ i - po \in 1 .. Len(c) /\ ~(i - po <= k) /\ ~(i - po <= k + Len(b))
            /\ i <= po + Len(c)
        BY <1>1, <1>3, <1>4, <2>1, <2>4, <3>2, SMTT(30)
      <4>2. c[i - po] = pb[i - po]
        BY <1>3, <4>1
      <4>3. y[i] = c[i - po]
        BY <1>6, <2>1, <3>1, <4>1
      <4>4. e[i] = pb[i - po]
        BY <1>2, <3>1, <3>2
      <4> QED BY <3>1, <4>2, <4>3, <4>4
    <3>3. CASE ~(i <= po + Len(pb))
      <4>1. ~(i <= po + Len(c))
        BY <1>1, <1>3, <1>4, <2>1, <2>4, <3>3
      <4>2. y[i] = d[i]
        BY <1>6, <2>1, <3>1, <4>1
      <4>3. e[i] = d[i]
        BY <1>2, <3>1, <3>3
      <4> QED BY <3>1, <4>2, <4>3
    <3> QED BY <3>2, <3>3
  <2> QED BY <1>1, <1>4, <2>1, <2>2, <2>3, <2>4
<1>9. x = y
  BY <1>5, <1>6, <1>7, <1>8, SeqEqual
<1> QED BY <1>9 DEF x, y, e, c

(* What spiffs_hydro_write modifies and what it appends make the whole.    *)
LEMMA OverwriteInTwo ==
  ASSUME NEW d \in Seq(Bytes), NEW offset \in 0 .. Len(d), NEW bytes \in Seq(Bytes),
         NEW n \in 0 .. Len(bytes), offset + n <= Len(d), n < Len(bytes) => offset + n = Len(d)
  PROVE  Kept(d, offset, bytes, n) \o Rest(bytes, n) = Overwrite(d, offset, bytes)
<1>1. Len(d) \in Nat /\ Len(bytes) \in Nat /\ \A i \in 1 .. Len(bytes) : bytes[i] \in Bytes
  BY LenProperties, ElementOfSeq
<1> DEFINE first == SubSeq(bytes, 1, n)
           rest == Rest(bytes, n)
           kept == Kept(d, offset, bytes, n)
<1>2. first \in Seq(Bytes) /\ Len(first) = n /\ \A i \in 1 .. n : first[i] = bytes[i]
  <2>1. \A i \in 1 .. n : bytes[i] \in Bytes
    BY <1>1
  <2>2. first \in Seq(Bytes) /\ Len(first) = n
    BY <1>1, <2>1, SubSeqProperties
  <2>3. \A i \in 1 .. n - 1 + 1 : first[i] = bytes[1 + i - 1]
    BY <1>1, <2>1, SubSeqProperties
  <2> HIDE DEF first
  <2> QED BY <1>1, <2>2, <2>3
<1>3. /\ rest \in Seq(Bytes) /\ Len(rest) = Len(bytes) - n
      /\ \A i \in 1 .. Len(bytes) - n : rest[i] = bytes[n + i]
  <2>1. \A i \in n + 1 .. Len(bytes) : bytes[i] \in Bytes
    BY <1>1
  <2>2. rest \in Seq(Bytes) /\ Len(rest) = IF n + 1 <= Len(bytes) THEN Len(bytes) - (n + 1) + 1 ELSE 0
    BY <1>1, <2>1, SubSeqProperties DEF Rest
  <2>3. \A i \in 1 .. Len(bytes) - (n + 1) + 1 : rest[i] = bytes[(n + 1) + i - 1]
    BY <1>1, <2>1, SubSeqProperties DEF Rest
  <2> HIDE DEF rest
  <2> QED BY <1>1, <2>2, <2>3, SMTT(30)
<1> HIDE DEF first
<1>4. /\ kept \in Seq(Bytes) /\ Len(kept) = Len(d)
      /\ \A i \in 1 .. Len(d) : kept[i] = IF i <= offset THEN d[i]
                                          ELSE IF i <= offset + n THEN bytes[i - offset] ELSE d[i]
  <2>1. CASE n = 0
    <3>1. kept = d
      BY <2>1 DEF Kept
    <3> HIDE DEF kept
    <3> QED BY <1>1, <2>1, <3>1
  <2>2. CASE n # 0
    <3>1. kept = Overwrite(d, offset, first)
      BY <2>2 DEF Kept, first
    <3>2. kept \in Seq(Bytes) /\ Len(kept) = IF offset + n <= Len(d) THEN Len(d) ELSE offset + n
      BY <1>2, <3>1, OverwriteRight
    <3> HIDE DEF kept
    <3>3. Len(kept) = Len(d)
      BY <3>2
    <3>4. ASSUME NEW i \in 1 .. Len(d)
          PROVE  kept[i] = IF i <= offset THEN d[i]
                           ELSE IF i <= offset + n THEN bytes[i - offset] ELSE d[i]
      <4>1. kept[i] = IF i <= offset THEN d[i]
                      ELSE IF i <= offset + n THEN first[i - offset] ELSE d[i]
        BY <1>2, <3>1, <3>3, OverwriteAt
      <4>2. ~(i <= offset) /\ i <= offset + n => first[i - offset] = bytes[i - offset]
        BY <1>1, <1>2
      <4> QED BY <4>1, <4>2
    <3> QED BY <3>2, <3>3, <3>4
  <2> QED BY <2>1, <2>2
<1> HIDE DEF kept, rest
<1> DEFINE whole == Overwrite(d, offset, bytes)
           both == kept \o rest
<1>5. /\ both \in Seq(Bytes) /\ Len(both) = Len(kept) + Len(rest)
      /\ \A i \in 1 .. Len(kept) + Len(rest) :
            both[i] = IF i <= Len(kept) THEN kept[i] ELSE rest[i - Len(kept)]
  <2>1. kept \in Seq(Bytes) /\ rest \in Seq(Bytes)
    BY <1>3, <1>4
  <2> QED BY <2>1, ConcatProperties
<1>6. /\ whole \in Seq(Bytes)
      /\ Len(whole) = IF offset + Len(bytes) <= Len(d) THEN Len(d) ELSE offset + Len(bytes)
      /\ \A i \in 1 .. Len(whole) : whole[i] = IF i <= offset THEN d[i]
                                               ELSE IF i <= offset + Len(bytes) THEN bytes[i - offset]
                                               ELSE d[i]
  BY OverwriteRight, OverwriteAt
<1> HIDE DEF whole, both
<1>7. Len(both) = Len(whole) /\ Len(both) = Len(d) + Len(bytes) - n /\ Len(both) \in Nat
  <2>1. Len(both) = Len(d) + (Len(bytes) - n)
    BY <1>3, <1>4, <1>5
  <2>2. CASE n = Len(bytes)
    <3>1. Len(whole) = Len(d)
      BY <1>6, <2>2
    <3> QED BY <1>1, <2>1, <2>2, <3>1
  <2>3. CASE n < Len(bytes)
    <3>1. offset + n = Len(d) /\ ~(offset + Len(bytes) <= Len(d))
      BY <1>1, <2>3
    <3>2. Len(whole) = offset + Len(bytes)
      BY <1>6, <3>1
    <3> QED BY <1>1, <2>1, <3>1, <3>2, SMTT(30)
  <2> QED BY <1>1, <2>2, <2>3
<1>8. ASSUME NEW i \in 1 .. Len(both) PROVE both[i] = whole[i]
  <2>1. i \in 1 .. Len(whole) /\ i \in Nat
    BY <1>7
  <2>2. whole[i] = IF i <= offset THEN d[i]
                   ELSE IF i <= offset + Len(bytes) THEN bytes[i - offset] ELSE d[i]
    BY <1>6, <2>1
  <2>3. CASE i <= Len(d)
    <3>1. both[i] = kept[i]
      BY <1>1, <1>3, <1>4, <1>5, <1>7, <2>3
    <3>2. kept[i] = IF i <= offset THEN d[i]
                    ELSE IF i <= offset + n THEN bytes[i - offset] ELSE d[i]
      BY <1>4, <2>1, <2>3
    <3>3. ~(i <= offset + n) => ~(i <= offset + Len(bytes))
      BY <1>1, <2>1, <2>3
    <3> QED BY <1>1, <2>2, <2>1, <3>1, <3>2, <3>3
  <2>4. CASE ~(i <= Len(d))
    <3>1. both[i] = rest[i - Len(d)]
      BY <1>1, <1>3, <1>4, <1>5, <1>7, <2>4
    <3>2. n < Len(bytes) /\ offset + n = Len(d) /\ i - Len(d) \in 1 .. Len(bytes) - n
      BY <1>1, <1>7, <2>1, <2>4
    <3>3. rest[i - Len(d)] = bytes[n + (i - Len(d))]
      BY <1>3, <3>2
    <3>5. n + (i - Len(d)) = i - offset
      BY <1>1, <2>1, <3>2, SMTT(30)
    <3>4. ~(i <= offset) /\ i <= offset + Len(bytes)
      BY <1>1, <2>1, <2>4, <3>2
    <3> QED BY <2>2, <3>1, <3>3, <3>4, <3>5
  <2> QED BY <2>3, <2>4
<1>9. both = whole
  BY <1>5, <1>6, <1>7, <1>8, SeqEqual
<1> QED BY <1>9 DEF both, whole, kept, rest

-----------------------------------------------------------------------------
(* Lemmas about what a call leaves on flash *)

(* With room on flash spiffs_hydro_write does what it was asked to.        *)
LEMMA HydroExact ==
  ASSUME NEW s \in StateType, NEW f \in Fds, s.fd[f].obj # None, SizesRight(s), ~MayFill,
         NEW offset \in Nat, NEW bytes \in Seq(Bytes), offset + Len(bytes) <= MaxSize,
         offset <= Len(s.data[s.fd[f].obj]), NEW w \in HydroWrite(s, f, offset, bytes)
  PROVE  /\ w.ok
         /\ w.state.data = [s.data EXCEPT ![s.fd[f].obj] =
                               Overwrite(s.data[s.fd[f].obj], offset, bytes)]
<1> DEFINE o == s.fd[f].obj
           d == s.data[o]
           size == s.fd[f].size
           n == Inside(size, offset, Len(bytes))
           at == Behind(size, offset, Len(bytes))
           rest == Rest(bytes, n)
           kept == Kept(d, offset, bytes, n)
           modified == Modified(s, o, offset, bytes, n)
           whole == Overwrite(d, offset, bytes)
<1>1. /\ o \in Objs /\ d \in Seq(Bytes) /\ Len(d) \in Nat /\ size \in Size /\ Len(bytes) \in Nat
      /\ Length(size) = Len(d) /\ s.data \in [Objs -> Content]
      /\ s = [data |-> s.data, fd |-> s.fd, page |-> s.page]
      /\ offset \in 0 .. Len(d)
  <2>1. /\ s.fd[f] \in FdType /\ s.data \in [Objs -> Content]
        /\ s = [data |-> s.data, fd |-> s.fd, page |-> s.page]
    BY DEF StateType
  <2>2. o \in Objs /\ size \in Size
    BY <2>1 DEF FdType
  <2>3. d \in Seq(Bytes) /\ Len(d) \in Nat
    BY <2>1, <2>2, ContentIs, LenProperties
  <2> QED BY <2>1, <2>2, <2>3, LenProperties DEF SizesRight, Agrees
<1>2. /\ n \in 0 .. Len(bytes)
      /\ size = Undefined => n = 0 /\ at = offset
      /\ size # Undefined /\ n < Len(bytes) => at = size
  <2> HIDE DEF o, d, size
  <2> QED BY <1>1, InsideRight
<1>3. offset + n <= Len(d) /\ (n < Len(bytes) => offset + n = Len(d)) /\ (n > 0 => Len(d) > 0)
  <2>1. CASE size = Undefined
    <3>1. Len(d) = 0 /\ n = 0 /\ offset = 0
      BY <1>1, <1>2, <2>1 DEF Length
    <3> HIDE DEF d, n
    <3> QED BY <3>1
  <2>2. CASE size # Undefined
    <3>1. size = Len(d)
      BY <1>1, <2>2 DEF Length
    <3>2. n = IF offset < Len(d) THEN Least(Len(d) - offset, Len(bytes)) ELSE 0
      BY <1>1, <3>1 DEF Inside
    <3> HIDE DEF n, d
    <3> QED BY <1>1, <3>2 DEF Least
  <2> QED BY <2>1, <2>2
<1>4. kept \o rest = whole
  <2> HIDE DEF o, d, size, n
  <2> QED BY <1>1, <1>2, <1>3, OverwriteInTwo
<1>5. /\ modified.data = [s.data EXCEPT ![o] = kept] /\ modified.fd = s.fd
      /\ modified = [data |-> modified.data, fd |-> s.fd, page |-> s.page]
  <2>1. CASE n = 0
    <3>1. modified = s /\ kept = d
      BY <2>1 DEF Modified, Kept
    <3> HIDE DEF modified, kept, o
    <3>2. s.data = [s.data EXCEPT ![o] = s.data[o]]
      BY <1>1
    <3> QED BY <1>1, <3>1, <3>2
  <2>2. CASE n # 0
    <3>1. modified = [s EXCEPT !.data[o] = kept]
      BY <2>2 DEF Modified, Kept
    <3> HIDE DEF modified, kept, o
    <3> QED BY <1>1, <3>1
  <2> QED BY <2>1, <2>2
<1>6. HydroOutcome(s, w, d, n, at, rest, modified, f, o)
  BY HydroCases
<1>7. kept \in Seq(Bytes)
  <2>1. SubSeq(bytes, 1, n) \in Seq(Bytes) /\ Len(SubSeq(bytes, 1, n)) = n
    <3>1. \A i \in 1 .. n : bytes[i] \in Bytes
      BY <1>1, <1>2, ElementOfSeq
    <3> QED BY <1>1, <1>2, <3>1, SubSeqProperties
  <2> HIDE DEF n, d
  <2> QED BY <1>1, <2>1, OverwriteRight DEF Kept
<1>8. ~(n > 0 /\ d = <<>>)
  BY <1>3, EmptySeq
<1>9. CASE w = Outcome(modified, TRUE) /\ rest = <<>>
  <2>1. kept \o <<>> = kept
    BY <1>7, EmptySeq, ConcatProperties
  <2>2. whole = kept
    BY <1>4, <1>9, <2>1
  <2>3. w.ok = TRUE /\ w.state = modified
    BY <1>9 DEF Outcome
  <2> QED BY <1>5, <2>2, <2>3
<1>10. CASE w = Outcome(modified, FALSE) /\ d = <<>> /\ at > 0 /\ rest # <<>>
  <2>1. Len(d) = 0 /\ Length(size) = 0 /\ offset = 0
    BY <1>1, <1>10, EmptySeq
  <2>2. size = Undefined \/ size = 0
    BY <2>1 DEF Length
  <2>3. n < Len(bytes)
    <3>1. n # Len(bytes)
      <4>1. ASSUME n = Len(bytes) PROVE rest = <<>>
        <5>1. \A i \in n + 1 .. Len(bytes) : bytes[i] \in Bytes
          BY <1>1, <1>2, ElementOfSeq
        <5>2. rest \in Seq(Bytes) /\ Len(rest) = IF n + 1 <= Len(bytes) THEN Len(bytes) - (n + 1) + 1 ELSE 0
          BY <1>1, <1>2, <5>1, SubSeqProperties DEF Rest
        <5> HIDE DEF rest
        <5> QED BY <1>1, <4>1, <5>2, EmptySeq
      <4> QED BY <1>10, <4>1
    <3> QED BY <1>1, <1>2, <3>1
  <2> QED BY <1>2, <1>10, <2>1, <2>2, <2>3
<1>11. CASE w = Outcome(Appended(modified, o, at, rest), TRUE)
  <2> DEFINE more == [modified EXCEPT !.data[o] = @ \o rest]
  <2> HIDE DEF o
  <2>1. more.data = [s.data EXCEPT ![o] = whole]
    <3>1. modified.data[o] = kept
      BY <1>1, <1>5
    <3> HIDE DEF modified, kept, whole, rest
    <3>2. more.data = [modified.data EXCEPT ![o] = kept \o rest]
      BY <1>5, <3>1
    <3>3. [modified.data EXCEPT ![o] = whole] = [s.data EXCEPT ![o] = whole]
      BY <1>1, <1>5
    <3> QED BY <1>4, <3>2, <3>3
  <2>2. more = [data |-> more.data, fd |-> s.fd, page |-> s.page]
    <3> HIDE DEF modified, rest
    <3> QED BY <1>5, SMTT(30)
  <2>3. w.ok = TRUE /\ w.state = Announce(more, o, at + Len(rest))
    BY <1>11 DEF Outcome, Appended
  <2> HIDE DEF more
  <2>4. w.state.data = more.data
    BY <2>2, <2>3 DEF Announce
  <2> QED BY <2>1, <2>3, <2>4 DEF whole, o
<1> QED BY <1>6, <1>8, <1>9, <1>10, <1>11 DEF HydroOutcome

(* View, of the state a call has reached.                                  *)
Under(s, o, P) ==
    LET p == CHOOSE p \in P : TRUE
    IN  IF P = {} THEN s.data[o] ELSE Overwrite(s.data[o], s.page[p].offset, s.page[p].bytes)
ViewOf(s, o) == Under(s, o, {p \in Pages : s.page[p].obj = o})

LEMMA ViewWithout ==
  ASSUME NEW s, NEW o, NoPage(s, o)
  PROVE  ViewOf(s, o) = s.data[o]
BY DEF ViewOf, Under, NoPage

LEMMA ViewWith ==
  ASSUME NEW s, OnePage(s), NEW p \in Pages, NEW o, s.page[p].obj = o, o # None
  PROVE  ViewOf(s, o) = Overwrite(s.data[o], s.page[p].offset, s.page[p].bytes)
<1>1. {q \in Pages : s.page[q].obj = o} = {p}
  BY DEF OnePage
<1>2. (CHOOSE q \in {p} : TRUE) = p
  OBVIOUS
<1> QED BY <1>1, <1>2 DEF ViewOf, Under

(* A file whose bytes and page are as they were is as it was.              *)
LEMMA ViewSame ==
  ASSUME NEW s, NEW t, NEW o, t.data[o] = s.data[o],
         \A q \in Pages : (t.page[q].obj = o) <=> (s.page[q].obj = o),
         \A q \in Pages : s.page[q].obj = o =>
             t.page[q].offset = s.page[q].offset /\ t.page[q].bytes = s.page[q].bytes
  PROVE  ViewOf(t, o) = ViewOf(s, o)
<1> DEFINE P == {q \in Pages : s.page[q].obj = o}
           p == CHOOSE q \in P : TRUE
<1>1. {q \in Pages : t.page[q].obj = o} = P
  OBVIOUS
<1>2. ViewOf(t, o) = Under(t, o, P) /\ ViewOf(s, o) = Under(s, o, P)
  BY <1>1 DEF ViewOf
<1>3. P # {} => p \in P
  OBVIOUS
<1>4. P # {} => t.page[p].offset = s.page[p].offset /\ t.page[p].bytes = s.page[p].bytes
  BY <1>3
<1>5. Under(t, o, P) = Under(s, o, P)
  <2> HIDE DEF P
  <2> QED BY <1>4 DEF Under
<1> QED BY <1>2, <1>5

(* With room on flash a file reaches as far as its bytes, its page and its *)
(* descriptors.                                                            *)
LEMMA ViewRight ==
  ASSUME NEW s, Good(s), ~MayFill, NEW o \in Objs
  PROVE  /\ ViewOf(s, o) \in Seq(Bytes) /\ Len(ViewOf(s, o)) \in Nat
         /\ \A i \in Nat : Reached(s, o, i) => i <= Len(ViewOf(s, o))
         /\ \A f \in Fds : s.fd[f].obj = o => s.fd[f].offset \in 0 .. Len(ViewOf(s, o))
<1>1. /\ s \in StateType /\ OnePage(s) /\ Reach(s) /\ o # None
  BY NoneAssumption DEF Good
<1>2. /\ s.data[o] \in Seq(Bytes) /\ Len(s.data[o]) \in Nat
      /\ \A f \in Fds : s.fd[f].offset \in Nat
      /\ \A p \in Pages : /\ s.page[p].offset \in Nat /\ s.page[p].bytes \in Seq(Bytes)
                          /\ Len(s.page[p].bytes) \in Nat
  BY <1>1, ContentIs, LenProperties, SizesAssumption DEF StateType, FdType, PageType, Position
<1>3. /\ ViewOf(s, o) \in Seq(Bytes) /\ Len(ViewOf(s, o)) \in Nat
      /\ \A i \in Nat : Reached(s, o, i) => i <= Len(ViewOf(s, o))
  <2>1. CASE NoPage(s, o)
    BY <1>2, <2>1, ViewWithout DEF Reached, NoPage
  <2>2. CASE ~NoPage(s, o)
    <3>1. PICK p \in Pages : s.page[p].obj = o
      BY <2>2 DEF NoPage
    <3>2. s.page[p].offset \in 0 .. Len(s.data[o])
      BY <1>1, <1>2, <3>1 DEF Reach
    <3> DEFINE d == s.data[o]
               k == s.page[p].offset
               b == s.page[p].bytes
               v == Overwrite(d, k, b)
    <3>3. ViewOf(s, o) = v
      BY <1>1, <3>1, ViewWith
    <3>4. v \in Seq(Bytes) /\ Len(v) = IF k + Len(b) <= Len(d) THEN Len(d) ELSE k + Len(b)
      BY <1>2, <3>2, OverwriteRight
    <3>5. \A i : Reached(s, o, i) => i <= Len(d) \/ i <= k + Len(b)
      BY <1>1, <3>1 DEF Reached, OnePage
    <3>6. Len(d) \in Nat /\ k \in Nat /\ Len(b) \in Nat
      BY <1>2
    <3> HIDE DEF d, k, b, v
    <3>7. Len(v) \in Nat /\ Len(d) <= Len(v) /\ k + Len(b) <= Len(v)
      BY <3>4, <3>6
    <3>8. \A i \in Nat : Reached(s, o, i) => i <= Len(v)
      BY <3>5, <3>6, <3>7
    <3> QED BY <3>3, <3>4, <3>7, <3>8
  <2> QED BY <2>1, <2>2
<1> QED
  BY <1>1, <1>2, <1>3 DEF Reach

(* What a flush puts on flash, and that nobody sees it.                    *)
LEMMA FlushExact ==
  ASSUME NEW s, Good(s), ~MayFill, NEW f \in Fds, s.fd[f].obj # None, NEW w \in Flush(s, f)
  PROVE  /\ w.ok
         /\ w.state.data[s.fd[f].obj] = ViewOf(s, s.fd[f].obj)
         /\ \A r \in Objs \ {s.fd[f].obj} : w.state.data[r] = s.data[r]
         /\ \A q \in Pages : w.state.page[q] = IF s.page[q].obj = s.fd[f].obj THEN FreePage
                                               ELSE s.page[q]
         /\ \A r \in Objs : ViewOf(w.state, r) = ViewOf(s, r)
<1> DEFINE o == s.fd[f].obj
<1>1. s \in StateType /\ SizesRight(s) /\ OnePage(s) /\ Reach(s) /\ PagesFit(s) /\ o \in Objs
  BY DEF Good, StateType, FdType
<1>2. Flushed(s, f, w)
  BY FlushGood
<1>3. w.ok /\ NoPage(w.state, o)
  BY <1>2 DEF Flushed
<1>4. /\ w.state.data[o] = ViewOf(s, o)
      /\ \A r \in Objs \ {o} : w.state.data[r] = s.data[r]
      /\ \A q \in Pages : w.state.page[q] = IF s.page[q].obj = o THEN FreePage ELSE s.page[q]
  <2>1. CASE PageOf(s, f) = None
    <3>1. w = Outcome(s, TRUE) /\ NoPage(s, o)
      BY <2>1, PageOfRight DEF Flush
    <3>2. w.state = s
      BY <3>1 DEF Outcome
    <3> HIDE DEF o
    <3> QED BY <3>1, <3>2, ViewWithout DEF NoPage
  <2>2. CASE PageOf(s, f) # None
    <3> DEFINE p == PageOf(s, f)
    <3>1. p \in Pages /\ s.page[p].obj = o /\ w \in Dump(s, f, p)
      BY <2>2, PageOfRight DEF Flush
    <3> HIDE DEF p
    <3> DEFINE offset == s.page[p].offset
               bytes == s.page[p].bytes
    <3>2. PICK v \in HydroWrite(s, f, offset, bytes) : w = Outcome(Release(v.state, p), v.ok)
      BY <3>1 DEF Dump
    <3>3. /\ offset \in Nat /\ bytes \in Seq(Bytes) /\ offset + Len(bytes) <= MaxSize
          /\ offset <= Len(s.data[o])
      <4>1. s.page[p] \in PageType
        BY <1>1, <3>1 DEF StateType
      <4> QED
        BY <1>1, <3>1, <4>1, ContentIs, SizesAssumption DEF PageType, Position, PagesFit, Reach
    <3> HIDE DEF offset, bytes
    <3>4. /\ v.state.data = [s.data EXCEPT ![o] = Overwrite(s.data[o], offset, bytes)]
      BY <1>1, <3>3, HydroExact
    <3>5. v.state \in StateType /\ SameUse(s, v.state)
      BY <1>1, <3>3, HydroShape
    <3>6. v.state.page = s.page
      BY <3>5 DEF SameUse
    <3>7. /\ w.state.data = v.state.data
          /\ w.state.page = [s.page EXCEPT ![p] = FreePage]
      <4> DEFINE u == v.state
                 fds == [g \in Fds |-> IF u.fd[g].obj # None /\ u.fd[g].page = p
                                         THEN [u.fd[g] EXCEPT !.page = None] ELSE u.fd[g]]
      <4>1. w.state = [u EXCEPT !.page[p] = FreePage, !.fd = fds]
        BY <3>2 DEF Outcome, Release
      <4>2. u = [data |-> u.data, fd |-> u.fd, page |-> u.page]
        BY <3>5 DEF StateType
      <4> HIDE DEF fds, u
      <4>3. w.state.data = u.data /\ w.state.page = [u.page EXCEPT ![p] = FreePage]
        BY <4>1, <4>2
      <4> QED BY <3>6, <4>3 DEF u
    <3>8. ViewOf(s, o) = Overwrite(s.data[o], offset, bytes)
      BY <1>1, <3>1, ViewWith DEF offset, bytes
    <3>9. s.data \in [Objs -> Content] /\ s.page \in [Pages -> PageType]
      BY <1>1 DEF StateType
    <3>10. \A q \in Pages : s.page[q].obj = o <=> q = p
      BY <1>1, <3>1 DEF OnePage
    <3> HIDE DEF o
    <3> QED BY <1>1, <3>4, <3>7, <3>8, <3>9, <3>10
  <2> QED BY <2>1, <2>2
<1>5. ASSUME NEW r \in Objs PROVE ViewOf(w.state, r) = ViewOf(s, r)
  <2>1. CASE r = o
    BY <1>3, <1>4, <2>1, ViewWithout
  <2>2. CASE r # o
    <3>1. FreePage.obj # r
      BY NoneAssumption DEF FreePage
    <3> HIDE DEF o
    <3> QED BY <1>4, <2>2, <3>1, ViewSame
  <2> QED BY <2>1, <2>2
<1> QED BY <1>3, <1>4, <1>5

-----------------------------------------------------------------------------
(* Lemmas about what a write leaves *)

(* Only descriptor f has moved, to x.                                      *)
Moves(s, t, f, x) == \A g \in Fds :
    /\ t.fd[g].obj = s.fd[g].obj /\ t.fd[g].flags = s.fd[g].flags
    /\ t.fd[g].offset = IF g = f THEN x ELSE s.fd[g].offset

LEMMA AdvanceShape ==
  ASSUME NEW s \in StateType, NEW f \in Fds, NEW n, NEW t, t = Advance(s, f, n)
  PROVE  t.data = s.data /\ t.page = s.page /\ Moves(s, t, f, s.fd[f].offset + n)
<1>1. /\ s = [data |-> s.data, fd |-> s.fd, page |-> s.page] /\ s.fd \in [Fds -> FdType]
  BY DEF StateType
<1>2. t = [data |-> s.data, fd |-> [s.fd EXCEPT ![f].offset = @ + n], page |-> s.page]
  BY <1>1 DEF Advance
<1>3. \A g \in Fds : t.fd[g] = IF g = f THEN [s.fd[f] EXCEPT !.offset = s.fd[f].offset + n]
                               ELSE s.fd[g]
  BY <1>1, <1>2
<1>4. \A g \in Fds : s.fd[g] \in FdType
  BY <1>1
<1> DEFINE x == s.fd[f].offset + n
<1> HIDE DEF x
<1>5. \A g \in Fds : t.fd[g] = IF g = f THEN [s.fd[f] EXCEPT !.offset = x] ELSE s.fd[g]
  BY <1>3 DEF x
<1>6. Moves(s, t, f, x)
  BY <1>4, <1>5 DEF Moves, FdType
<1> QED BY <1>2, <1>6 DEF x

(* The bytes of a small write are in the page that took them.              *)
StoredBy(s, t, f, p, bytes) ==
    /\ t.data = s.data
    /\ Moves(s, t, f, s.fd[f].offset + Len(bytes))
    /\ \A q \in Pages :
          /\ t.page[q].obj = s.page[q].obj /\ t.page[q].offset = s.page[q].offset
          /\ t.page[q].bytes =
                IF q = p THEN Overwrite(s.page[p].bytes, s.fd[f].offset - s.page[p].offset, bytes)
                ELSE s.page[q].bytes

LEMMA StoreShape ==
  ASSUME NEW s \in StateType, NEW f \in Fds, NEW p \in Pages, NEW bytes
  PROVE  StoredBy(s, Store(s, f, p, bytes), f, p, bytes)
<1> DEFINE t == Store(s, f, p, bytes)
<1> DEFINE mixed == Overwrite(s.page[p].bytes, s.fd[f].offset - s.page[p].offset, bytes)
           x == s.fd[f].offset + Len(bytes)
           u == [s EXCEPT !.fd[f].page = p,
                          !.page[p].bytes = Overwrite(@, s.fd[f].offset - s.page[p].offset, bytes)]
<1>1. /\ s = [data |-> s.data, fd |-> s.fd, page |-> s.page]
      /\ s.fd \in [Fds -> FdType] /\ s.page \in [Pages -> PageType]
  BY DEF StateType
<1>2. u = [s EXCEPT !.fd[f].page = p, !.page[p].bytes = mixed]
  OBVIOUS
<1>3. t = [u EXCEPT !.fd[f].offset = @ + Len(bytes)]
  BY DEF Store, Advance
<1> HIDE DEF u, mixed, t
<1>4. u = [data |-> s.data, fd |-> [s.fd EXCEPT ![f].page = p],
           page |-> [s.page EXCEPT ![p].bytes = mixed]]
  BY <1>1, <1>2
<1>5. /\ u.fd = [s.fd EXCEPT ![f].page = p] /\ u.fd[f] = [s.fd[f] EXCEPT !.page = p]
      /\ u.fd[f].offset = s.fd[f].offset
  BY <1>1, <1>4 DEF FdType
<1>6. t = [data |-> s.data, fd |-> [u.fd EXCEPT ![f].offset = x],
           page |-> [s.page EXCEPT ![p].bytes = mixed]]
  BY <1>3, <1>4, <1>5
<1> HIDE DEF x
<1>7. Moves(s, t, f, x)
  BY <1>1, <1>5, <1>6 DEF Moves, FdType
<1>8. \A q \in Pages :
               /\ t.page[q].obj = s.page[q].obj /\ t.page[q].offset = s.page[q].offset
               /\ t.page[q].bytes = IF q = p THEN mixed ELSE s.page[q].bytes
  BY <1>1, <1>6 DEF PageType
<1> QED BY <1>6, <1>7, <1>8 DEF mixed, x, t, StoredBy

(* A write that is not cached is on flash.                                 *)
LEMMA DirectExact ==
  ASSUME NEW s, Good(s), ~MayFill, NEW f \in Fds, s.fd[f].obj # None,
         NoPage(s, s.fd[f].obj), NEW bytes \in Seq(Bytes),
         s.fd[f].offset + Len(bytes) <= MaxSize, NEW w \in Direct(s, f, bytes)
  PROVE  /\ w.ok
         /\ w.state.page = s.page /\ Moves(s, w.state, f, s.fd[f].offset + Len(bytes))
         /\ w.state.data = [s.data EXCEPT ![s.fd[f].obj] =
                               Overwrite(s.data[s.fd[f].obj], s.fd[f].offset, bytes)]
<1> DEFINE offset == s.fd[f].offset
<1>1. s \in StateType /\ SizesRight(s) /\ offset \in Nat
  BY SizesAssumption DEF Good, StateType, FdType, Position
<1>2. PICK v \in HydroWrite(s, f, offset, bytes) :
        w = Outcome(IF v.ok THEN Advance(v.state, f, Len(bytes)) ELSE v.state, v.ok)
  BY DEF Direct
<1>3. /\ v.ok /\ v.state \in StateType /\ SameUse(s, v.state)
      /\ v.state.data = [s.data EXCEPT ![s.fd[f].obj] = Overwrite(s.data[s.fd[f].obj], offset, bytes)]
  <2>1. offset <= Len(s.data[s.fd[f].obj])
    BY StandsOnFlash
  <2>2. offset + Len(bytes) <= MaxSize
    OBVIOUS
  <2> HIDE DEF offset
  <2>3. /\ v.ok
        /\ v.state.data = [s.data EXCEPT ![s.fd[f].obj] = Overwrite(s.data[s.fd[f].obj], offset, bytes)]
    BY <1>1, <2>1, <2>2, HydroExact
  <2>4. v.state \in StateType /\ SameUse(s, v.state)
    BY <1>1, <2>1, <2>2, HydroShape
  <2> QED BY <2>3, <2>4
<1>4. w.ok /\ w.state = Advance(v.state, f, Len(bytes))
  BY <1>2, <1>3 DEF Outcome
<1>5. /\ w.state.data = v.state.data /\ w.state.page = v.state.page
      /\ Moves(v.state, w.state, f, v.state.fd[f].offset + Len(bytes))
  BY <1>3, <1>4, AdvanceShape
<1>6. v.state.page = s.page /\ v.state.fd[f].offset = offset
  BY <1>3 DEF SameUse
<1>7. Moves(s, w.state, f, offset + Len(bytes))
  <2> HIDE DEF offset
  <2> QED BY <1>3, <1>5, <1>6 DEF Moves, SameUse
<1> QED BY <1>3, <1>4, <1>5, <1>6, <1>7

(* A small write to a file without a page is on flash, or in a new page.   *)
LEMMA CacheExact ==
  ASSUME NEW s, Good(s), ~MayFill, NEW f \in Fds, s.fd[f].obj # None,
         NoPage(s, s.fd[f].obj), NEW bytes \in Seq(Bytes),
         s.fd[f].offset + Len(bytes) <= MaxSize, NEW w \in Cache(s, f, bytes)
  PROVE  \/ w \in Direct(s, f, bytes)
         \/ /\ w.ok /\ w.state.data = s.data
            /\ Moves(s, w.state, f, s.fd[f].offset + Len(bytes))
            /\ \E p \in Pages :
                  /\ s.page[p].obj = None
                  /\ w.state.page[p].obj = s.fd[f].obj
                  /\ w.state.page[p].offset = s.fd[f].offset
                  /\ w.state.page[p].bytes = bytes
                  /\ \A q \in Pages \ {p} : /\ w.state.page[q].obj = s.page[q].obj
                                            /\ w.state.page[q].offset = s.page[q].offset
                                            /\ w.state.page[q].bytes = s.page[q].bytes
<1> DEFINE new == [obj |-> s.fd[f].obj, offset |-> s.fd[f].offset, bytes |-> <<>>]
<1>1. PICK p \in Available(s) :
        w \in IF p = None THEN Direct(s, f, bytes)
              ELSE {Outcome(Store([s EXCEPT !.page[p] = new], f, p, bytes), TRUE)}
  BY DEF Cache
<1>2. CASE p # None
  <2> DEFINE u == [s EXCEPT !.page[p] = new]
             t == w.state
  <2>1. p \in Pages /\ s.page[p].obj = None
    BY <1>2 DEF Available, When
  <2>2. /\ s.page \in [Pages -> PageType] /\ s.fd \in [Fds -> FdType] /\ s.fd[f].obj \in Objs
        /\ s.fd[f].offset \in Position /\ s.data \in [Objs -> Content]
        /\ s = [data |-> s.data, fd |-> s.fd, page |-> s.page]
    BY DEF Good, StateType, FdType
  <2>3. new \in PageType
    <3>1. <<>> \in Content
      BY ContentIs, EmptySeq, SizesAssumption
    <3> QED BY <2>2, <3>1 DEF PageType
  <2>4. new.obj = s.fd[f].obj /\ new.offset = s.fd[f].offset /\ new.bytes = <<>>
    OBVIOUS
  <2>5. u = [data |-> s.data, fd |-> s.fd, page |-> [s.page EXCEPT ![p] = new]]
    <3> HIDE DEF new
    <3> QED BY <2>2, SMTT(30)
  <2>6. t = Store(u, f, p, bytes) /\ w.ok
    BY <1>1, <1>2 DEF Outcome
  <2> HIDE DEF new, u, t
  <2>7. u \in StateType /\ u.fd = s.fd /\ u.data = s.data
        /\ \A q \in Pages : u.page[q] = IF q = p THEN new ELSE s.page[q]
    BY <2>1, <2>2, <2>3, <2>5 DEF StateType
  <2>8. /\ t.data = s.data
        /\ Moves(u, t, f, s.fd[f].offset + Len(bytes))
        /\ \A q \in Pages :
              /\ t.page[q].obj = u.page[q].obj /\ t.page[q].offset = u.page[q].offset
              /\ t.page[q].bytes =
                   IF q = p THEN Overwrite(u.page[p].bytes, u.fd[f].offset - u.page[p].offset, bytes)
                   ELSE u.page[q].bytes
    <3>1. StoredBy(u, t, f, p, bytes)
      BY <2>1, <2>6, <2>7, StoreShape
    <3>2. u.data = s.data /\ u.fd[f].offset = s.fd[f].offset
      BY <2>7
    <3> QED BY <3>1, <3>2 DEF StoredBy
  <2>9. Moves(s, t, f, s.fd[f].offset + Len(bytes))
    <3> DEFINE x == s.fd[f].offset + Len(bytes)
    <3> HIDE DEF x
    <3>1. Moves(u, t, f, x)
      BY <2>8 DEF x
    <3>2. Moves(s, t, f, x)
      BY <2>7, <3>1 DEF Moves
    <3> QED BY <3>2 DEF x
  <2>10. t.page[p].bytes = bytes
    <3>1. t.page[p].bytes = Overwrite(<<>>, s.fd[f].offset - s.fd[f].offset, bytes)
      BY <2>1, <2>4, <2>7, <2>8
    <3>2. s.fd[f].offset - s.fd[f].offset = 0
      BY <2>2, SizesAssumption DEF Position
    <3> QED BY <3>1, <3>2, OverwriteNothing
  <2>11. /\ t.page[p].obj = s.fd[f].obj /\ t.page[p].offset = s.fd[f].offset
    BY <2>1, <2>4, <2>7, <2>8
  <2>12. \A q \in Pages \ {p} : /\ t.page[q].obj = s.page[q].obj
                                /\ t.page[q].offset = s.page[q].offset
                                /\ t.page[q].bytes = s.page[q].bytes
    BY <2>7, <2>8
  <2> QED BY <2>1, <2>6, <2>8, <2>9, <2>10, <2>11, <2>12 DEF t
<1> QED BY <1>1, <1>2

(* A page that a call gave up has its bytes on flash, but for those that a *)
(* descriptor passed over.                                                 *)
PassedBy(s, t, o, i) == \E f \in Fds : s.fd[f].obj = o /\ i \in s.fd[f].offset + 1 .. t.fd[f].offset
HandedOver(s, t, p) ==
    LET o == s.page[p].obj
        last == s.page[p].offset + Len(s.page[p].bytes)
    IN  /\ last <= Len(t.data[o])
        /\ \A i \in s.page[p].offset + 1 .. last :
              PassedBy(s, t, o, i) \/ t.data[o][i] = s.page[p].bytes[i - s.page[p].offset]
Delivered(s, t) == \A p \in Pages :
    s.page[p].obj # None /\ t.page[p].obj = None => HandedOver(s, t, p)

(* The bytes of a page, seen in its file.                                  *)
LEMMA PageInView ==
  ASSUME NEW s, Good(s), ~MayFill, NEW p \in Pages, s.page[p].obj # None
  PROVE  LET o == s.page[p].obj
             last == s.page[p].offset + Len(s.page[p].bytes)
         IN  /\ last <= Len(ViewOf(s, o)) /\ last \in Nat /\ s.page[p].offset \in Nat
             /\ \A i \in s.page[p].offset + 1 .. last :
                   ViewOf(s, o)[i] = s.page[p].bytes[i - s.page[p].offset]
<1> DEFINE o == s.page[p].obj
           d == s.data[o]
           k == s.page[p].offset
           b == s.page[p].bytes
<1>1. s \in StateType /\ OnePage(s) /\ Reach(s)
  BY DEF Good
<1>2. o \in Objs /\ d \in Seq(Bytes) /\ Len(d) \in Nat /\ k \in 0 .. Len(d) /\ b \in Seq(Bytes)
      /\ Len(b) \in Nat
  <2>1. o \in Objs /\ d \in Seq(Bytes) /\ Len(d) \in Nat /\ b \in Seq(Bytes) /\ Len(b) \in Nat
    BY <1>1, ContentIs, LenProperties DEF StateType, PageType
  <2>2. k \in Nat
    BY <1>1, SizesAssumption DEF StateType, PageType, Position
  <2>3. k <= Len(d)
    BY <1>1 DEF Reach
  <2> QED BY <2>1, <2>2, <2>3
<1>3. ViewOf(s, o) = Overwrite(d, k, b)
  BY <1>1, ViewWith
<1> HIDE DEF o, d, k, b
<1> DEFINE v == Overwrite(d, k, b)
<1>4. v \in Seq(Bytes) /\ Len(v) = IF k + Len(b) <= Len(d) THEN Len(d) ELSE k + Len(b)
  BY <1>2, OverwriteRight
<1>5. \A i \in 1 .. Len(v) : v[i] = IF i <= k THEN d[i] ELSE IF i <= k + Len(b) THEN b[i - k] ELSE d[i]
  BY <1>2, OverwriteAt
<1> HIDE DEF v
<1>6. k + Len(b) <= Len(v) /\ k \in Nat /\ k + Len(b) \in Nat /\ Len(v) \in Nat
  BY <1>2, <1>4
<1>7. \A i \in k + 1 .. k + Len(b) : v[i] = b[i - k]
  BY <1>2, <1>5, <1>6
<1> QED BY <1>3, <1>6, <1>7 DEF v, o, k, b

(* After a flush every byte of the page is on flash, and stays there but   *)
(* where the descriptor writes.                                            *)
ViewStays(s, u, t, f, o, v) ==
    /\ o = s.fd[f].obj /\ v = ViewOf(s, o)
    /\ \A q \in Pages : t.page[q].obj = None => u.page[q].obj = None
    /\ Len(t.data[o]) \in Nat /\ Len(v) <= Len(t.data[o])
    /\ \A i \in 1 .. Len(v) :
          i \in s.fd[f].offset + 1 .. t.fd[f].offset \/ t.data[o][i] = v[i]

LEMMA Delivers ==
  ASSUME NEW s, Good(s), ~MayFill, NEW f \in Fds, s.fd[f].obj # None, NEW w \in Flush(s, f),
         NEW t, NEW o, NEW v, ViewStays(s, w.state, t, f, o, v)
  PROVE  Delivered(s, t)
<1> USE DEF ViewStays
<1> SUFFICES ASSUME NEW p \in Pages, s.page[p].obj # None, t.page[p].obj = None
             PROVE  HandedOver(s, t, p)
  BY DEF Delivered
<1>1. w.state.page[p] = IF s.page[p].obj = o THEN FreePage ELSE s.page[p]
  BY FlushExact
<1>2. s.page[p].obj = o
  BY <1>1
<1> DEFINE k == s.page[p].offset
           last == k + Len(s.page[p].bytes)
<1>3. last <= Len(v) /\ last \in Nat /\ k \in Nat
  BY <1>2, PageInView
<1>4. \A i \in k + 1 .. last : v[i] = s.page[p].bytes[i - k]
  BY <1>2, PageInView
<1>5. Len(v) \in Nat
  <2>1. o \in Objs
    BY DEF Good, StateType, FdType
  <2> QED BY <2>1, ViewRight
<1> HIDE DEF last, k
<1>6. last <= Len(t.data[o])
  <2>1. Len(v) <= Len(t.data[o])
    OBVIOUS
  <2> QED BY <1>3, <1>5, <2>1
<1>7. ASSUME NEW i \in k + 1 .. last
      PROVE  PassedBy(s, t, o, i) \/ t.data[o][i] = s.page[p].bytes[i - k]
  <2>1. i \in 1 .. Len(v)
    BY <1>3, <1>5
  <2>2. i \in s.fd[f].offset + 1 .. t.fd[f].offset \/ t.data[o][i] = v[i]
    BY <2>1
  <2>3. v[i] = s.page[p].bytes[i - k]
    BY <1>4
  <2> QED BY <2>2, <2>3 DEF PassedBy
<1> QED BY <1>2, <1>6, <1>7 DEF HandedOver, last, k

(* A file is open once, and its descriptor stands at the end of its page.  *)
OneFd(s) == \A f, g \in Fds : s.fd[f].obj # None /\ s.fd[f].obj = s.fd[g].obj => f = g
AtEnd(s) == \A f \in Fds, p \in Pages : s.fd[f].obj # None /\ s.page[p].obj = s.fd[f].obj =>
    s.fd[f].offset = s.page[p].offset + Len(s.page[p].bytes)

(* What a write of bytes does for everybody.                               *)
Wrote(s, t, f, bytes) ==
    /\ Moves(s, t, f, s.fd[f].offset + Len(bytes))
    /\ \A r \in Objs : ViewOf(t, r) = IF r = s.fd[f].obj
                                        THEN Overwrite(ViewOf(s, r), s.fd[f].offset, bytes)
                                        ELSE ViewOf(s, r)
    /\ Delivered(s, t)
    /\ OneFd(s) /\ AtEnd(s) => AtEnd(t)

(* Into the page of the file.                                              *)
LEMMA StoreExact ==
  ASSUME NEW s, Good(s), ~MayFill, NEW f \in Fds, s.fd[f].obj # None,
         NEW p \in Pages, s.page[p].obj = s.fd[f].obj, NEW bytes \in Seq(Bytes),
         s.page[p].offset <= s.fd[f].offset,
         s.fd[f].offset <= s.page[p].offset + Len(s.page[p].bytes)
  PROVE  Wrote(s, Store(s, f, p, bytes), f, bytes)
<1> DEFINE o == s.fd[f].obj
           d == s.data[o]
           po == s.page[p].offset
           pb == s.page[p].bytes
           at == s.fd[f].offset
           k == at - po
           t == Store(s, f, p, bytes)
<1>1. s \in StateType /\ OnePage(s) /\ Reach(s) /\ o \in Objs
  BY DEF Good, StateType, FdType
<1>2. /\ d \in Seq(Bytes) /\ pb \in Seq(Bytes) /\ po \in 0 .. Len(d) /\ at \in Nat
      /\ Len(pb) \in Nat /\ Len(bytes) \in Nat
  <2>1. /\ d \in Seq(Bytes) /\ pb \in Seq(Bytes) /\ po \in Nat /\ at \in Nat /\ Len(d) \in Nat
    BY <1>1, ContentIs, LenProperties, SizesAssumption DEF StateType, FdType, PageType, Position
  <2>2. po <= Len(d)
    BY <1>1 DEF Reach
  <2> QED BY <2>1, <2>2, LenProperties
<1>3. k \in 0 .. Len(pb) /\ at = po + k
  BY <1>2, SMTT(30)
<1>4. StoredBy(s, t, f, p, bytes)
  BY <1>1, StoreShape
<1> HIDE DEF t
<1>5. /\ t.data = s.data /\ Moves(s, t, f, at + Len(bytes))
      /\ \A q \in Pages : t.page[q].obj = s.page[q].obj /\ t.page[q].offset = s.page[q].offset
      /\ t.page[p].bytes = Overwrite(pb, k, bytes)
      /\ \A q \in Pages \ {p} : t.page[q].bytes = s.page[q].bytes
  BY <1>4 DEF StoredBy
<1>6. OnePage(t)
  BY <1>1, <1>5 DEF OnePage
<1>7. ViewOf(t, o) = Overwrite(ViewOf(s, o), at, bytes)
  <2>1. ViewOf(s, o) = Overwrite(d, po, pb)
    BY <1>1, ViewWith
  <2>2. ViewOf(t, o) = Overwrite(t.data[o], t.page[p].offset, t.page[p].bytes)
    BY <1>5, <1>6, ViewWith
  <2>3. Overwrite(Overwrite(d, po, pb), at, bytes) = Overwrite(d, po, Overwrite(pb, k, bytes))
    <3> HIDE DEF d, po, pb, k, at
    <3> QED BY <1>2, <1>3, OverwriteTwice
  <2>4. t.data[o] = d /\ t.page[p].offset = po
    BY <1>5
  <2> QED BY <1>5, <2>1, <2>2, <2>3, <2>4
<1>8. ASSUME NEW r \in Objs, r # o PROVE ViewOf(t, r) = ViewOf(s, r)
  <2>1. \A q \in Pages : s.page[q].obj = r => q # p
    BY <1>8
  <2> HIDE DEF o
  <2> QED BY <1>5, <2>1, ViewSame
<1>9. Delivered(s, t)
  BY <1>5 DEF Delivered
<1>10. ASSUME OneFd(s), AtEnd(s) PROVE AtEnd(t)
  <2> SUFFICES ASSUME NEW g \in Fds, NEW q \in Pages, t.fd[g].obj # None, t.page[q].obj = t.fd[g].obj
               PROVE  t.fd[g].offset = t.page[q].offset + Len(t.page[q].bytes)
    BY DEF AtEnd
  <2>1. s.fd[g].obj # None /\ s.page[q].obj = s.fd[g].obj
    BY <1>5 DEF Moves
  <2>2. s.fd[g].offset = s.page[q].offset + Len(s.page[q].bytes)
    BY <1>10, <2>1 DEF AtEnd
  <2>3. CASE g = f
    <3>1. q = p
      BY <1>1, <2>1, <2>3 DEF OnePage
    <3>2. at = po + Len(pb) /\ t.fd[g].offset = at + Len(bytes) /\ t.page[q].offset = po
          /\ t.page[q].bytes = Overwrite(pb, k, bytes)
      BY <1>5, <2>2, <2>3, <3>1 DEF Moves
    <3> DEFINE n == Len(Overwrite(pb, k, bytes))
    <3>3. n = IF k + Len(bytes) <= Len(pb) THEN Len(pb) ELSE k + Len(bytes)
      BY <1>2, <1>3, OverwriteRight
    <3>4. po \in Nat
      BY <1>2
    <3> HIDE DEF po, pb, at, k, n
    <3>5. k = Len(pb)
      BY <1>2, <1>3, <3>2, <3>4
    <3>7. n = k + Len(bytes)
      BY <1>2, <3>3, <3>5
    <3>8. at = po + k /\ k \in Nat /\ Len(bytes) \in Nat
      BY <1>2, <1>3
    <3>6. at + Len(bytes) = po + n
      BY <3>4, <3>7, <3>8
    <3> QED BY <3>2, <3>6 DEF n
  <2>4. CASE g # f
    <3>1. q # p
      BY <1>10, <2>1, <2>4 DEF OneFd
    <3>2. t.fd[g].offset = s.fd[g].offset /\ t.page[q].offset = s.page[q].offset
          /\ t.page[q].bytes = s.page[q].bytes
      BY <1>5, <2>4, <3>1 DEF Moves
    <3> QED BY <2>2, <3>2
  <2> QED BY <2>3, <2>4
<1> QED BY <1>5, <1>7, <1>8, <1>9, <1>10 DEF Wrote, t

(* After a flush.                                                          *)
LEMMA RewriteExact ==
  ASSUME NEW s, Good(s), ~MayFill, NEW f \in Fds, s.fd[f].obj # None, NEW v \in Flush(s, f),
         NEW bytes \in Seq(Bytes), s.fd[f].offset + Len(bytes) <= MaxSize,
         NEW w \in Cache(v.state, f, bytes) \cup Direct(v.state, f, bytes)
  PROVE  w.ok /\ Wrote(s, w.state, f, bytes)
<1> DEFINE o == s.fd[f].obj
           u == v.state
           t == w.state
           at == s.fd[f].offset
           V == ViewOf(s, o)
<1>1. s \in StateType /\ o \in Objs /\ at \in Nat /\ Len(bytes) \in Nat
  BY LenProperties, SizesAssumption DEF Good, StateType, FdType, Position
<1>2. /\ Good(u) /\ u.fd[f].obj = o /\ u.fd[f].offset = at /\ NoPage(u, o) /\ u \in StateType
      /\ \A g \in Fds : /\ u.fd[g].obj = s.fd[g].obj /\ u.fd[g].flags = s.fd[g].flags
                        /\ u.fd[g].offset = s.fd[g].offset
  BY FlushGood DEF Flushed, Kin, Good
<1>3. /\ u.data[o] = V
      /\ \A q \in Pages : u.page[q] = IF s.page[q].obj = o THEN FreePage ELSE s.page[q]
      /\ \A r \in Objs : ViewOf(u, r) = ViewOf(s, r)
  BY FlushExact
<1>4. V \in Seq(Bytes) /\ Len(V) \in Nat /\ at \in 0 .. Len(V)
  BY <1>1, ViewRight
<1> DEFINE new == Overwrite(V, at, bytes)
<1>5. /\ new \in Seq(Bytes) /\ Len(new) \in Nat /\ Len(new) >= Len(V)
      /\ \A i \in 1 .. Len(V) : i \in at + 1 .. at + Len(bytes) \/ new[i] = V[i]
  <2> HIDE DEF V, at
  <2>1. new \in Seq(Bytes) /\ Len(new) = IF at + Len(bytes) <= Len(V) THEN Len(V) ELSE at + Len(bytes)
    BY <1>4, OverwriteRight
  <2>2. \A i \in 1 .. Len(new) : new[i] = IF i <= at THEN V[i]
                                          ELSE IF i <= at + Len(bytes) THEN bytes[i - at] ELSE V[i]
    BY <1>4, OverwriteAt
  <2> HIDE DEF new
  <2>3. Len(new) \in Nat /\ Len(new) >= Len(V)
    BY <1>1, <1>4, <2>1
  <2>4. ASSUME NEW i \in 1 .. Len(V), ~(i \in at + 1 .. at + Len(bytes)) PROVE new[i] = V[i]
    <3>1. i \in 1 .. Len(new) /\ (i <= at \/ ~(i <= at + Len(bytes)))
      BY <1>1, <1>4, <2>3, <2>4
    <3> QED BY <2>2, <3>1
  <2> QED BY <2>1, <2>3, <2>4
<1>6. ASSUME AtEnd(s), NEW g \in Fds, NEW q \in Pages, u.fd[g].obj # None, u.page[q].obj = u.fd[g].obj
      PROVE  /\ u.fd[g].offset = u.page[q].offset + Len(u.page[q].bytes) /\ g # f
             /\ u.fd[g].obj # o
  <2>1. u.page[q] = s.page[q] /\ s.fd[g].obj = u.fd[g].obj /\ s.fd[g].offset = u.fd[g].offset
    <3>1. FreePage.obj = None
      BY DEF FreePage
    <3> QED BY <1>2, <1>3, <1>6, <3>1
  <2> QED BY <1>2, <1>6, <2>1 DEF AtEnd, NoPage
<1>7. CASE w \in Direct(u, f, bytes)
  <2>1. /\ w.ok /\ t.page = u.page /\ Moves(u, t, f, at + Len(bytes))
        /\ t.data = [u.data EXCEPT ![o] = new]
    <3>1. /\ w.ok /\ t.page = u.page /\ Moves(u, t, f, u.fd[f].offset + Len(bytes))
          /\ t.data = [u.data EXCEPT ![u.fd[f].obj] = Overwrite(u.data[u.fd[f].obj], u.fd[f].offset, bytes)]
      <4>1. NoPage(u, u.fd[f].obj) /\ u.fd[f].obj # None /\ u.fd[f].offset + Len(bytes) <= MaxSize
        BY <1>2
      <4> HIDE DEF u
      <4> QED BY <1>2, <1>7, <4>1, DirectExact
    <3> HIDE DEF u, o, V, at
    <3> QED BY <1>2, <1>3, <3>1
  <2> HIDE DEF u, t, V, at, new
  <2>2. Moves(s, t, f, at + Len(bytes))
    BY <1>2, <2>1 DEF Moves
  <2>3. t.data[o] = new /\ \A r \in Objs \ {o} : t.data[r] = u.data[r]
    BY <1>1, <1>2, <2>1 DEF StateType
  <2>4. NoPage(t, o)
    BY <1>2, <2>1 DEF NoPage
  <2>5. ViewOf(t, o) = new
    BY <2>3, <2>4, ViewWithout
  <2>6. ASSUME NEW r \in Objs, r # o PROVE ViewOf(t, r) = ViewOf(s, r)
    <3>2. t.data[r] = u.data[r] /\ t.page = u.page
      BY <2>1, <2>3, <2>6
    <3>1. ViewOf(t, r) = ViewOf(u, r)
      BY <3>2, ViewSame
    <3> QED BY <1>3, <3>1
  <2>7. Delivered(s, t)
    <3>1. t.fd[f].offset = at + Len(bytes)
      BY <2>2 DEF Moves
    <3>2. \A i \in 1 .. Len(V) : i \in at + 1 .. t.fd[f].offset \/ t.data[o][i] = V[i]
      BY <1>5, <2>3, <3>1
    <3>3. Len(t.data[o]) \in Nat /\ Len(V) <= Len(t.data[o])
      BY <1>4, <1>5, <2>3
    <3>4. \A q \in Pages : t.page[q].obj = None => v.state.page[q].obj = None
      BY <2>1 DEF u
    <3>5. ViewStays(s, v.state, t, f, o, V)
      BY <3>2, <3>3, <3>4 DEF ViewStays, V, at
    <3> QED BY <3>5, Delivers
  <2>8. ASSUME AtEnd(s) PROVE AtEnd(t)
    <3>1. ASSUME NEW g \in Fds, NEW q \in Pages, t.fd[g].obj # None, t.page[q].obj = t.fd[g].obj
          PROVE  t.fd[g].offset = t.page[q].offset + Len(t.page[q].bytes)
      <4>1. u.fd[g].obj # None /\ u.page[q].obj = u.fd[g].obj /\ t.page[q] = u.page[q]
        BY <2>1, <3>1 DEF Moves
      <4>2. g # f /\ u.fd[g].offset = u.page[q].offset + Len(u.page[q].bytes)
        BY <1>6, <2>8, <4>1
      <4> QED BY <2>1, <4>1, <4>2 DEF Moves
    <3> QED BY <3>1 DEF AtEnd
  <2> QED BY <2>1, <2>2, <2>5, <2>6, <2>7, <2>8 DEF Wrote, new, V, at, t
<1>8. CASE w \in Cache(u, f, bytes) /\ ~(w \in Direct(u, f, bytes))
  <2> HIDE DEF u
  <2>1. /\ w.ok /\ t.data = u.data
        /\ Moves(u, t, f, u.fd[f].offset + Len(bytes))
        /\ \E p \in Pages :
              /\ u.page[p].obj = None
              /\ t.page[p].obj = u.fd[f].obj
              /\ t.page[p].offset = u.fd[f].offset
              /\ t.page[p].bytes = bytes
              /\ \A q \in Pages \ {p} : /\ t.page[q].obj = u.page[q].obj
                                        /\ t.page[q].offset = u.page[q].offset
                                        /\ t.page[q].bytes = u.page[q].bytes
    <3>1. NoPage(u, u.fd[f].obj) /\ u.fd[f].obj # None /\ u.fd[f].offset + Len(bytes) <= MaxSize
      BY <1>2
    <3> QED BY <1>2, <1>8, <3>1, CacheExact
  <2> HIDE DEF t, V, at, new
  <2>2. PICK p \in Pages :
              /\ u.page[p].obj = None
              /\ t.page[p].obj = o
              /\ t.page[p].offset = at
              /\ t.page[p].bytes = bytes
              /\ \A q \in Pages \ {p} : /\ t.page[q].obj = u.page[q].obj
                                        /\ t.page[q].offset = u.page[q].offset
                                        /\ t.page[q].bytes = u.page[q].bytes
    BY <1>2, <2>1
  <2>3. Moves(s, t, f, at + Len(bytes))
    <3> HIDE DEF o
    <3> QED BY <1>2, <2>1 DEF Moves
  <2>4. OnePage(t)
    <3>1. OnePage(u)
      BY <1>2 DEF Good
    <3>2. \A q \in Pages \ {p} : t.page[q].obj = u.page[q].obj /\ u.page[q].obj # o
      BY <1>2, <2>2 DEF NoPage
    <3> HIDE DEF o
    <3> QED BY <2>2, <3>1, <3>2 DEF OnePage
  <2>5. ViewOf(t, o) = new
    <3>1. ViewOf(t, o) = Overwrite(t.data[o], t.page[p].offset, t.page[p].bytes)
      BY <2>2, <2>4, ViewWith
    <3> QED BY <1>3, <2>1, <2>2, <3>1 DEF new
  <2>6. ASSUME NEW r \in Objs, r # o PROVE ViewOf(t, r) = ViewOf(s, r)
    <3>1. r # None
      BY NoneAssumption
    <3>2. \A q \in Pages : (t.page[q].obj = r) <=> (u.page[q].obj = r)
      BY <2>2, <2>6, <3>1
    <3>3. \A q \in Pages : u.page[q].obj = r =>
             t.page[q].offset = u.page[q].offset /\ t.page[q].bytes = u.page[q].bytes
      BY <2>2, <3>1
    <3>4. ViewOf(t, r) = ViewOf(u, r)
      BY <2>1, <3>2, <3>3, ViewSame
    <3> QED BY <1>3, <3>4
  <2>7. Delivered(s, t)
    <3>2. t.data[o] = V
      BY <1>3, <2>1
    <3>3. Len(t.data[o]) \in Nat /\ Len(V) <= Len(t.data[o])
      BY <1>4, <3>2
    <3>4. \A q \in Pages : t.page[q].obj = None => v.state.page[q].obj = None
      BY <2>2 DEF u
    <3>5. \A i \in 1 .. Len(V) : t.data[o][i] = V[i]
      BY <3>2
    <3>6. ViewStays(s, v.state, t, f, o, V)
      BY <3>3, <3>4, <3>5 DEF ViewStays, V
    <3> QED BY <3>6, Delivers
  <2>8. ASSUME OneFd(s), AtEnd(s) PROVE AtEnd(t)
    <3>1. ASSUME NEW g \in Fds, NEW q \in Pages, t.fd[g].obj # None, t.page[q].obj = t.fd[g].obj
          PROVE  t.fd[g].offset = t.page[q].offset + Len(t.page[q].bytes)
      <4>1. CASE q = p
        <5>1. s.fd[g].obj = s.fd[f].obj
          BY <2>2, <2>3, <3>1, <4>1 DEF Moves
        <5>2. g = f
          BY <2>8, <5>1 DEF OneFd
        <5> QED BY <2>2, <2>3, <4>1, <5>2 DEF Moves
      <4>2. CASE q # p
        <5>1. u.fd[g].obj # None /\ u.page[q].obj = u.fd[g].obj
          BY <2>1, <2>2, <3>1, <4>2 DEF Moves
        <5>2. g # f /\ u.fd[g].offset = u.page[q].offset + Len(u.page[q].bytes)
          BY <1>6, <2>8, <5>1
        <5> QED BY <2>1, <2>2, <4>2, <5>2 DEF Moves
      <4> QED BY <4>1, <4>2
    <3> QED BY <3>1 DEF AtEnd
  <2> QED BY <2>1, <2>3, <2>5, <2>6, <2>7, <2>8 DEF Wrote, new, V, at, t
<1> QED BY <1>7, <1>8

(* SPIFFS_write, with room on flash, writes.                               *)
LEMMA WriteExact ==
  ASSUME NEW s, Good(s), ~MayFill, NEW f \in Fds, s.fd[f].obj # None,
         NEW bytes \in Seq(Bytes), s.fd[f].offset + Len(bytes) <= MaxSize,
         NEW w \in WriteOutcomes(s, f, bytes)
  PROVE  w.ok /\ Wrote(s, w.state, f, bytes)
<1> DEFINE p == PageOf(s, f)
           small == Len(bytes) < LogPage
<1>1. CASE small /\ p # None /\ Fits(s, f, p, Len(bytes))
  <2>1. w.state = Store(s, f, p, bytes) /\ w.ok
    BY <1>1 DEF WriteOutcomes, Outcome
  <2>2. p \in Pages /\ s.page[p].obj = s.fd[f].obj
    BY <1>1, PageOfRight
  <2> HIDE DEF p
  <2>3. /\ s.page[p].offset <= s.fd[f].offset
        /\ s.fd[f].offset <= s.page[p].offset + Len(s.page[p].bytes)
    <3>1. s.page[p].offset \in Int /\ s.fd[f].offset \in Int
      BY <2>2, SizesAssumption DEF Good, StateType, FdType, PageType, Position
    <3> QED BY <1>1, <3>1 DEF Fits
  <2> QED BY <2>1, <2>2, <2>3, StoreExact
<1>2. CASE ~(small /\ p # None /\ Fits(s, f, p, Len(bytes)))
  <2>1. PICK v \in Flush(s, f) : w \in IF ~v.ok THEN {v}
                                       ELSE IF small THEN Cache(v.state, f, bytes)
                                       ELSE Direct(v.state, f, bytes)
    <3> HIDE DEF p
    <3> QED BY <1>2 DEF WriteOutcomes, p
  <2>2. v.ok
    BY FlushExact
  <2> QED BY <2>1, <2>2, RewriteExact
<1> QED BY <1>1, <1>2

-----------------------------------------------------------------------------
(* Cached writes are flushed *)

FlushStep ==
    \A p \in Pages :
         LET o == page[p].obj
             last == page[p].offset + Len(page[p].bytes)
         IN  /\ o # None /\ page'[p].obj = None /\ result' # Err
             /\ \E n \in Names : dir'[n] = o
             => /\ last <= Len(data'[o])
                /\ \A i \in page[p].offset + 1 .. last :
                      Passed(o, i) \/ data'[o][i] = page[p].bytes[i - page[p].offset]

LEMMA FlushStepFrom ==
  ASSUME NEW t, Become(t), Delivered(Now, t)
  PROVE  FlushStep
<1> SUFFICES ASSUME NEW p \in Pages, page[p].obj # None, page'[p].obj = None
             PROVE  LET o == page[p].obj
                        last == page[p].offset + Len(page[p].bytes)
                    IN  /\ last <= Len(data'[o])
                        /\ \A i \in page[p].offset + 1 .. last :
                              Passed(o, i) \/ data'[o][i] = page[p].bytes[i - page[p].offset]
  BY DEF FlushStep
<1>1. Now.page = page /\ Now.fd = fd /\ t.data = data' /\ t.fd = fd' /\ t.page = page'
  BY DEF Now, Become
<1>2. HandedOver(Now, t, p)
  BY <1>1 DEF Delivered
<1>3. \A o, i : PassedBy(Now, t, o, i) => Passed(o, i)
  BY <1>1 DEF PassedBy, Passed, OpenOn
<1> QED BY <1>1, <1>2, <1>3 DEF HandedOver

LEMMA FlushDelivers ==
  ASSUME NEW s, Good(s), ~MayFill, NEW f \in Fds, s.fd[f].obj # None, NEW w \in Flush(s, f),
         NEW t, t.data = w.state.data, t.page = w.state.page
  PROVE  Delivered(s, t)
<1> DEFINE o == s.fd[f].obj
           V == ViewOf(s, o)
<1>1. t.data[o] = V
  BY FlushExact
<1>2. Len(V) \in Nat
  <2>1. o \in Objs
    BY DEF Good, StateType, FdType
  <2> HIDE DEF o
  <2> QED BY <2>1, ViewRight
<1>3. Len(V) <= Len(t.data[o]) /\ Len(t.data[o]) \in Nat
  BY <1>1, <1>2
<1>4. \A i \in 1 .. Len(V) : t.data[o][i] = V[i]
  BY <1>1
<1>5. ViewStays(s, w.state, t, f, o, V)
  BY <1>3, <1>4 DEF ViewStays
<1> HIDE DEF V, o
<1> QED BY <1>5, Delivers

LEMMA EmptiedPage ==
  ASSUME NEW s \in StateType, NEW f
  PROVE  /\ Emptied(s, f).page = s.page
         /\ Emptied(s, f).data = IF s.fd[f].size = Undefined THEN s.data
                                 ELSE [s.data EXCEPT ![s.fd[f].obj] = <<>>]
<1> DEFINE o == s.fd[f].obj
           u == [s EXCEPT !.data[o] = <<>>]
           fds == [g \in Fds |-> IF u.fd[g].obj = o THEN [u.fd[g] EXCEPT !.size = Undefined]
                                                   ELSE u.fd[g]]
           e == [u EXCEPT !.fd = fds]
<1>1. s = [data |-> s.data, fd |-> s.fd, page |-> s.page]
  BY DEF StateType
<1>2. u = [data |-> [s.data EXCEPT ![o] = <<>>], fd |-> s.fd, page |-> s.page]
  BY <1>1
<1>3. Emptied(s, f) = IF s.fd[f].size = Undefined THEN s ELSE [e EXCEPT !.fd[f].size = 0]
  BY DEF Emptied, Announce
<1> HIDE DEF u, fds
<1>4. e = [data |-> [s.data EXCEPT ![o] = <<>>], fd |-> fds, page |-> s.page]
  BY <1>2
<1> HIDE DEF e
<1> QED BY <1>3, <1>4

(* Of the calls, those that give up a page deliver it.                     *)
LEMMA CallFlushes ==
  ASSUME IInv, ~MayFill, NEW f \in Fds, Call(f)
  PROVE  FlushStep
<1>1. /\ Good(Now) /\ Now.fd = fd /\ Now.data = data /\ Now.page = page
      /\ fd \in [Fds -> FdType] /\ page \in [Pages -> PageType]
      /\ dir \in [Names -> Objs \cup {None}]
  BY DEF IInv, Now, Good, StateType
<1>2. page' = page => FlushStep
  BY DEF FlushStep
<1>3. \A r \in {"RDONLY", "WRONLY"} : r \in fd[f].flags => fd[f].obj # None
  BY <1>1 DEF FdType
<1>4. ASSUME fd[f].obj # None, NEW w \in Flush(Now, f), NEW t, Become(t),
             t.data = w.state.data, t.page = w.state.page
      PROVE  FlushStep
  BY <1>1, <1>4, FlushDelivers, FlushStepFrom
<1>5. ASSUME NEW n \in Names, NEW flags \in Modes,
             Open(n, f, flags) \/ OpenTruncated(n, f, flags) \/ OpenCreated(n, f, flags)
      PROVE  FlushStep
  <2>1. \A o : Opened(Now, f, o, flags).page = page
    BY <1>1 DEF Opened, Now
  <2>2. CASE OpenTruncated(n, f, flags)
    <3> DEFINE s == Opened(Now, f, dir[n], flags)
    <3>1. fd[f].obj = None /\ dir[n] \in Objs /\ page' = Emptied(s, f).page
      BY <1>1, <2>2 DEF OpenTruncated, IsOpen, Return, Become, Outcome
    <3>2. s \in StateType /\ s.page = page
      BY <1>1, <2>1, <3>1, OpenedGood DEF Good
    <3> HIDE DEF s
    <3>3. Emptied(s, f).page = s.page
      BY <3>2, EmptiedPage
    <3> QED BY <1>2, <3>1, <3>2, <3>3
  <2> QED BY <1>2, <1>5, <2>1, <2>2 DEF Open, OpenCreated, Return, Become, Outcome
<1>6. ASSUME NEW len \in 1 .. LogPage, Read(f, len)
      PROVE  FlushStep
  <2>1. fd[f].obj # None
    BY <1>3, <1>6, Zenon DEF Read
  <2>2. CASE fd[f].size = Undefined
    BY <1>2, <1>6, <2>2 DEF Read
  <2>3. CASE fd[f].size # Undefined
    <3> DEFINE n(u) == LET d == u.data[u.fd[f].obj]
                           at == u.fd[f].offset
                       IN  Len(SubSeq(d, at + 1, Least(at + len, u.fd[f].size)))
    <3>1. PICK w \in Flush(Now, f) :
            Become(w.state) \/ Become(Advance(w.state, f, n(w.state)))
      <4>1. PICK w \in Flush(Now, f) :
              LET d == w.state.data[w.state.fd[f].obj]
                  at == w.state.fd[f].offset
                  size == w.state.fd[f].size
                  bytes == SubSeq(d, at + 1, Least(at + len, size))
              IN  IF at < size /\ d = <<>> THEN Return(Outcome(w.state, FALSE))
                  ELSE /\ Become(Advance(w.state, f, Len(bytes)))
                       /\ result' = [read |-> bytes]
        BY <1>6, <2>3, Zenon DEF Read
      <4>2. Become(w.state) \/ Become(Advance(w.state, f, n(w.state)))
        BY <4>1 DEF Return, Outcome
      <4> QED BY <4>2
    <3> HIDE DEF n
    <3>2. w.state \in StateType
      BY <1>1, <2>1, FlushGood DEF Flushed, Good
    <3>3. /\ Advance(w.state, f, n(w.state)).data = w.state.data
          /\ Advance(w.state, f, n(w.state)).page = w.state.page
      BY <3>2, AdvanceShape
    <3> QED BY <1>4, <2>1, <3>1, <3>3
  <2> QED BY <2>2, <2>3
<1>7. ASSUME NEW k \in 1 .. LogPage, NEW bytes \in [1 .. k -> Bytes], Write(f, bytes)
      PROVE  FlushStep
  <2>1. /\ fd[f].obj # None /\ bytes \in Seq(Bytes) /\ fd[f].offset + Len(bytes) <= MaxSize
    BY <1>3, <1>7, SizesAssumption DEF Write
  <2>2. PICK w \in WriteOutcomes(Now, f, bytes) : Become(w.state)
    BY <1>7 DEF Write, Return
  <2>3. Wrote(Now, w.state, f, bytes)
    BY <1>1, <2>1, WriteExact
  <2> QED BY <2>2, <2>3, FlushStepFrom DEF Wrote
<1>8. ASSUME NEW to \in 0 .. MaxSize, Seek(f, to)
      PROVE  FlushStep
  <2>1. fd[f].obj # None
    BY <1>8 DEF Seek, IsOpen
  <2>2. PICK w \in Flush(Now, f) : \E x : Become([w.state EXCEPT !.fd[f].offset = x])
    BY <1>8 DEF Seek, Return, Outcome
  <2>3. PICK x : Become([w.state EXCEPT !.fd[f].offset = x])
    BY <2>2
  <2>4. w.state \in StateType
    BY <1>1, <2>1, FlushGood DEF Flushed, Good
  <2>5. /\ [w.state EXCEPT !.fd[f].offset = x].data = w.state.data
        /\ [w.state EXCEPT !.fd[f].offset = x].page = w.state.page
    BY <2>4 DEF StateType
  <2> QED BY <1>4, <2>1, <2>3, <2>5
<1>9. CASE Fstat(f)
  BY <1>4, <1>9 DEF Fstat, IsOpen
<1>10. CASE Close(f)
  <2>1. fd[f].obj # None
    BY <1>10 DEF Close, IsOpen
  <2>2. PICK w \in Flush(Now, f) :
          Become(w.state) \/ Become([w.state EXCEPT !.fd[f] = Closed(@)])
    BY <1>10 DEF Close, Return, Outcome
  <2>3. w.state \in StateType
    BY <1>1, <2>1, FlushGood DEF Flushed, Good
  <2>4. /\ [w.state EXCEPT !.fd[f] = Closed(@)].data = w.state.data
        /\ [w.state EXCEPT !.fd[f] = Closed(@)].page = w.state.page
    BY <2>3 DEF StateType
  <2> QED BY <1>4, <2>1, <2>2, <2>4
<1>11. CASE Fremove(f)
  <2> DEFINE o == fd[f].obj
             q == fd[f].page
  <2>1. /\ o # None /\ dir' = [n \in Names |-> IF dir[n] = o THEN None ELSE dir[n]]
    BY <1>3, <1>11 DEF Fremove
  <2>2. page' = IF q = None THEN page ELSE Release(Now, q).page
    <3> DEFINE r == IF q = None THEN Now ELSE Release(Now, q)
    <3>1. page' = [r EXCEPT !.data[o] = <<>>,
                            !.fd = [g \in Fds |-> IF r.fd[g].obj = o THEN Closed(r.fd[g])
                                                                    ELSE r.fd[g]]].page
      BY <1>11 DEF Fremove, Return, Outcome, Become
    <3>2. r = [data |-> r.data, fd |-> r.fd, page |-> r.page]
      BY DEF Now, Release
    <3> HIDE DEF r
    <3>3. page' = r.page
      BY <3>1, <3>2
    <3> QED BY <1>1, <3>3 DEF r
  <2>3. q # None => q \in Pages /\ page[q].obj = o
    BY <1>1 DEF Good, PointsOwn, FdType
  <2>4. q # None => page' = [page EXCEPT ![q] = FreePage]
    BY <1>1, <2>2 DEF Release, Now
  <2>5. \A n \in Names : dir'[n] # o
    BY <2>1
  <2>6. ASSUME NEW p \in Pages, page[p].obj # None, page'[p].obj = None
        PROVE  page[p].obj = o
    <3>1. q # None
      BY <2>2, <2>6
    <3> HIDE DEF q
    <3>2. p = q
      BY <1>1, <2>4, <2>6, <3>1
    <3> QED BY <2>3, <3>1, <3>2
  <2> QED BY <2>5, <2>6 DEF FlushStep
<1> QED BY <1>5, <1>6, <1>7, <1>8, <1>9, <1>10, <1>11 DEF Call

(* "Checks if there are any cached writes ... If so, these writes are      *)
(* flushed": while the flash has room, whichever call gives up the write   *)
(* page of a file that lives on has put the page's bytes on flash, also    *)
(* with several descriptors on the file and with the page taken again for  *)
(* the next write of the same call.                                        *)
THEOREM CachedWritesReachFlash == Spec /\ ~MayFill => CachedWritesFlushed
<1>1. IInv /\ ~MayFill /\ [Next]_vars => [FlushStep]_vars
  <2> SUFFICES ASSUME IInv, ~MayFill, Next PROVE FlushStep
    BY DEF vars
  <2>1. ASSUME page' = page PROVE FlushStep
    BY <2>1 DEF FlushStep
  <2> QED BY <2>1, CallFlushes DEF Next, Refuse, Fails, Rename
<1>2. ~MayFill => [](~MayFill)
  OBVIOUS
<1> QED BY <1>1, <1>2, Invariance, PTL DEF Spec, CachedWritesFlushed, FlushStep

-----------------------------------------------------------------------------
(* Files that are opened once: what a program sees *)

(* A part of a part of a file.                                             *)
LEMMA PartOfPart ==
  ASSUME NEW v \in Seq(Bytes), NEW at \in 0 .. Len(v), NEW i \in Nat \ {0},
         NEW j \in 0 .. Len(v) - at
  PROVE  /\ SubSeq(SubSeq(v, at + 1, Len(v)), i, j) = SubSeq(v, at + i, at + j)
         /\ Len(SubSeq(v, at + 1, Len(v))) = Len(v) - at
<1>1. Len(v) \in Nat /\ \A x \in 1 .. Len(v) : v[x] \in Bytes
  BY LenProperties, ElementOfSeq
<1> DEFINE end == SubSeq(v, at + 1, Len(v))
           a == SubSeq(end, i, j)
           b == SubSeq(v, at + i, at + j)
<1>2. /\ end \in Seq(Bytes) /\ Len(end) = Len(v) - at
      /\ \A x \in 1 .. Len(v) - at : end[x] = v[at + x]
  <2>1. \A x \in at + 1 .. Len(v) : v[x] \in Bytes
    BY <1>1
  <2>2. end \in Seq(Bytes) /\ Len(end) = IF at + 1 <= Len(v) THEN Len(v) - (at + 1) + 1 ELSE 0
    BY <1>1, <2>1, SubSeqProperties
  <2>3. \A x \in 1 .. Len(v) - (at + 1) + 1 : end[x] = v[(at + 1) + x - 1]
    BY <1>1, <2>1, SubSeqProperties
  <2> HIDE DEF end
  <2>4. ASSUME NEW x \in 1 .. Len(v) - at PROVE end[x] = v[at + x]
    <3>1. x \in 1 .. Len(v) - (at + 1) + 1 /\ (at + 1) + x - 1 = at + x
      BY <1>1
    <3>2. end[x] = v[(at + 1) + x - 1]
      BY <2>3, <3>1
    <3> QED BY <3>1, <3>2
  <2> QED BY <1>1, <2>2, <2>4
<1> HIDE DEF end
<1>3. \A x \in i .. j : x \in 1 .. Len(end) /\ end[x] = v[at + x] /\ end[x] \in Bytes
  <2>1. \A x \in i .. j : x \in 1 .. Len(v) - at /\ at + x \in 1 .. Len(v)
    BY <1>1
  <2> QED BY <1>1, <1>2, <2>1
<1>4. /\ a \in Seq(Bytes) /\ Len(a) = IF i <= j THEN j - i + 1 ELSE 0
      /\ \A x \in 1 .. j - i + 1 : a[x] = end[i + x - 1]
  <2>1. \A x \in i .. j : end[x] \in Bytes
    BY <1>3
  <2> QED BY <2>1, SubSeqProperties
<1>5. /\ b \in Seq(Bytes) /\ Len(b) = IF at + i <= at + j THEN (at + j) - (at + i) + 1 ELSE 0
      /\ \A x \in 1 .. (at + j) - (at + i) + 1 : b[x] = v[at + i + x - 1]
  <2>1. \A x \in at + i .. at + j : v[x] \in Bytes
    BY <1>1
  <2> QED BY <2>1, SubSeqProperties
<1> HIDE DEF a, b
<1>6. Len(a) = Len(b) /\ Len(a) \in Nat
  BY <1>1, <1>4, <1>5
<1>7. ASSUME NEW x \in 1 .. Len(a) PROVE a[x] = b[x]
  <2>1. i <= j /\ x \in 1 .. j - i + 1 /\ x \in 1 .. (at + j) - (at + i) + 1 /\ i + x - 1 \in i .. j
    BY <1>1, <1>4
  <2>2. a[x] = end[i + x - 1] /\ end[i + x - 1] = v[at + (i + x - 1)]
    BY <1>3, <1>4, <2>1
  <2>3. b[x] = v[at + i + x - 1]
    BY <1>5, <2>1
  <2>4. at + (i + x - 1) = at + i + x - 1
    BY <1>1
  <2> QED BY <2>2, <2>3, <2>4
<1>8. a = b
  BY <1>4, <1>5, <1>6, <1>7, SeqEqual
<1> QED BY <1>2, <1>8 DEF a, b, end

Handle(d) == [obj |-> d.obj, flags |-> d.flags, offset |-> d.offset]
Contents(s) == [o \in Objs |-> ViewOf(s, o)]
Handles(s) == [f \in Fds |-> Handle(s.fd[f])]

(* The state of FileStore that a state of the calls stands for.            *)
LEMMA PlainIs ==
  /\ [o \in Objs |-> View(o)] = Contents(Now)
  /\ [f \in Fds |-> [obj |-> fd[f].obj, flags |-> fd[f].flags, offset |-> fd[f].offset]]
       = Handles(Now)
BY DEF Now, Contents, ViewOf, Under, View, Handles, Handle

LEMMA PlainBecomes ==
  ASSUME NEW t, Become(t)
  PROVE  /\ [o \in Objs |-> View(o)]' = Contents(t)
         /\ [f \in Fds |-> [obj |-> fd[f].obj, flags |-> fd[f].flags, offset |-> fd[f].offset]]'
              = Handles(t)
BY DEF Become, Contents, ViewOf, Under, View, Handles, Handle

(* An open file has a name and one descriptor, which stands at the end of  *)
(* the file's page if it has one.                                          *)
Named(d, s) == \A f \in Fds : s.fd[f].obj # None => \E n \in Names : d[n] = s.fd[f].obj
Alone(d, s) == OneFd(s) /\ AtEnd(s) /\ Named(d, s)

LEMMA BecomeAlone ==
  ASSUME NEW t, Become(t), Alone(dir', t)
  PROVE  Alone(dir, Now)'
BY DEF Alone, OneFd, AtEnd, Named, Become, Now

LEMMA MovesHandles ==
  ASSUME NEW s, s.fd \in [Fds -> FdType], NEW t, NEW f \in Fds, NEW x, Moves(s, t, f, x)
  PROVE  /\ Handles(t) = [Handles(s) EXCEPT ![f].offset = x]
         /\ Handles(s)[f].offset = s.fd[f].offset /\ Handles(s)[f].flags = s.fd[f].flags
         /\ Handles(s)[f].obj = s.fd[f].obj
         /\ OneFd(s) => OneFd(t)
         /\ \A d : Named(d, s) => Named(d, t)
<1>1. /\ Handles(s)[f].offset = s.fd[f].offset /\ Handles(s)[f].flags = s.fd[f].flags
      /\ Handles(s)[f].obj = s.fd[f].obj
  BY DEF Handles, Handle
<1>2. Handles(t) = [Handles(s) EXCEPT ![f].offset = x]
  BY DEF Moves, Handles, Handle
<1>3. (OneFd(s) => OneFd(t)) /\ \A d : Named(d, s) => Named(d, t)
  BY DEF Moves, OneFd, Named
<1> QED BY <1>1, <1>2, <1>3

(* A flush, and then at most a move, changes nothing that is seen but the  *)
(* position.                                                               *)
LEMMA FlushSeen ==
  ASSUME NEW s, Good(s), ~MayFill, NEW d, Alone(d, s), NEW f \in Fds, s.fd[f].obj # None,
         NEW w \in Flush(s, f), NEW t, t.data = w.state.data, t.page = w.state.page,
         NEW x, Moves(s, t, f, x)
  PROVE  /\ Contents(t) = Contents(s)
         /\ Handles(t) = [Handles(s) EXCEPT ![f].offset = x]
         /\ Alone(d, t)
<1> DEFINE o == s.fd[f].obj
<1>1. ASSUME NEW r \in Objs PROVE ViewOf(t, r) = ViewOf(s, r)
  <2>1. ViewOf(t, r) = ViewOf(w.state, r)
    BY ViewSame
  <2> QED BY <2>1, FlushExact
<1>2. Contents(t) = Contents(s)
  BY <1>1 DEF Contents
<1>3. s.fd \in [Fds -> FdType]
  BY DEF Good, StateType
<1>4. Handles(t) = [Handles(s) EXCEPT ![f].offset = x] /\ OneFd(t) /\ Named(d, t)
  BY <1>3, MovesHandles, SMTT(30) DEF Alone
<1>5. AtEnd(t)
  <2> SUFFICES ASSUME NEW g \in Fds, NEW q \in Pages, t.fd[g].obj # None, t.page[q].obj = t.fd[g].obj
               PROVE  t.fd[g].offset = t.page[q].offset + Len(t.page[q].bytes)
    BY DEF AtEnd
  <2>1. t.page[q] = IF s.page[q].obj = o THEN FreePage ELSE s.page[q]
    BY FlushExact
  <2>2. FreePage.obj = None
    BY DEF FreePage
  <2>3. s.page[q].obj # o /\ t.page[q] = s.page[q] /\ s.fd[g].obj = t.fd[g].obj
    BY <2>1, <2>2 DEF Moves
  <2>4. g # f
    BY <2>3
  <2>5. t.fd[g].offset = s.fd[g].offset
    BY <2>4 DEF Moves
  <2> QED BY <2>3, <2>5 DEF Alone, AtEnd
<1> QED BY <1>2, <1>4, <1>5 DEF Alone

(* The inductive invariant of files that are opened once.                  *)
OwnInv == IInv /\ Alone(dir, Now)

LEMMA OwnFacts ==
  ASSUME OwnInv, ~MayFill
  PROVE  /\ Good(Now) /\ Alone(dir, Now) /\ Now \in StateType
         /\ Now.fd = fd /\ Now.data = data /\ Now.page = page
         /\ fd \in [Fds -> FdType] /\ page \in [Pages -> PageType] /\ data \in [Objs -> Content]
         /\ dir \in [Names -> Objs \cup {None}]
         /\ \A f \in Fds : /\ fd[f].obj \in Objs \cup {None} /\ fd[f].offset \in Nat
                           /\ fd[f].flags # {} => fd[f].obj # None
BY SizesAssumption DEF OwnInv, IInv, Now, Good, StateType, FdType, Position

(* A descriptor without a size stands at the end of what was written.      *)
LEMMA EmptyAtEnd ==
  ASSUME NEW s, Good(s), ~MayFill, AtEnd(s), NEW f \in Fds, s.fd[f].obj # None,
         s.fd[f].size = Undefined
  PROVE  s.fd[f].offset = Len(ViewOf(s, s.fd[f].obj))
<1> DEFINE o == s.fd[f].obj
<1>1. s \in StateType /\ SizesRight(s) /\ OnePage(s) /\ Reach(s) /\ o \in Objs
  BY DEF Good, StateType, FdType
<1>2. Len(s.data[o]) = 0
  BY <1>1 DEF SizesRight, Agrees, Length
<1>3. s.data[o] = <<>>
  <2>1. s.data[o] \in Seq(Bytes)
    BY <1>1, ContentIs DEF StateType
  <2> QED BY <1>2, <2>1, EmptySeq
<1>4. CASE NoPage(s, o)
  <2>1. ViewOf(s, o) = s.data[o]
    BY <1>4, ViewWithout
  <2>2. s.fd[f].offset \in 0 .. Len(ViewOf(s, o))
    BY <1>1, ViewRight
  <2> QED BY <1>2, <2>1, <2>2
<1>5. CASE ~NoPage(s, o)
  <2>1. PICK p \in Pages : s.page[p].obj = o
    BY <1>5 DEF NoPage
  <2>2. s.page[p].offset \in Nat /\ s.page[p].bytes \in Seq(Bytes) /\ Len(s.page[p].bytes) \in Nat
    BY <1>1, ContentIs, LenProperties, SizesAssumption DEF StateType, PageType, Position
  <2>3. s.page[p].offset = 0
    <3>1. s.page[p].offset <= Len(s.data[o])
      BY <1>1, <2>1 DEF Reach
    <3> QED BY <1>2, <2>2, <3>1
  <2>4. ViewOf(s, o) = s.page[p].bytes
    <3>1. ViewOf(s, o) = Overwrite(s.data[o], s.page[p].offset, s.page[p].bytes)
      BY <1>1, <2>1, ViewWith
    <3> QED BY <1>3, <2>2, <2>3, <3>1, OverwriteNothing
  <2>5. s.fd[f].offset = s.page[p].offset + Len(s.page[p].bytes)
    BY <2>1 DEF AtEnd
  <2> QED BY <2>2, <2>3, <2>4, <2>5
<1> QED BY <1>4, <1>5

(* What FileStore reads is what SPIFFS_read reads.                         *)
LEMMA SameBytes ==
  ASSUME NEW v \in Seq(Bytes), NEW at \in 0 .. Len(v), NEW len \in Nat
  PROVE  Plain!FirstOf(SubSeq(v, at + 1, Len(v)), len) = SubSeq(v, at + 1, Least(at + len, Len(v)))
<1> DEFINE end == SubSeq(v, at + 1, Len(v))
           n == IF len < Len(end) THEN len ELSE Len(end)
<1>1. Len(v) \in Nat
  BY LenProperties
<1>2. Len(end) = Len(v) - at
  <2>1. 1 \in Nat \ {0} /\ 0 \in 0 .. Len(v) - at
    BY <1>1
  <2> QED BY <2>1, PartOfPart
<1>3. n \in 0 .. Len(v) - at /\ at + n = Least(at + len, Len(v))
  <2> HIDE DEF end
  <2> QED BY <1>1, <1>2 DEF Least
<1>4. SubSeq(end, 1, n) = SubSeq(v, at + 1, at + n)
  <2> HIDE DEF n
  <2> QED BY <1>3, PartOfPart
<1>5. Plain!FirstOf(end, len) = SubSeq(end, 1, n)
  BY DEF Plain!FirstOf
<1> HIDE DEF end, n
<1> QED BY <1>3, <1>4, <1>5 DEF end

(* A read of FileStore.                                                    *)
LEMMA ReadOf ==
  ASSUME OwnInv, ~MayFill, NEW f \in Fds, "RDONLY" \in fd[f].flags, fd[f].obj # None,
         NEW len \in Nat, NEW bytes,
         bytes = LET v == ViewOf(Now, fd[f].obj)
                 IN  SubSeq(v, fd[f].offset + 1, Least(fd[f].offset + len, Len(v))),
         NEW t, Become(t), Contents(t) = Contents(Now),
         Handles(t) = [Handles(Now) EXCEPT ![f].offset = fd[f].offset + Len(bytes)],
         result' = [read |-> bytes], dir' = dir
  PROVE  Plain!Read(f, len)
<1> DEFINE o == fd[f].obj
           v == ViewOf(Now, o)
<1>1. Good(Now) /\ Now.fd = fd /\ o \in Objs
  BY OwnFacts
<1>2. v \in Seq(Bytes) /\ fd[f].offset \in 0 .. Len(v)
  BY <1>1, ViewRight
<1>3. Contents(Now)[o] = v
  BY <1>1 DEF Contents
<1>4. Handles(Now)[f] = Handle(fd[f]) /\ f \in DOMAIN Handles(Now)
  BY <1>1 DEF Handles
<1>5. /\ Handles(Now)[f].obj = o /\ Handles(Now)[f].flags = fd[f].flags
      /\ Handles(Now)[f].offset = fd[f].offset
  BY <1>4 DEF Handle
<1>6. Plain!Following(f) = SubSeq(v, fd[f].offset + 1, Len(v))
  BY <1>3, <1>5, PlainIs DEF Plain!Following
<1>7. Plain!FirstOf(Plain!Following(f), len) = bytes
  BY <1>2, <1>6, SameBytes
<1>8. Plain!Advance(f, Len(result'.read))
  BY <1>5, PlainIs, PlainBecomes DEF Plain!Advance
<1> QED BY <1>5, <1>7, <1>8, PlainIs, PlainBecomes DEF Plain!Read

(* SPIFFS_read, size unknown or not, reads and is a read of FileStore.     *)
LEMMA ReadPlain ==
  ASSUME OwnInv, ~MayFill, NEW f \in Fds, NEW len \in 1 .. LogPage, Read(f, len)
  PROVE  Plain!Read(f, len) /\ Alone(dir, Now)'
<1> DEFINE o == fd[f].obj
           v == ViewOf(Now, o)
           at == fd[f].offset
           bytes == SubSeq(v, at + 1, Least(at + len, Len(v)))
<1>1. /\ "RDONLY" \in fd[f].flags /\ o # None /\ o \in Objs /\ Good(Now) /\ Alone(dir, Now)
      /\ Now.fd = fd /\ at \in Nat /\ len \in Nat \ {0} /\ dir' = dir
  <2>1. "RDONLY" \in fd[f].flags /\ dir' = dir
    BY Zenon DEF Read
  <2>2. len \in Nat \ {0}
    BY SizesAssumption
  <2> QED BY <2>1, <2>2, OwnFacts, SMTT(30)
<1>2. v \in Seq(Bytes) /\ Len(v) \in Nat /\ at \in 0 .. Len(v)
  BY <1>1, ViewRight
<1>3. CASE fd[f].size = Undefined
  <2>1. result' = [read |-> <<>>] /\ Become(Now)
    BY <1>3 DEF Read, Become, Now
  <2>2. at = Len(v)
    BY <1>1, <1>3, EmptyAtEnd DEF Alone
  <2>3. bytes = <<>> /\ Len(bytes) = 0
    <3>1. Least(at + len, Len(v)) = at
      BY <1>1, <1>2, <2>2 DEF Least
    <3>2. bytes = SubSeq(v, at + 1, at)
      BY <3>1
    <3> HIDE DEF v, at
    <3>3. SubSeq(v, at + 1, at) = <<>>
      BY <1>1, SubSeqEmpty
    <3> HIDE DEF bytes
    <3> QED BY <3>2, <3>3, EmptySeq
  <2>4. Handles(Now) = [Handles(Now) EXCEPT ![f].offset = at + Len(bytes)]
    <3>1. at + Len(bytes) = at
      <4> HIDE DEF bytes, at
      <4> QED BY <1>1, <2>3
    <3>2. Handles(Now)[f] = [Handles(Now)[f] EXCEPT !.offset = at] /\ f \in DOMAIN Handles(Now)
      BY <1>1 DEF Handles, Handle
    <3> HIDE DEF at, bytes
    <3> QED BY <3>1, <3>2 DEF Handles
  <2>5. Plain!Read(f, len)
    <3> HIDE DEF bytes
    <3>1. bytes = LET u == ViewOf(Now, fd[f].obj)
                  IN  SubSeq(u, fd[f].offset + 1, Least(fd[f].offset + len, Len(u)))
      BY DEF bytes
    <3> QED BY <1>1, <2>1, <2>3, <2>4, <3>1, ReadOf
  <2> QED BY <1>1, <2>1, <2>5, BecomeAlone
<1>4. CASE fd[f].size # Undefined
  <2>1. PICK w \in Flush(Now, f) :
            LET d == w.state.data[w.state.fd[f].obj]
                x == w.state.fd[f].offset
                size == w.state.fd[f].size
                b == SubSeq(d, x + 1, Least(x + len, size))
            IN  IF x < size /\ d = <<>> THEN Return(Outcome(w.state, FALSE))
                ELSE /\ Become(Advance(w.state, f, Len(b)))
                     /\ result' = [read |-> b]
    BY <1>4, Zenon DEF Read
  <2>2. Flushed(Now, f, w)
    BY <1>1, FlushGood
  <2>3. /\ w.state.fd[f].obj = o /\ w.state.fd[f].offset = at /\ w.state.fd[f].size # Undefined
        /\ Good(w.state) /\ w.state \in StateType /\ Kin(Now, w.state)
    BY <1>1, <1>4, <2>2 DEF Flushed, Kin, Good
  <2>4. w.state.data[o] = v
    BY <1>1, FlushExact
  <2>5. w.state.fd[f].size = Len(v)
    BY <1>1, <2>3, <2>4 DEF Good, SizesRight, Agrees, Length
  <2>6. ~(at < Len(v) /\ v = <<>>)
    <3> HIDE DEF at, v
    <3> QED BY <1>2, EmptySeq
  <2> DEFINE t == Advance(w.state, f, Len(bytes))
  <2>7. Become(t) /\ result' = [read |-> bytes]
    <3> HIDE DEF v, at
    <3> QED BY <2>1, <2>3, <2>4, <2>5, <2>6
  <2>8. t.data = w.state.data /\ t.page = w.state.page /\ Moves(Now, t, f, at + Len(bytes))
    <3> DEFINE n == Len(bytes)
    <3> HIDE DEF bytes, at, n
    <3>1. t.data = w.state.data /\ t.page = w.state.page /\ Moves(w.state, t, f, at + n)
      BY <2>3, AdvanceShape DEF n
    <3> HIDE DEF t
    <3>2. Moves(Now, t, f, at + n)
      BY <2>3, <3>1 DEF Moves, Kin
    <3> QED BY <3>1, <3>2 DEF n
  <2> HIDE DEF t
  <2>9. /\ Contents(t) = Contents(Now)
        /\ Handles(t) = [Handles(Now) EXCEPT ![f].offset = at + Len(bytes)]
        /\ Alone(dir, t)
    <3> HIDE DEF bytes, at
    <3> QED BY <1>1, <2>8, FlushSeen
  <2>10. Plain!Read(f, len)
    <3> HIDE DEF bytes
    <3>1. bytes = LET u == ViewOf(Now, fd[f].obj)
                  IN  SubSeq(u, fd[f].offset + 1, Least(fd[f].offset + len, Len(u)))
      BY DEF bytes
    <3> QED BY <1>1, <2>7, <2>9, <3>1, ReadOf
  <2> QED BY <1>1, <2>7, <2>9, <2>10, BecomeAlone
<1> QED BY <1>3, <1>4

(* SPIFFS_write, cached or not.                                            *)
LEMMA WritePlain ==
  ASSUME OwnInv, ~MayFill, NEW f \in Fds, NEW k \in 1 .. LogPage,
         NEW bytes \in [1 .. k -> Bytes], Write(f, bytes)
  PROVE  Plain!Write(f, k) /\ Alone(dir, Now)'
<1> DEFINE o == fd[f].obj
           v == ViewOf(Now, o)
           at == fd[f].offset
<1>1. /\ "WRONLY" \in fd[f].flags /\ o # None /\ o \in Objs /\ Good(Now) /\ Alone(dir, Now)
      /\ Now.fd = fd /\ fd \in [Fds -> FdType] /\ at \in Nat /\ dir' = dir
      /\ at + Len(bytes) <= MaxSize
  <2>1. "WRONLY" \in fd[f].flags /\ dir' = dir /\ at + Len(bytes) <= MaxSize
    BY DEF Write
  <2> QED BY <2>1, OwnFacts
<1>2. v \in Seq(Bytes) /\ Len(v) \in Nat /\ at \in 0 .. Len(v)
  BY <1>1, ViewRight
<1>3. bytes \in Seq(Bytes) /\ Len(bytes) = k /\ k \in Nat
  BY SizesAssumption
<1>4. PICK w \in WriteOutcomes(Now, f, bytes) : Return(w)
  BY DEF Write
<1>5. w.ok /\ Wrote(Now, w.state, f, bytes)
  BY <1>1, <1>3, WriteExact
<1> DEFINE t == w.state
           new == Overwrite(v, at, bytes)
<1>6. Become(t) /\ result' = Ok
  BY <1>4, <1>5 DEF Return
<1> HIDE DEF t
<1>7. /\ Moves(Now, t, f, at + k) /\ AtEnd(t)
      /\ \A r \in Objs : ViewOf(t, r) = IF r = o THEN new ELSE ViewOf(Now, r)
  BY <1>1, <1>3, <1>5 DEF Wrote, Alone, t
<1>8. Handles(t) = [Handles(Now) EXCEPT ![f].offset = at + k] /\ Alone(dir, t)
  <2> HIDE DEF at
  <2> QED BY <1>1, <1>7, MovesHandles DEF Alone
<1>9. Contents(t) = [Contents(Now) EXCEPT ![o] = new]
  <2> HIDE DEF new, o
  <2> QED BY <1>1, <1>7 DEF Contents
<1>10. /\ Handles(Now)[f].obj = o /\ Handles(Now)[f].flags = fd[f].flags
       /\ Handles(Now)[f].offset = at /\ Contents(Now)[o] = v
  BY <1>1 DEF Handles, Handle, Contents
<1>11. Plain!Written(f, bytes) = new
  <2> DEFINE end == SubSeq(v, at + 1, Len(v))
  <2>1. Plain!Following(f) = end
    BY <1>10, PlainIs DEF Plain!Following
  <2>2. Plain!Written(f, bytes) = SubSeq(v, 1, at) \o bytes \o SubSeq(end, Len(bytes) + 1, Len(end))
    BY <1>10, <2>1, PlainIs, Zenon DEF Plain!Written
  <2>3. SubSeq(end, Len(bytes) + 1, Len(end)) = SubSeq(v, at + Len(bytes) + 1, Len(v))
    <3> HIDE DEF v, at
    <3> DEFINE i == Len(bytes) + 1
               j == Len(v) - at
    <3>1. i \in Nat \ {0} /\ j \in 0 .. Len(v) - at /\ at + i = at + Len(bytes) + 1 /\ at + j = Len(v)
      BY <1>2, <1>3
    <3> HIDE DEF i, j
    <3>2. SubSeq(end, i, j) = SubSeq(v, at + i, at + j) /\ Len(end) = Len(v) - at
      BY <1>2, <3>1, PartOfPart
    <3> QED BY <3>1, <3>2 DEF i, j
  <2> QED BY <2>2, <2>3, Zenon DEF Overwrite
<1>12. Plain!Advance(f, k)
  BY <1>6, <1>8, <1>10, PlainIs, PlainBecomes DEF Plain!Advance
<1>13. [r \in Objs |-> View(r)]' = [[r \in Objs |-> View(r)] EXCEPT ![o] = Plain!Written(f, bytes)]
  BY <1>6, <1>9, <1>11, PlainIs, PlainBecomes
<1>14. Plain!Write(f, k)
  BY <1>1, <1>6, <1>10, <1>12, <1>13, PlainIs DEF Plain!Write
<1> QED BY <1>1, <1>6, <1>8, <1>14, BecomeAlone

(* SPIFFS_lseek, to the end or behind it.                                  *)
LEMMA SeekPlain ==
  ASSUME OwnInv, ~MayFill, NEW f \in Fds, NEW to \in 0 .. MaxSize, Seek(f, to)
  PROVE  (Plain!Seek(f, to) \/ Plain!SeekPastEnd(f)) /\ Alone(dir, Now)'
<1> DEFINE o == fd[f].obj
           v == ViewOf(Now, o)
<1>1. /\ o # None /\ o \in Objs /\ Good(Now) /\ Alone(dir, Now) /\ Now.fd = fd
      /\ to \in Nat /\ dir' = dir
  BY OwnFacts, SizesAssumption DEF Seek, IsOpen
<1>2. v \in Seq(Bytes) /\ Len(v) \in Nat
  BY <1>1, ViewRight
<1>3. PICK w \in Flush(Now, f) :
          LET size == Length(w.state.fd[f].size)
              there == [w.state EXCEPT !.fd[f].offset = Least(to, size)]
          IN  Return(Outcome(there, to <= size))
  BY DEF Seek
<1>4. /\ w.state.fd[f].obj = o /\ Good(w.state) /\ w.state \in StateType /\ Kin(Now, w.state)
  BY <1>1, FlushGood DEF Flushed, Kin, Good
<1>5. w.state.data[o] = v
  BY <1>1, FlushExact
<1>6. Length(w.state.fd[f].size) = Len(v)
  BY <1>1, <1>4, <1>5 DEF Good, SizesRight, Agrees
<1> DEFINE x == Least(to, Len(v))
           t == Moved(w.state, f, x)
<1>7. Become(t) /\ result' = IF to <= Len(v) THEN Ok ELSE Err
  BY <1>3, <1>6 DEF Return, Outcome, Moved
<1>8. t.data = w.state.data /\ t.page = w.state.page /\ Moves(Now, t, f, x)
  <2>1. w.state.fd \in [Fds -> FdType] /\ w.state = [data |-> w.state.data, fd |-> w.state.fd, page |-> w.state.page]
    BY <1>4 DEF StateType
  <2> HIDE DEF x
  <2>2. t = [data |-> w.state.data, fd |-> [w.state.fd EXCEPT ![f].offset = x], page |-> w.state.page]
    BY <2>1 DEF Moved
  <2> HIDE DEF t
  <2>3. \A g \in Fds : /\ t.fd[g].obj = w.state.fd[g].obj /\ t.fd[g].flags = w.state.fd[g].flags
                       /\ t.fd[g].offset = IF g = f THEN x ELSE w.state.fd[g].offset
    BY <2>1, <2>2 DEF FdType
  <2> QED BY <1>4, <2>2, <2>3 DEF Moves, Kin
<1> HIDE DEF t
<1>9. /\ Contents(t) = Contents(Now) /\ Handles(t) = [Handles(Now) EXCEPT ![f].offset = x]
      /\ Alone(dir, t)
  <2> HIDE DEF x
  <2> QED BY <1>1, <1>8, FlushSeen
<1>10. /\ Handles(Now)[f].obj = o /\ Contents(Now)[o] = v
  BY <1>1 DEF Handles, Handle, Contents
<1>11. CASE to <= Len(v)
  <2>1. x = to
    <3> HIDE DEF v
    <3> QED BY <1>1, <1>2, <1>11 DEF Least
  <2> HIDE DEF x
  <2>2. Plain!Seek(f, to)
    BY <1>1, <1>7, <1>9, <1>10, <1>11, <2>1, PlainIs, PlainBecomes DEF Plain!Seek
  <2> QED BY <1>1, <1>7, <1>9, <2>2, BecomeAlone
<1>12. CASE ~(to <= Len(v))
  <2>1. x = Len(v)
    <3> HIDE DEF v
    <3> QED BY <1>1, <1>2, <1>12 DEF Least
  <2> HIDE DEF x
  <2>2. Plain!SeekPastEnd(f)
    BY <1>1, <1>7, <1>9, <1>10, <1>12, <2>1, PlainIs, PlainBecomes DEF Plain!SeekPastEnd
  <2> QED BY <1>1, <1>7, <1>9, <2>2, BecomeAlone
<1> QED BY <1>11, <1>12

LEMMA SameHandles ==
  ASSUME NEW s, s.fd \in [Fds -> FdType], NEW f \in Fds
  PROVE  [Handles(s) EXCEPT ![f].offset = s.fd[f].offset] = Handles(s)
BY DEF Handles, Handle

LEMMA KinMoves ==
  ASSUME NEW s, NEW t, Kin(s, t), NEW f \in Fds
  PROVE  Moves(s, t, f, s.fd[f].offset)
BY DEF Kin, Moves

(* SPIFFS_fstat.                                                           *)
LEMMA StatPlain ==
  ASSUME OwnInv, ~MayFill, NEW f \in Fds, Fstat(f)
  PROVE  Plain!Stat(f) /\ Alone(dir, Now)'
<1> DEFINE o == fd[f].obj
           v == ViewOf(Now, o)
<1>1. /\ o # None /\ o \in Objs /\ Good(Now) /\ Alone(dir, Now) /\ Now.fd = fd
      /\ fd \in [Fds -> FdType] /\ dir' = dir
  BY OwnFacts DEF Fstat, IsOpen
<1>2. PICK w \in Flush(Now, f) :
        Become(w.state) /\ result' = [size |-> Len(w.state.data[fd[f].obj])]
  BY DEF Fstat
<1>3. w.state.data[o] = v
  BY <1>1, FlushExact
<1>4. Moves(Now, w.state, f, fd[f].offset)
  BY <1>1, FlushGood, KinMoves DEF Flushed
<1>5. /\ Contents(w.state) = Contents(Now)
      /\ Handles(w.state) = [Handles(Now) EXCEPT ![f].offset = fd[f].offset]
      /\ Alone(dir, w.state)
  BY <1>1, <1>4, FlushSeen
<1>6. Handles(w.state) = Handles(Now)
  BY <1>1, <1>5, SameHandles
<1>7. /\ Handles(Now)[f].obj = o /\ Contents(Now)[o] = v
  BY <1>1 DEF Handles, Handle, Contents
<1>8. Plain!Stat(f)
  BY <1>1, <1>2, <1>3, <1>5, <1>6, <1>7, PlainIs, PlainBecomes DEF Plain!Stat
<1> QED BY <1>1, <1>2, <1>5, <1>8, BecomeAlone

(* A descriptor is given back; of the other open files nothing changes.    *)
GivesBack(s, d, t, e, f) ==
    /\ Handle(t.fd[f]) = Plain!Closed
    /\ \A g \in Fds \ {f} : t.fd[g] = s.fd[g]
    /\ \A g \in Fds \ {f} : s.fd[g].obj # None => \A p \in Pages :
          s.page[p].obj = s.fd[g].obj \/ t.page[p].obj = s.fd[g].obj => t.page[p] = s.page[p]
    /\ \A g \in Fds \ {f}, n \in Names :
          s.fd[g].obj # None /\ d[n] = s.fd[g].obj => e[n] = d[n]

LEMMA GivenBack ==
  ASSUME NEW s, NEW d, Alone(d, s), NEW f \in Fds, NEW t, NEW e, GivesBack(s, d, t, e, f)
  PROVE  Alone(e, t) /\ Handles(t) = [Handles(s) EXCEPT ![f] = Plain!Closed]
<1>1. Handles(t) = [Handles(s) EXCEPT ![f] = Plain!Closed]
  BY DEF GivesBack, Handles
<1>2. t.fd[f].obj = None
  <2>1. Handle(t.fd[f]).obj = None
    BY DEF GivesBack, Plain!Closed
  <2> QED BY <2>1 DEF Handle
<1>3. OneFd(t)
  BY <1>2 DEF Alone, OneFd, GivesBack
<1>4. AtEnd(t)
  <2> SUFFICES ASSUME NEW g \in Fds, NEW q \in Pages, t.fd[g].obj # None, t.page[q].obj = t.fd[g].obj
               PROVE  t.fd[g].offset = t.page[q].offset + Len(t.page[q].bytes)
    BY DEF AtEnd
  <2>1. t.fd[g] = s.fd[g]
    BY <1>2 DEF GivesBack
  <2>2. t.page[q] = s.page[q]
    BY <1>2, <2>1 DEF GivesBack
  <2> QED BY <2>1, <2>2 DEF Alone, AtEnd
<1>5. Named(e, t)
  BY <1>2 DEF Alone, Named, GivesBack
<1> QED BY <1>1, <1>3, <1>4, <1>5 DEF Alone

(* SPIFFS_close.                                                           *)
LEMMA ClosePlain ==
  ASSUME OwnInv, ~MayFill, NEW f \in Fds, Close(f)
  PROVE  Plain!Close(f) /\ Alone(dir, Now)'
<1> DEFINE o == fd[f].obj
<1>1. /\ o # None /\ o \in Objs /\ Good(Now) /\ Alone(dir, Now) /\ Now.fd = fd
      /\ fd \in [Fds -> FdType] /\ dir' = dir
  BY OwnFacts DEF Close, IsOpen
<1>2. PICK w \in Flush(Now, f) :
        Return(IF w.ok THEN Outcome([w.state EXCEPT !.fd[f] = Closed(@)], TRUE) ELSE w)
  BY DEF Close
<1>3. w.ok
  BY <1>1, FlushExact
<1> DEFINE u == w.state
           t == [u EXCEPT !.fd[f] = Closed(@)]
<1>4. Become(t) /\ result' = Ok
  BY <1>2, <1>3 DEF Return, Outcome
<1>5. /\ Good(u) /\ u \in StateType /\ Kin(Now, u)
  BY <1>1, FlushGood DEF Flushed, Good
<1>6. /\ Contents(u) = Contents(Now) /\ Handles(u) = Handles(Now) /\ Alone(dir, u)
  <2>1. Moves(Now, u, f, fd[f].offset)
    BY <1>1, <1>5, KinMoves
  <2>2. /\ Contents(u) = Contents(Now)
        /\ Handles(u) = [Handles(Now) EXCEPT ![f].offset = fd[f].offset]
        /\ Alone(dir, u)
    BY <1>1, <2>1, FlushSeen
  <2> QED BY <1>1, <2>2, SameHandles
<1> DEFINE h == Closed(u.fd[f])
<1>7. h.obj = None /\ h.flags = {} /\ h.offset = 0
  BY DEF Closed, ClosedFd
<1>8. /\ u.fd \in [Fds -> FdType]
      /\ u = [data |-> u.data, fd |-> u.fd, page |-> u.page]
  BY <1>5 DEF StateType
<1>9. /\ t.data = u.data /\ t.page = u.page
      /\ \A g \in Fds : t.fd[g] = IF g = f THEN h ELSE u.fd[g]
  <2>1. t = [u EXCEPT !.fd[f] = h]
    OBVIOUS
  <2> HIDE DEF h, u, t
  <2>2. t = [data |-> u.data, fd |-> [u.fd EXCEPT ![f] = h], page |-> u.page]
    BY <1>8, <2>1
  <2> QED BY <1>8, <2>2
<1> HIDE DEF h, u, t
<1>10. Alone(dir, t) /\ Handles(t) = [Handles(u) EXCEPT ![f] = Plain!Closed]
  <2>1. Handle(t.fd[f]) = Plain!Closed
    BY <1>7, <1>9 DEF Handle, Plain!Closed
  <2>2. GivesBack(u, dir, t, dir, f)
    BY <1>9, <2>1 DEF GivesBack
  <2> QED BY <1>6, <2>2, GivenBack
<1>11. Contents(t) = Contents(u)
  <2>1. ASSUME NEW r \in Objs PROVE ViewOf(t, r) = ViewOf(u, r)
    BY <1>9, ViewSame
  <2> QED BY <2>1 DEF Contents
<1>12. Handles(Now)[f].obj = o
  BY <1>1 DEF Handles, Handle
<1>13. Plain!Close(f)
  BY <1>1, <1>4, <1>6, <1>10, <1>11, <1>12, PlainIs, PlainBecomes DEF Plain!Close
<1> QED BY <1>1, <1>4, <1>10, <1>13, BecomeAlone

(* SPIFFS_fremove.                                                         *)
LEMMA RemovePlain ==
  ASSUME OwnInv, ~MayFill, NEW f \in Fds, Fremove(f)
  PROVE  Plain!Remove(f) /\ Alone(dir, Now)'
<1> DEFINE o == fd[f].obj
           q == fd[f].page
           r == IF q = None THEN Now ELSE Release(Now, q)
           t == Removed(r, o)
<1>1. /\ "WRONLY" \in fd[f].flags /\ o # None /\ o \in Objs /\ Good(Now) /\ Alone(dir, Now)
      /\ Now.fd = fd /\ Now.page = page /\ Now.data = data
      /\ fd \in [Fds -> FdType] /\ page \in [Pages -> PageType] /\ data \in [Objs -> Content]
      /\ dir' = [n \in Names |-> IF dir[n] = o THEN None ELSE dir[n]]
      /\ dir \in [Names -> Objs \cup {None}]
  <2>1. /\ "WRONLY" \in fd[f].flags
        /\ dir' = [n \in Names |-> IF dir[n] = o THEN None ELSE dir[n]]
    BY DEF Fremove
  <2> QED BY <2>1, OwnFacts
<1>2. Become(t) /\ result' = Ok
  BY DEF Fremove, Return, Outcome, Removed
<1>3. /\ q \in Pages \cup {None} /\ (q # None => page[q].obj = o)
      /\ \A g \in Fds : fd[g].page # None => fd[g].obj # None /\ page[fd[g].page].obj = fd[g].obj
      /\ \A g \in Fds : fd[g].obj = o => g = f
      /\ \A p \in Pages : page[p].obj = o => p = q /\ q # None
  <2>1. PointsOwn(Now) /\ Pointed(Now) /\ OneFd(Now)
    BY <1>1 DEF Good, Alone
  <2>2. \A g \in Fds : fd[g].obj = o => g = f
    BY <1>1, <2>1 DEF OneFd
  <2>3. /\ q \in Pages \cup {None}
        /\ \A g \in Fds : fd[g].page # None => fd[g].obj # None /\ page[fd[g].page].obj = fd[g].obj
    BY <1>1, <2>1 DEF PointsOwn, FdType
  <2>4. ASSUME NEW p \in Pages, page[p].obj = o PROVE p = q /\ q # None
    <3>1. PICK g \in Fds : fd[g].obj = o /\ fd[g].page = p
      BY <1>1, <2>1, <2>4 DEF Pointed
    <3> QED BY <2>2, <3>1, NoneAssumption
  <2> QED BY <2>2, <2>3, <2>4
<1> DEFINE fds == [g \in Fds |-> IF fd[g].obj # None /\ fd[g].page = q
                                   THEN [fd[g] EXCEPT !.page = None] ELSE fd[g]]
<1>4. /\ r = [data |-> data, fd |-> r.fd, page |-> r.page]
      /\ r.page = IF q = None THEN page ELSE [page EXCEPT ![q] = FreePage]
      /\ r.fd = IF q = None THEN fd ELSE fds
  <2>1. CASE q = None
    BY <2>1 DEF Now
  <2>2. CASE q # None
    <3> DEFINE u == [Now EXCEPT !.page[q] = FreePage]
    <3>1. u = [data |-> data, fd |-> fd, page |-> [page EXCEPT ![q] = FreePage]]
      BY DEF Now
    <3>2. r = [u EXCEPT !.fd = fds]
      BY <1>1, <2>2 DEF Release
    <3> HIDE DEF u, fds, r
    <3> QED BY <2>2, <3>1, <3>2
  <2> QED BY <2>1, <2>2
<1> HIDE DEF r
<1>5. /\ t.data = [data EXCEPT ![o] = <<>>] /\ t.page = r.page
      /\ t.fd = [g \in Fds |-> IF r.fd[g].obj = o THEN Closed(r.fd[g]) ELSE r.fd[g]]
  <2> DEFINE closed == [g \in Fds |-> IF r.fd[g].obj = o THEN Closed(r.fd[g]) ELSE r.fd[g]]
  <2>1. t = [r EXCEPT !.data[o] = <<>>, !.fd = closed]
    BY DEF Removed
  <2> DEFINE u == [r EXCEPT !.data[o] = <<>>]
  <2>2. r.data = data /\ r = [data |-> data, fd |-> r.fd, page |-> r.page]
    BY <1>4
  <2>3. u = [data |-> [data EXCEPT ![o] = <<>>], fd |-> r.fd, page |-> r.page]
    BY <2>2
  <2>4. t = [u EXCEPT !.fd = closed]
    BY <2>1
  <2> HIDE DEF closed, t, o, u
  <2>5. t = [data |-> [data EXCEPT ![o] = <<>>], fd |-> closed, page |-> r.page]
    BY <2>3, <2>4
  <2> QED BY <2>5 DEF closed
<1> HIDE DEF t
<1>6. ASSUME NEW g \in Fds, g # f PROVE t.fd[g] = fd[g]
  <2>1. r.fd[g] = fd[g]
    <3>1. q # None => ~(fd[g].obj # None /\ fd[g].page = q)
      BY <1>3, <1>6
    <3> QED BY <1>4, <3>1
  <2>2. fd[g].obj # o
    BY <1>3, <1>6
  <2> QED BY <1>5, <2>1, <2>2
<1>7. Handle(t.fd[f]) = Plain!Closed
  <2>1. r.fd[f].obj = o
    BY <1>1, <1>4 DEF FdType
  <2>2. t.fd[f] = Closed(r.fd[f])
    BY <1>5, <2>1
  <2> QED BY <2>2 DEF Closed, ClosedFd, Handle, Plain!Closed
<1>8. \A p \in Pages : t.page[p] = IF page[p].obj = o THEN FreePage ELSE page[p]
  BY <1>1, <1>3, <1>4, <1>5
<1>9. FreePage.obj = None
  BY DEF FreePage
<1>10. GivesBack(Now, dir, t, dir', f)
  <2>1. ASSUME NEW g \in Fds \ {f}, fd[g].obj # None, NEW p \in Pages,
               page[p].obj = fd[g].obj \/ t.page[p].obj = fd[g].obj
        PROVE  t.page[p] = page[p]
    <3>1. fd[g].obj # o
      BY <1>3
    <3> QED BY <1>8, <1>9, <2>1, <3>1
  <2>2. ASSUME NEW g \in Fds \ {f}, NEW n \in Names, fd[g].obj # None, dir[n] = fd[g].obj
        PROVE  dir'[n] = dir[n]
    BY <1>1, <1>3, <2>2
  <2> QED BY <1>1, <1>6, <1>7, <2>1, <2>2 DEF GivesBack
<1>11. Alone(dir', t) /\ Handles(t) = [Handles(Now) EXCEPT ![f] = Plain!Closed]
  BY <1>1, <1>10, GivenBack
<1>12. ASSUME NEW x \in Objs PROVE ViewOf(t, x) = IF x = o THEN <<>> ELSE ViewOf(Now, x)
  <2>1. CASE x = o
    <3>1. NoPage(t, o)
      BY <1>1, <1>8, <1>9 DEF NoPage
    <3>2. ViewOf(t, o) = t.data[o]
      BY <3>1, ViewWithout
    <3> QED BY <1>1, <1>5, <2>1, <3>2
  <2>2. CASE x # o
    <3>1. t.data[x] = Now.data[x] /\ x # None
      BY <1>1, <1>5, <2>2, NoneAssumption
    <3>2. \A p \in Pages : (t.page[p].obj = x) <=> (Now.page[p].obj = x)
      BY <1>1, <1>8, <1>9, <2>2, <3>1
    <3>3. \A p \in Pages : Now.page[p].obj = x =>
             t.page[p].offset = Now.page[p].offset /\ t.page[p].bytes = Now.page[p].bytes
      BY <1>1, <1>8, <2>2
    <3>4. ViewOf(t, x) = ViewOf(Now, x)
      BY <3>1, <3>2, <3>3, ViewSame
    <3> QED BY <2>2, <3>4
  <2> QED BY <2>1, <2>2
<1>13. Contents(t) = [Contents(Now) EXCEPT ![o] = <<>>]
  BY <1>1, <1>12 DEF Contents
<1>14. Handles(Now)[f].obj = o /\ Handles(Now)[f].flags = fd[f].flags
  BY <1>1 DEF Handles, Handle
<1>15. Plain!Remove(f)
  BY <1>1, <1>2, <1>11, <1>13, <1>14, PlainIs, PlainBecomes DEF Plain!Remove
<1> QED BY <1>2, <1>11, <1>15, BecomeAlone

(* A descriptor is taken for a file nobody else has open.                  *)
Fresh(o, flags) == [obj |-> o, flags |-> flags, offset |-> 0]
Leads(d, e, n, o) == e[n] = o /\ \A m \in Names : d[m] # None => e[m] = d[m]

Takes(s, d, t, e, f, n, o, flags) ==
    /\ s.fd[f].obj = None /\ \A g \in Fds : s.fd[g].obj # o
    /\ t.page = s.page
    /\ Handle(t.fd[f]) = Fresh(o, flags)
    /\ \A g \in Fds \ {f} : Handle(t.fd[g]) = Handle(s.fd[g])
    /\ Leads(d, e, n, o)
HasTaken(s, t, e, f, o, flags) ==
    /\ Alone(e, t) /\ NoPage(s, o)
    /\ Handles(t) = [Handles(s) EXCEPT ![f] = Fresh(o, flags)]

LEMMA Taken ==
  ASSUME NEW s, Good(s), NEW d, Alone(d, s), NEW t, NEW e, NEW f \in Fds, NEW n \in Names,
         NEW o \in Objs, NEW flags, Takes(s, d, t, e, f, n, o, flags)
  PROVE  HasTaken(s, t, e, f, o, flags)
<1>1. o # None
  BY NoneAssumption
<1>2. NoPage(s, o)
  BY <1>1 DEF Good, Pointed, NoPage, Takes
<1>3. Handles(t) = [Handles(s) EXCEPT ![f] = Fresh(o, flags)]
  BY DEF Handles, Takes
<1>4. t.fd[f].obj = o /\ \A g \in Fds \ {f} : t.fd[g].obj = s.fd[g].obj /\ t.fd[g].offset = s.fd[g].offset
  BY DEF Handle, Takes, Fresh
<1>5. OneFd(t)
  BY <1>1, <1>4 DEF OneFd, Alone, Takes
<1>6. Named(e, t)
  <2>1. ASSUME NEW g \in Fds, g # f, t.fd[g].obj # None PROVE \E m \in Names : e[m] = t.fd[g].obj
    <3>1. PICK m \in Names : d[m] = s.fd[g].obj
      BY <1>4, <2>1 DEF Alone, Named
    <3>2. s.fd[g].obj = t.fd[g].obj
      BY <1>4, <2>1
    <3>3. e[m] = d[m]
      BY <2>1, <3>1, <3>2 DEF Takes, Leads
    <3> QED BY <3>1, <3>2, <3>3
  <2> QED BY <1>4, <2>1 DEF Named, Takes, Leads
<1>7. AtEnd(t)
  <2> SUFFICES ASSUME NEW g \in Fds, NEW q \in Pages, t.fd[g].obj # None, t.page[q].obj = t.fd[g].obj
               PROVE  t.fd[g].offset = t.page[q].offset + Len(t.page[q].bytes)
    BY DEF AtEnd
  <2>1. t.page[q] = s.page[q]
    BY DEF Takes
  <2>2. g # f
    BY <1>2, <1>4, <2>1 DEF NoPage
  <2>3. t.fd[g].offset = s.fd[g].offset /\ t.fd[g].obj = s.fd[g].obj
    BY <1>4, <2>2
  <2> QED BY <2>1, <2>3 DEF Alone, AtEnd
<1> QED BY <1>2, <1>3, <1>5, <1>6, <1>7 DEF Alone, HasTaken

(* A call that takes a descriptor: Open, or Open and truncate, or create.  *)
LEMMA OpenedTakes ==
  ASSUME OwnInv, ~MayFill, NEW f \in Fds, fd[f].obj = None, NEW o \in Objs, OpenOn(o) = {},
         NEW flags, NEW n \in Names, NEW e, Leads(dir, e, n, o)
  PROVE  /\ Opened(Now, f, o, flags).data = data
         /\ Takes(Now, dir, Opened(Now, f, o, flags), e, f, n, o, flags)
<1> DEFINE h == [obj |-> o, flags |-> flags, offset |-> 0, page |-> fd[f].page,
                 size |-> IF data[o] = <<>> THEN Undefined ELSE Len(data[o])]
           t == Opened(Now, f, o, flags)
<1>1. Now.fd = fd /\ fd \in [Fds -> FdType]
  BY OwnFacts
<1>2. t = [data |-> data, fd |-> [fd EXCEPT ![f] = h], page |-> page]
  BY DEF Opened, Now
<1>3. Handle(h) = Fresh(o, flags)
  BY DEF Handle, Fresh
<1> HIDE DEF h, t
<1>4. t.data = data /\ t.page = page /\ t.fd[f] = h /\ \A g \in Fds \ {f} : t.fd[g] = fd[g]
  BY <1>1, <1>2
<1>5. \A g \in Fds : fd[g].obj # o
  BY DEF OpenOn
<1> QED BY <1>1, <1>3, <1>4, <1>5 DEF Takes, Now, t

(* SPIFFS_open of a file nobody has open.                                  *)
LEMMA OpenPlain ==
  ASSUME OwnInv, ~MayFill, ~SharedFiles, NEW f \in Fds, NEW n \in Names, NEW flags \in Modes,
         Open(n, f, flags)
  PROVE  Plain!Open(n, f, flags) /\ Alone(dir, Now)'
<1> DEFINE o == dir[n]
           t == Opened(Now, f, o, flags)
<1>1. /\ fd[f].obj = None /\ o # None /\ o \in Objs /\ OpenOn(o) = {} /\ dir' = dir
      /\ Good(Now) /\ Alone(dir, Now) /\ Now.fd = fd /\ Now.page = page /\ Now.data = data
  <2>1. fd[f].obj = None /\ o # None /\ OpenOn(o) = {} /\ dir' = dir
    BY DEF Open, MayOpen, IsOpen
  <2> QED BY <2>1, OwnFacts
<1>2. Become(t) /\ result' = Ok
  BY DEF Open, Return, Outcome
<1>3. t.data = data /\ Takes(Now, dir, t, dir, f, n, o, flags)
  <2>1. Leads(dir, dir, n, o)
    BY DEF Leads
  <2> QED BY <1>1, <2>1, OpenedTakes
<1> HIDE DEF t
<1>4. /\ Alone(dir, t)
      /\ Handles(t) = [Handles(Now) EXCEPT ![f] = Fresh(o, flags)]
  <2>1. HasTaken(Now, t, dir, f, o, flags)
    BY <1>1, <1>3, Taken
  <2> QED BY <2>1 DEF HasTaken
<1>5. Contents(t) = Contents(Now)
  <2>1. ASSUME NEW r \in Objs PROVE ViewOf(t, r) = ViewOf(Now, r)
    BY <1>1, <1>3, ViewSame DEF Takes
  <2> QED BY <2>1 DEF Contents
<1>6. Handles(Now)[f].obj = None
  BY <1>1 DEF Handles, Handle
<1>7. Plain!Open(n, f, flags)
  BY <1>1, <1>2, <1>4, <1>5, <1>6, PlainIs, PlainBecomes DEF Plain!Open, Plain!Opened, Fresh
<1> QED BY <1>1, <1>2, <1>4, <1>7, BecomeAlone

(* SPIFFS_open with SPIFFS_CREAT of a name nothing has.                    *)
LEMMA CreatePlain ==
  ASSUME OwnInv, ~MayFill, NEW f \in Fds, NEW n \in Names, NEW flags \in Modes,
         OpenCreated(n, f, flags)
  PROVE  Plain!Create(n, f, flags) /\ Alone(dir, Now)'
<1>1. PICK o \in Objs \ {dir[m] : m \in Names} :
        /\ fd[f].obj = None /\ dir[n] = None /\ dir' = [dir EXCEPT ![n] = o]
        /\ Become(Opened(Now, f, o, flags)) /\ result' = Ok
  BY DEF OpenCreated, IsOpen, Return, Outcome
<1> DEFINE t == Opened(Now, f, o, flags)
<1>2. /\ o # None /\ Good(Now) /\ Alone(dir, Now) /\ Now.fd = fd /\ Now.page = page
      /\ Now.data = data /\ dir \in [Names -> Objs \cup {None}]
  BY OwnFacts, NoneAssumption
<1>3. OpenOn(o) = {}
  BY <1>1, <1>2 DEF Alone, Named, OpenOn
<1>4. Leads(dir, dir', n, o)
  BY <1>1, <1>2 DEF Leads
<1>5. t.data = data /\ Takes(Now, dir, t, dir', f, n, o, flags)
  <2>1. ASSUME NEW e, e = dir' PROVE t.data = data /\ Takes(Now, dir, t, e, f, n, o, flags)
    BY <1>1, <1>3, <1>4, <2>1, OpenedTakes
  <2> QED BY <2>1
<1> HIDE DEF t
<1>6. /\ Alone(dir', t)
      /\ Handles(t) = [Handles(Now) EXCEPT ![f] = Fresh(o, flags)]
  <2>1. HasTaken(Now, t, dir', f, o, flags)
    BY <1>1, <1>2, <1>5, Taken
  <2> QED BY <2>1 DEF HasTaken
<1>7. Contents(t) = Contents(Now)
  <2>1. ASSUME NEW r \in Objs PROVE ViewOf(t, r) = ViewOf(Now, r)
    BY <1>2, <1>5, ViewSame DEF Takes
  <2> QED BY <2>1 DEF Contents
<1>8. Handles(Now)[f].obj = None
  BY <1>1, <1>2 DEF Handles, Handle
<1>9. Plain!Opened(f, o, flags) /\ o \in Plain!Unused
  BY <1>1, <1>6, <1>8, PlainIs, PlainBecomes DEF Plain!Opened, Plain!Unused, Fresh, t
<1>10. Plain!Create(n, f, flags)
  BY <1>1, <1>7, <1>9, PlainIs, PlainBecomes DEF Plain!Create, t
<1> QED BY <1>1, <1>6, <1>10, BecomeAlone DEF t

(* Emptying a file only changes what descriptors know of its size.         *)
LEMMA EmptiedHandles ==
  ASSUME NEW s \in StateType, NEW f \in Fds, NEW g \in Fds
  PROVE  Handle(Emptied(s, f).fd[g]) = Handle(s.fd[g])
<1> DEFINE o == s.fd[f].obj
           u == [s EXCEPT !.data[o] = <<>>]
           fds == [i \in Fds |-> IF u.fd[i].obj = o THEN [u.fd[i] EXCEPT !.size = Undefined]
                                                   ELSE u.fd[i]]
           e == [u EXCEPT !.fd = fds]
           t == [e EXCEPT !.fd[f].size = 0]
<1>1. s = [data |-> s.data, fd |-> s.fd, page |-> s.page] /\ s.fd \in [Fds -> FdType]
  BY DEF StateType
<1>2. u = [data |-> [s.data EXCEPT ![o] = <<>>], fd |-> s.fd, page |-> s.page]
  BY <1>1
<1>3. Emptied(s, f) = IF s.fd[f].size = Undefined THEN s ELSE t
  BY DEF Emptied, Announce
<1>4. ASSUME NEW i \in Fds PROVE Handle(fds[i]) = Handle(s.fd[i]) /\ i \in DOMAIN fds
  <2>1. u.fd = s.fd
    BY <1>2
  <2> HIDE DEF u
  <2> QED BY <2>1 DEF Handle
<1> HIDE DEF u, fds
<1>5. e = [data |-> [s.data EXCEPT ![o] = <<>>], fd |-> fds, page |-> s.page]
  BY <1>2
<1> HIDE DEF e
<1>6. t = [data |-> [s.data EXCEPT ![o] = <<>>], fd |-> [fds EXCEPT ![f].size = 0], page |-> s.page]
  BY <1>5
<1> HIDE DEF t
<1>7. Handle([fds EXCEPT ![f].size = 0][g]) = Handle(fds[g])
  BY <1>4 DEF Handle
<1> QED BY <1>3, <1>4, <1>6, <1>7

(* SPIFFS_open with SPIFFS_TRUNC.                                          *)
LEMMA TruncatePlain ==
  ASSUME OwnInv, ~MayFill, NEW f \in Fds, NEW n \in Names, NEW flags \in Modes,
         OpenTruncated(n, f, flags)
  PROVE  Plain!Truncate(n, f, flags) /\ Alone(dir, Now)'
<1> DEFINE o == dir[n]
           s == Opened(Now, f, o, flags)
           t == Emptied(s, f)
<1>1. /\ fd[f].obj = None /\ o # None /\ o \in Objs /\ OpenOn(o) = {} /\ dir' = dir
      /\ Good(Now) /\ Alone(dir, Now) /\ Now.fd = fd /\ Now.page = page /\ Now.data = data
      /\ data \in [Objs -> Content]
  <2>1. fd[f].obj = None /\ o # None /\ OpenOn(o) = {} /\ dir' = dir
    BY DEF OpenTruncated, IsOpen
  <2> QED BY <2>1, OwnFacts
<1>2. Become(t) /\ result' = Ok
  BY DEF OpenTruncated, Return, Outcome
<1>3. s.data = data /\ Takes(Now, dir, s, dir, f, n, o, flags)
  <2>1. Leads(dir, dir, n, o)
    BY DEF Leads
  <2> QED BY <1>1, <2>1, OpenedTakes
<1>4. s \in StateType
  BY <1>1, OpenedGood DEF Good
<1>5. s.fd[f].size = Undefined => data[o] = <<>>
  <2> DEFINE size == IF data[o] = <<>> THEN Undefined ELSE Len(data[o])
             h == [obj |-> o, flags |-> flags, offset |-> 0, page |-> fd[f].page, size |-> size]
  <2>1. fd \in [Fds -> FdType] /\ Len(data[o]) \in Nat
    BY <1>1, OwnFacts, ContentIs, LenProperties
  <2>2. s = [data |-> data, fd |-> [fd EXCEPT ![f] = h], page |-> page]
    BY DEF Opened, Now
  <2>3. h.size = size
    OBVIOUS
  <2> HIDE DEF h, s
  <2>4. s.fd[f].size = size
    BY <2>1, <2>2, <2>3
  <2> QED BY <2>1, <2>4, NoneAssumption
<1> HIDE DEF s
<1>6. /\ t.page = page
      /\ t.data = IF s.fd[f].size = Undefined THEN data ELSE [data EXCEPT ![o] = <<>>]
      /\ \A g \in Fds : Handle(t.fd[g]) = Handle(s.fd[g])
  <2>1. s.page = page /\ s.fd[f].obj = o
    <3>1. Handle(s.fd[f]).obj = Fresh(o, flags).obj /\ s.page = page
      BY <1>1, <1>3 DEF Takes
    <3> QED BY <3>1 DEF Handle, Fresh
  <2> QED BY <1>3, <1>4, <2>1, EmptiedPage, EmptiedHandles
<1> HIDE DEF t
<1>7. /\ Alone(dir, t) /\ NoPage(Now, o)
      /\ Handles(t) = [Handles(Now) EXCEPT ![f] = Fresh(o, flags)]
  <2>1. Takes(Now, dir, t, dir, f, n, o, flags)
    BY <1>1, <1>3, <1>6 DEF Takes
  <2>2. HasTaken(Now, t, dir, f, o, flags)
    BY <1>1, <2>1, Taken
  <2> QED BY <2>2 DEF HasTaken
<1>8. t.data = [data EXCEPT ![o] = <<>>]
  BY <1>1, <1>5, <1>6
<1>9. ASSUME NEW x \in Objs PROVE ViewOf(t, x) = IF x = o THEN <<>> ELSE ViewOf(Now, x)
  <2>1. CASE x = o
    <3>1. NoPage(t, o)
      BY <1>1, <1>6, <1>7 DEF NoPage
    <3>2. ViewOf(t, o) = t.data[o]
      BY <3>1, ViewWithout
    <3> QED BY <1>1, <1>8, <2>1, <3>2
  <2>2. CASE x # o
    <3>1. t.data[x] = Now.data[x] /\ t.page = Now.page
      BY <1>1, <1>6, <1>8, <2>2
    <3>2. ViewOf(t, x) = ViewOf(Now, x)
      BY <3>1, ViewSame
    <3> QED BY <2>2, <3>2
  <2> QED BY <2>1, <2>2
<1>10. Contents(t) = [Contents(Now) EXCEPT ![o] = <<>>]
  BY <1>1, <1>9 DEF Contents
<1>11. Handles(Now)[f].obj = None
  BY <1>1 DEF Handles, Handle
<1>12. Plain!Truncate(n, f, flags)
  BY <1>1, <1>2, <1>7, <1>10, <1>11, PlainIs, PlainBecomes DEF Plain!Truncate, Plain!Opened, Fresh
<1> QED BY <1>1, <1>2, <1>7, <1>12, BecomeAlone

(* The calls one by one.                                                   *)
LEMMA CallPlain ==
  ASSUME OwnInv, ~SharedFiles, ~MayFill, NEW f \in Fds, Call(f)
  PROVE  Plain!Use(f) /\ Alone(dir, Now)'
<1>1. ASSUME NEW n \in Names, NEW flags \in Modes,
             Open(n, f, flags) \/ OpenTruncated(n, f, flags) \/ OpenCreated(n, f, flags)
      PROVE  Plain!Use(f) /\ Alone(dir, Now)'
  <2>1. \/ Plain!Open(n, f, flags) \/ Plain!Truncate(n, f, flags) \/ Plain!Create(n, f, flags)
    BY <1>1, OpenPlain, TruncatePlain, CreatePlain
  <2>2. Alone(dir, Now)'
    BY <1>1, OpenPlain, TruncatePlain, CreatePlain
  <2> QED BY <2>1, <2>2 DEF Plain!Use
<1>2. ASSUME NEW len \in 1 .. LogPage, Read(f, len)
      PROVE  Plain!Use(f) /\ Alone(dir, Now)'
  BY <1>2, ReadPlain DEF Plain!Use
<1>3. ASSUME NEW k \in 1 .. LogPage, NEW bytes \in [1 .. k -> Bytes], Write(f, bytes)
      PROVE  Plain!Use(f) /\ Alone(dir, Now)'
  BY <1>3, WritePlain DEF Plain!Use
<1>4. ASSUME NEW to \in 0 .. MaxSize, Seek(f, to)
      PROVE  Plain!Use(f) /\ Alone(dir, Now)'
  BY <1>4, SeekPlain DEF Plain!Use
<1>5. ASSUME Fstat(f) PROVE Plain!Use(f) /\ Alone(dir, Now)'
  BY <1>5, StatPlain DEF Plain!Use
<1>6. ASSUME Close(f) PROVE Plain!Use(f) /\ Alone(dir, Now)'
  BY <1>6, ClosePlain DEF Plain!Use
<1>7. ASSUME Fremove(f) PROVE Plain!Use(f) /\ Alone(dir, Now)'
  BY <1>7, RemovePlain DEF Plain!Use
<1> QED BY <1>1, <1>2, <1>3, <1>4, <1>5, <1>6, <1>7 DEF Call

LEMMA RenamePlain ==
  ASSUME OwnInv, ~MayFill, NEW old \in Names, NEW new \in Names, Rename(old, new)
  PROVE  Plain!Rename(old, new) /\ Alone(dir, Now)'
<1>1. /\ dir[old] # None /\ dir[new] = None /\ dir' = [dir EXCEPT ![old] = None, ![new] = dir[old]]
      /\ result' = Ok /\ Become(Now)
  BY DEF Rename, Become, Now
<1>2. Alone(dir, Now) /\ dir \in [Names -> Objs \cup {None}]
  BY OwnFacts
<1>3. \A n \in Names : dir'[n] = IF n = new THEN dir[old] ELSE IF n = old THEN None ELSE dir[n]
  BY <1>1, <1>2
<1>4. Named(dir', Now)
  <2> SUFFICES ASSUME NEW f \in Fds, Now.fd[f].obj # None
               PROVE  \E n \in Names : dir'[n] = Now.fd[f].obj
    BY DEF Named
  <2>1. PICK n \in Names : dir[n] = Now.fd[f].obj
    BY <1>2 DEF Alone, Named
  <2>2. CASE n = old
    BY <1>3, <2>1, <2>2
  <2>3. CASE n # old
    <3>1. n # new
      BY <1>1, <2>1
    <3> QED BY <1>3, <2>1, <2>3, <3>1
  <2> QED BY <2>2, <2>3
<1>5. Alone(dir', Now)
  BY <1>2, <1>4 DEF Alone
<1>6. Alone(dir, Now)'
  BY <1>1, <1>5, BecomeAlone
<1>7. Plain!Rename(old, new)
  BY <1>1, PlainIs, PlainBecomes DEF Plain!Rename
<1> QED BY <1>6, <1>7

LEMMA InitPlain == Init => OwnInv /\ Plain!Init
<1> SUFFICES ASSUME Init PROVE OwnInv /\ Plain!Init
  OBVIOUS
<1>1. /\ dir = [n \in Names |-> None] /\ data = [o \in Objs |-> <<>>]
      /\ fd = [f \in Fds |-> ClosedFd] /\ page = [p \in Pages |-> FreePage] /\ result = Ok
  BY DEF Init
<1>2. Now.fd = fd /\ Now.page = page /\ Now.data = data
  BY DEF Now
<1>3. (\A f \in Fds : fd[f].obj = None) /\ \A p \in Pages : page[p].obj = None
  BY <1>1 DEF ClosedFd, FreePage
<1>4. Alone(dir, Now)
  BY <1>2, <1>3 DEF Alone, OneFd, AtEnd, Named
<1>5. Contents(Now) = [o \in Objs |-> <<>>]
  <2>1. ASSUME NEW o \in Objs PROVE ViewOf(Now, o) = <<>>
    <3>1. NoPage(Now, o)
      BY <1>2, <1>3, NoneAssumption DEF NoPage
    <3> QED BY <1>1, <1>2, <3>1, ViewWithout
  <2> QED BY <2>1 DEF Contents
<1>6. Handles(Now) = [f \in Fds |-> Plain!Closed]
  BY <1>1, <1>2 DEF Handles, Handle, ClosedFd, Plain!Closed
<1>7. Plain!Init
  BY <1>1, <1>5, <1>6, PlainIs DEF Plain!Init
<1> QED BY <1>4, <1>7, InitRight DEF OwnInv

LEMMA StepPlain ==
  OwnInv /\ ~SharedFiles /\ ~MayFill /\ [Next]_vars => OwnInv' /\ [Plain!Next]_Plain!vars
<1> SUFFICES ASSUME OwnInv, ~SharedFiles, ~MayFill, [Next]_vars
             PROVE  Alone(dir, Now)' /\ [Plain!Next]_Plain!vars
  BY StepRight DEF OwnInv
<1>1. ASSUME dir' = dir, data' = data, fd' = fd, page' = page
      PROVE  /\ Alone(dir, Now)'
             /\ [o \in Objs |-> View(o)]' = [o \in Objs |-> View(o)]
             /\ [f \in Fds |-> [obj |-> fd[f].obj, flags |-> fd[f].flags, offset |-> fd[f].offset]]'
                  = [f \in Fds |-> [obj |-> fd[f].obj, flags |-> fd[f].flags, offset |-> fd[f].offset]]
  <2>1. Become(Now) /\ Alone(dir', Now)
    BY <1>1 DEF Become, Now, OwnInv
  <2> QED BY <2>1, BecomeAlone, PlainIs, PlainBecomes
<1>2. CASE Refuse
  BY <1>1, <1>2 DEF Refuse, Fails, Plain!Fails, Plain!Next
<1>3. CASE UNCHANGED vars
  BY <1>1, <1>3 DEF vars, Plain!vars
<1>4. ASSUME NEW f \in Fds, Call(f)
      PROVE  Alone(dir, Now)' /\ [Plain!Next]_Plain!vars
  BY <1>4, CallPlain DEF Plain!Next
<1>5. ASSUME NEW old \in Names, NEW new \in Names, Rename(old, new)
      PROVE  Alone(dir, Now)' /\ [Plain!Next]_Plain!vars
  BY <1>5, RenamePlain DEF Plain!Next
<1> QED BY <1>2, <1>3, <1>4, <1>5 DEF Next

(* SPIFFS_write and spiffs_cache.c together: while the flash has room and  *)
(* every file is open at most once, no sequence of calls can tell that a   *)
(* write stays in the cache.  What a read returns, the size fstat reports, *)
(* the position a seek reaches and what is left when a file is opened      *)
(* again are those of FileStore, where every write takes effect at once.   *)
THEOREM BehavesUncached == Spec /\ ~SharedFiles /\ ~MayFill => Uncached
<1>1. ~SharedFiles /\ ~MayFill => [](~SharedFiles /\ ~MayFill)
  OBVIOUS
<1> QED BY <1>1, InitPlain, StepPlain, PTL DEF Spec, Uncached, Plain!Spec
=============================================================================
