------------------------- MODULE SpiffsVolumeProofs -------------------------
(***************************************************************************)
(* What holds of a volume in every state, with any number of power losses  *)
(* and failed calls behind it: it mounts again, no lookup entry is used    *)
(* twice, what is marked deleted is entered as deleted, and the counts of  *)
(* erases give the ages of blocks.                                         *)
(***************************************************************************)
EXTENDS SpiffsVolume, FiniteSetTheorems, TLAPS

Ids == [obj : Objects, index : BOOLEAN]
Cursors == [block : Blocks, entry : 0 .. PerBlock]

-----------------------------------------------------------------------------

(* Page numbers, blocks and entries.                                       *)
LEMMA Scaled ==
  ASSUME NEW a \in Int, NEW b \in Int, NEW n \in Nat, a <= b
  PROVE  a * n <= b * n
<1>1. b * n - a * n = (b - a) * n
  OBVIOUS
<1>2. (b - a) * n >= 0
  OBVIOUS
<1> QED BY <1>1, <1>2

LEMMA PageIn ==
  ASSUME NEW b \in Blocks, NEW i \in 1 .. PerBlock
  PROVE  b * PerBlock + i \in Pages
<1>1. b \in Nat /\ b + 1 <= BlockCount /\ BlockCount \in Nat /\ PerBlock \in Nat
  BY GeometryAssumption DEF Blocks
<1>2. (b + 1) * PerBlock <= BlockCount * PerBlock
  BY <1>1, Scaled
<1>3. (b + 1) * PerBlock = b * PerBlock + PerBlock
  BY <1>1
<1> QED BY <1>1, <1>2, <1>3 DEF Pages

LEMMA CursorIn ==
  ASSUME NEW p \in Pages
  PROVE  /\ At(BlockOf(p), EntryOf(p)) \in Cursors
         /\ At(BlockOf(p), EntryOf(p) + 1) \in Cursors
<1> DEFINE q == (p - 1) \div PerBlock
           r == (p - 1) % PerBlock
<1>1. /\ PerBlock \in Nat \ {0} /\ BlockCount \in Nat /\ p - 1 \in Nat
      /\ p - 1 < BlockCount * PerBlock
  BY GeometryAssumption DEF Pages
<1>2. q \in Nat /\ r \in 0 .. PerBlock - 1 /\ p - 1 = q * PerBlock + r
  BY <1>1
<1>3. q < BlockCount
  <2> SUFFICES ASSUME BlockCount <= q PROVE FALSE
    BY <1>1, <1>2
  <2> HIDE DEF q, r
  <2>1. BlockCount * PerBlock <= q * PerBlock
    BY <1>1, <1>2, Scaled
  <2>2. q * PerBlock \in Int
    BY <1>1, <1>2
  <2> QED BY <1>1, <1>2, <2>1, <2>2
<1>4. BlockOf(p) = q /\ EntryOf(p) = r
  BY DEF BlockOf, EntryOf
<1> HIDE DEF q, r
<1>5. q \in Blocks /\ {r, r + 1} \subseteq 0 .. PerBlock
  BY <1>1, <1>2, <1>3 DEF Blocks
<1> QED BY <1>4, <1>5 DEF At, Cursors

(* The blocks part the pages.                                              *)
LEMMA BlocksPart ==
  /\ \A b \in Blocks : HeadOf(b) \subseteq PagesOf(b) /\ PagesOf(b) \subseteq Pages
  /\ \A p \in Pages : \E b \in Blocks : p \in PagesOf(b)
  /\ \A b, c \in Blocks : b # c => PagesOf(b) \cap PagesOf(c) = {}
<1>1. ASSUME NEW b \in Blocks
      PROVE  /\ b \in Nat /\ b + 1 <= BlockCount /\ b * PerBlock \in Nat
             /\ (b + 1) * PerBlock = b * PerBlock + PerBlock
  BY GeometryAssumption DEF Blocks
<1>2. ASSUME NEW b \in Blocks
      PROVE  HeadOf(b) \subseteq PagesOf(b) /\ PagesOf(b) \subseteq Pages
  <2>1. HeadOf(b) \subseteq PagesOf(b)
    BY <1>1, GeometryAssumption DEF HeadOf, PagesOf
  <2>2. PagesOf(b) \subseteq Pages
    <3> SUFFICES ASSUME NEW p \in PagesOf(b) PROVE p \in Pages
      OBVIOUS
    <3>1. p = b * PerBlock + (p - b * PerBlock) /\ p - b * PerBlock \in 1 .. PerBlock
      BY <1>1, GeometryAssumption DEF PagesOf
    <3> QED BY <3>1, PageIn
  <2> QED BY <2>1, <2>2
<1>3. ASSUME NEW p \in Pages
      PROVE  \E b \in Blocks : p \in PagesOf(b)
  <2>1. BlockOf(p) \in Blocks /\ EntryOf(p) \in 0 .. PerBlock
    BY CursorIn DEF At, Cursors
  <2>2. PerBlock \in Nat \ {0} /\ p - 1 \in Nat
    BY GeometryAssumption DEF Pages
  <2>3. p - 1 = BlockOf(p) * PerBlock + EntryOf(p) /\ EntryOf(p) < PerBlock
    BY <2>2 DEF BlockOf, EntryOf
  <2>4. PICK b \in Blocks, e \in 0 .. PerBlock - 1 : p - 1 = b * PerBlock + e
    BY <2>1, <2>2, <2>3
  <2>5. PagesOf(b) = (b * PerBlock + 1) .. (b * PerBlock + PerBlock)
    BY <1>1 DEF PagesOf
  <2>6. b * PerBlock \in Nat /\ p = b * PerBlock + e + 1
    <3>1. p \in Int
      BY GeometryAssumption DEF Pages
    <3>2. b * PerBlock \in Nat
      BY <1>1
    <3> QED BY <2>2, <2>4, <3>1, <3>2
  <2>7. p \in PagesOf(b)
    BY <2>2, <2>5, <2>6
  <2> QED BY <2>7
<1>4. ASSUME NEW b \in Blocks, NEW c \in Blocks, b < c
      PROVE  PagesOf(b) \cap PagesOf(c) = {}
  <2>1. (b + 1) * PerBlock <= c * PerBlock
    BY <1>1, <1>4, Scaled, GeometryAssumption
  <2> QED BY <1>1, <2>1, GeometryAssumption DEF PagesOf
<1>5. ASSUME NEW b \in Blocks, NEW c \in Blocks, b # c
      PROVE  PagesOf(b) \cap PagesOf(c) = {}
  <2>1. b < c \/ c < b
    BY <1>1, <1>5
  <2> QED BY <1>4, <2>1
<1> QED BY <1>2, <1>3, <1>5

(* Every page is met on the way round from a cursor.                       *)
LEMMA Round ==
  ASSUME NEW k \in Nat, NEW n \in Nat \ {0}, NEW a \in 0 .. n - 1
  PROVE  \E i \in 0 .. n - 1 : (k + i) % n = a
<1> DEFINE i == (a - k) % n
           q == (a - k) \div n
<1>1. i \in 0 .. n - 1 /\ q \in Int /\ a - k = n * q + i
  OBVIOUS
<1> HIDE DEF i, q
<1>2. k + i = n * (0 - q) + a
  <2>1. n * (0 - q) = 0 - n * q
    BY <1>1
  <2> QED BY <1>1, <2>1
<1>3. (k + i) % n = a
  <2> DEFINE y == (k + i) % n
             x == (k + i) \div n
  <2>1. y \in 0 .. n - 1 /\ x \in Int /\ k + i = n * x + y
    BY <1>1
  <2> HIDE DEF x, y
  <2>2. n * (x + q) = a - y
    <3>1. n * (x + q) = n * x + n * q
      BY <1>1, <2>1
    <3> QED BY <3>1, <2>1, <1>1
  <2>3. x + q = 0
    <3>1. ASSUME x + q >= 1 PROVE FALSE
      <4>1. 1 * n <= (x + q) * n
        BY <3>1, <1>1, <2>1, Scaled
      <4> QED BY <4>1, <2>2, <2>1, <1>1
    <3>2. ASSUME x + q <= 0 - 1 PROVE FALSE
      <4>1. (x + q) * n <= (0 - 1) * n
        BY <3>2, <1>1, <2>1, Scaled
      <4> QED BY <4>1, <2>2, <2>1, <1>1
    <3> QED BY <3>1, <3>2, <1>1, <2>1
  <2> QED BY <2>1, <2>2, <2>3 DEF y
<1> QED BY <1>1, <1>3

(* The first round of a loop that does nothing, for its lemma on numbers.  *)
Numbers == INSTANCE LoopInduction WITH Step <- LAMBDA c, t, i : t, Inv <- LAMBDA c, i, t : TRUE

LEMMA FirstFromIn ==
  ASSUME NEW c \in Cursors, NEW S, S \subseteq Pages, S # {}
  PROVE  FirstFrom(c, S) \in S
<1> DEFINE n == BlockCount * PerBlock
           k == c.block * PerBlock + c.entry
           page(i) == 1 + ((k + i) % n)
           I == {i \in 0 .. n - 1 : page(i) \in S}
<1>1. n \in Nat \ {0} /\ k \in Nat /\ Pages = 1 .. n
  BY GeometryAssumption DEF Cursors, Blocks, Pages
<1> HIDE DEF n, k
<1>2. I # {}
  <2>1. PICK p \in S : p \in Pages
    OBVIOUS
  <2>2. p - 1 \in 0 .. n - 1
    BY <1>1, <2>1
  <2>3. PICK i \in 0 .. n - 1 : (k + i) % n = p - 1
    BY <1>1, <2>2, Round
  <2>4. page(i) = p
    BY <1>1, <2>1, <2>3
  <2> QED BY <2>1, <2>3, <2>4
<1>3. PICK i \in I : \A j \in I : i <= j
  <2>1. I \subseteq Nat
    BY <1>1
  <2> HIDE DEF I
  <2> QED BY <1>2, <2>1, Numbers!NatLeast
<1>4. /\ i \in 0 .. n - 1 /\ page(i) \in S
      /\ \A j \in 0 .. i - 1 : page(j) \notin S
  <2> HIDE DEF page
  <2> QED BY <1>1, <1>3
<1>5. FirstFrom(c, S) = page(CHOOSE m \in 0 .. n - 1 :
                                page(m) \in S /\ \A j \in 0 .. m - 1 : page(j) \notin S)
  BY DEF FirstFrom, n, k
<1> HIDE DEF page
<1> QED BY <1>4, <1>5

-----------------------------------------------------------------------------

(* What holds of the flash after every write: the lookup is well formed,   *)
(* a block with its magic number has its count, and what is marked deleted *)
(* in it is entered as deleted.                                            *)
Formed(f) ==
    /\ {"lu", "page", "count", "magic"} \subseteq DOMAIN f
    /\ f.lu \in [Pages -> {Free, Deleted} \cup Ids]
    /\ f.count \in [Blocks -> Nat \cup {Free}] /\ f.magic \in [Blocks -> BOOLEAN]
    /\ DOMAIN f.page = Pages
    /\ \A p \in Pages : "flags" \in DOMAIN f.page[p]
    /\ \A b \in Blocks : f.magic[b] =>
          /\ f.count[b] \in Nat
          /\ \A p \in PagesOf(b) : "delet" \in f.page[p].flags => f.lu[p] = Deleted

(* One block at most lacks its magic number, or none.                      *)
Mountable(f) == Formed(f) /\ \E b \in Blocks : \A c \in Blocks \ {b} : f.magic[c]
Whole(f) == /\ Formed(f) /\ \A b \in Blocks : f.magic[b]
            /\ \A p \in Pages : "delet" \in f.page[p].flags => f.lu[p] = Deleted

(* The flashes a power loss can leave are those of the log.                *)
Logs(l) == \E F : l \in Seq(F) /\ \A f \in F : Mountable(f)

(* The parts of the state of a call.                                       *)
FlashSafe(s) == /\ Whole(s.flash) /\ Logs(s.log)
                /\ s.max \in Nat /\ \A b \in Blocks : s.flash.count[b] < s.max
RamSafe(s) == /\ s.busy \in Int /\ s.deleted \in Int /\ s.free \in Int
              /\ s.cursor \in Cursors /\ s.next \in Cursors
WorkSafe(s) == "flags" \in DOMAIN s.work /\ "delet" \notin s.work.flags
OpenFd(f) == f.obj \in Objects /\ f.hdr \in Pages
FdsSafe(D, s) == /\ DOMAIN s.fd = Fds
                 /\ \A d \in Fds : /\ {"obj", "hdr"} \subseteq DOMAIN s.fd[d]
                                   /\ s.fd[d].obj = None \/ OpenFd(s.fd[d])
                 /\ \A d \in D : d \in Fds /\ OpenFd(s.fd[d])

(* A call at work on the open descriptors D and, if "at" is in W, on an    *)
(* index page.                                                             *)
Fields == {"flash", "busy", "deleted", "free", "max", "cursor", "next", "fd", "cleaning", "enough",
           "stray", "strayed", "pix", "work", "at", "out", "res", "log"}
Safe(D, W, s) ==
    /\ DOMAIN s = Fields
    /\ {"pix", "span"} \subseteq DOMAIN s.at /\ ("at" \in W => s.at.pix \in Pages)
    /\ FlashSafe(s) /\ RamSafe(s) /\ WorkSafe(s) /\ FdsSafe(D, s)

(* The operation leaves all but the fields F alone.                        *)
Only(F, s, t) == DOMAIN t = DOMAIN s /\ \A x \in DOMAIN s \ F : t[x] = s[x]

(* The result and the page that a call has at hand.                        *)
Results == {"res", "pix", "out", "enough", "stray", "strayed", "cleaning"}

LEMMA ResultsSafe ==
  ASSUME NEW D, NEW W, NEW s, NEW t, Safe(D, W, s), Only(Results, s, t)
  PROVE  Safe(D, W, t)
<1>1. /\ t.flash = s.flash /\ t.log = s.log /\ t.max = s.max /\ t.busy = s.busy
      /\ t.deleted = s.deleted /\ t.free = s.free /\ t.cursor = s.cursor /\ t.next = s.next
      /\ t.work = s.work /\ t.at = s.at /\ t.fd = s.fd /\ DOMAIN t = Fields
  BY DEF Safe, Only, Fields, Results
<1> QED BY <1>1 DEF Safe, FlashSafe, RamSafe, WorkSafe, FdsSafe

LEMMA CountersSafe ==
  ASSUME NEW D, NEW W, NEW s, NEW t, Safe(D, W, s), RamSafe(t),
         Only(Results \cup {"busy", "deleted", "free", "cursor", "next"}, s, t)
  PROVE  Safe(D, W, t)
<1>1. /\ t.flash = s.flash /\ t.log = s.log /\ t.max = s.max
      /\ t.work = s.work /\ t.at = s.at /\ t.fd = s.fd /\ DOMAIN t = Fields
  BY DEF Safe, Only, Fields, Results
<1> QED BY <1>1 DEF Safe, FlashSafe, WorkSafe, FdsSafe

LEMMA FdsOnlySafe ==
  ASSUME NEW D, NEW E, NEW W, NEW s, NEW t, Safe(D, W, s), FdsSafe(E, t), Only({"fd"}, s, t)
  PROVE  Safe(E, W, t)
<1>1. /\ t.flash = s.flash /\ t.log = s.log /\ t.max = s.max /\ t.busy = s.busy
      /\ t.deleted = s.deleted /\ t.free = s.free /\ t.cursor = s.cursor /\ t.next = s.next
      /\ t.work = s.work /\ t.at = s.at /\ DOMAIN t = Fields
  BY DEF Safe, Only, Fields
<1> QED BY <1>1 DEF Safe, FlashSafe, RamSafe, WorkSafe

LEMMA WorkOnlySafe ==
  ASSUME NEW D, NEW V, NEW W, NEW s, NEW t, Safe(D, V, s), WorkSafe(t), Only({"work", "at"}, s, t),
         {"pix", "span"} \subseteq DOMAIN t.at, "at" \in W => t.at.pix \in Pages
  PROVE  Safe(D, W, t)
<1>1. /\ t.flash = s.flash /\ t.log = s.log /\ t.max = s.max /\ t.busy = s.busy
      /\ t.deleted = s.deleted /\ t.free = s.free /\ t.cursor = s.cursor /\ t.next = s.next
      /\ t.fd = s.fd /\ DOMAIN t = Fields
  BY DEF Safe, Only, Fields
<1> QED BY <1>1 DEF Safe, FlashSafe, RamSafe, FdsSafe

LEMMA LessSafe ==
  ASSUME NEW D, NEW E, NEW W, NEW s, Safe(D, W, s), E \subseteq D
  PROVE  Safe(E, {}, s)
BY DEF Safe, FdsSafe

-----------------------------------------------------------------------------

LEMMA LogsMore ==
  ASSUME NEW l, NEW f, Logs(l), Mountable(f)
  PROVE  Logs(Append(l, f))
<1>1. PICK F : l \in Seq(F) /\ \A g \in F : Mountable(g)
  BY DEF Logs
<1>2. Append(l, f) \in Seq(F \cup {f})
  BY <1>1
<1> QED BY <1>1, <1>2 DEF Logs

LEMMA WholeFrom ==
  ASSUME NEW f, {"lu", "page", "count", "magic"} \subseteq DOMAIN f,
         f.lu \in [Pages -> {Free, Deleted} \cup Ids],
         f.count \in [Blocks -> Nat \cup {Free}], f.magic \in [Blocks -> BOOLEAN],
         DOMAIN f.page = Pages,
         \A p \in Pages : /\ "flags" \in DOMAIN f.page[p]
                          /\ "delet" \in f.page[p].flags => f.lu[p] = Deleted,
         \A b \in Blocks : f.magic[b] /\ f.count[b] \in Nat
  PROVE  Whole(f)
<1>1. \A b \in Blocks : \A p \in PagesOf(b) : "delet" \in f.page[p].flags => f.lu[p] = Deleted
  <2>1. \A b \in Blocks : PagesOf(b) \subseteq Pages
    BY BlocksPart
  <2> QED BY <2>1
<1>2. \A p \in Pages : "flags" \in DOMAIN f.page[p]
  OBVIOUS
<1>3. Formed(f)
  BY <1>1, <1>2 DEF Formed
<1> QED BY <1>3 DEF Whole

LEMMA WholeMountable ==
  ASSUME NEW f, Whole(f)
  PROVE  Mountable(f)
<1>1. 0 \in Blocks
  BY GeometryAssumption DEF Blocks
<1> QED BY <1>1 DEF Whole, Mountable

LEMMA LoggedOnly ==
  ASSUME NEW s, NEW f, DOMAIN s = Fields
  PROVE  /\ Only({"flash", "log"}, s, Logged(s, f))
         /\ Logged(s, f).flash = f /\ Logged(s, f).log = Append(s.log, f)
<1>1. "flash" \in DOMAIN s /\ "log" \in DOMAIN s
  BY DEF Fields
<1> DEFINE u == [s EXCEPT !.flash = f]
           v == [u EXCEPT !.log = Append(s.log, f)]
<1>2. Logged(s, f) = v
  BY DEF Logged
<1>3. DOMAIN u = DOMAIN s /\ u.flash = f /\ \A x \in DOMAIN s \ {"flash"} : u[x] = s[x]
  BY <1>1
<1> HIDE DEF u
<1>4. /\ DOMAIN v = DOMAIN u /\ v.log = Append(s.log, f)
      /\ \A x \in DOMAIN u \ {"log"} : v[x] = u[x]
  BY <1>1, <1>3
<1> HIDE DEF v
<1> QED BY <1>1, <1>2, <1>3, <1>4 DEF Only

LEMMA LoggedSafe ==
  ASSUME NEW D, NEW W, NEW s, NEW f, Safe(D, W, s), Whole(f), f.count = s.flash.count
  PROVE  Safe(D, W, Logged(s, f))
<1> DEFINE t == Logged(s, f)
<1>1. Only({"flash", "log"}, s, t) /\ t.flash = f /\ t.log = Append(s.log, f)
  BY LoggedOnly DEF Safe
<1> HIDE DEF t
<1>2. /\ t.max = s.max /\ t.busy = s.busy
      /\ t.deleted = s.deleted /\ t.free = s.free /\ t.cursor = s.cursor /\ t.next = s.next
      /\ t.work = s.work /\ t.at = s.at /\ t.fd = s.fd /\ DOMAIN t = Fields
  BY <1>1 DEF Safe, Only, Fields
<1>3. FlashSafe(t)
  BY <1>1, <1>2, LogsMore, WholeMountable DEF Safe, FlashSafe
<1>4. Safe(D, W, t)
  BY <1>2, <1>3 DEF Safe, RamSafe, WorkSafe, FdsSafe
<1> QED BY <1>4 DEF t

(* A page is written that is not marked deleted, or whose entry is.        *)
LEMMA WriteSafe ==
  ASSUME NEW D, NEW W, NEW s, NEW p, NEW image, Safe(D, W, s),
         p \in Pages => "delet" \notin image.flags \/ s.flash.lu[p] = Deleted
  PROVE  Safe(D, W, Write(s, p, image))
<1> DEFINE f == [s.flash EXCEPT !.page[p] = Overlay(@, image)]
<1>1. Whole(s.flash)
  BY DEF Safe, FlashSafe
<1>2. /\ DOMAIN f = DOMAIN s.flash /\ f.lu = s.flash.lu /\ f.count = s.flash.count
      /\ f.magic = s.flash.magic
      /\ f.page = [s.flash.page EXCEPT ![p] = Overlay(@, image)]
  BY <1>1 DEF Whole, Formed
<1> HIDE DEF f
<1>3. ASSUME NEW q \in Pages
      PROVE  /\ "flags" \in DOMAIN f.page[q]
             /\ "delet" \in f.page[q].flags => f.lu[q] = Deleted
  <2>1. CASE q = p
    <3>1. f.page[q] = Overlay(s.flash.page[q], image)
      BY <1>1, <1>2, <2>1 DEF Whole, Formed
    <3>2. /\ "flags" \in DOMAIN f.page[q]
          /\ f.page[q].flags = s.flash.page[q].flags \cup image.flags
      BY <3>1 DEF Overlay
    <3> QED BY <1>1, <1>2, <2>1, <3>2 DEF Whole, Formed
  <2>2. CASE q # p
    <3>1. f.page[q] = s.flash.page[q]
      BY <1>1, <1>2, <2>2 DEF Whole, Formed
    <3> QED BY <1>1, <1>2, <3>1 DEF Whole, Formed
  <2> QED BY <2>1, <2>2
<1>4. Whole(f)
  <2>1. /\ {"lu", "page", "count", "magic"} \subseteq DOMAIN f /\ DOMAIN f.page = Pages
        /\ f.lu \in [Pages -> {Free, Deleted} \cup Ids]
        /\ f.count \in [Blocks -> Nat \cup {Free}] /\ f.magic \in [Blocks -> BOOLEAN]
        /\ \A b \in Blocks : f.magic[b] /\ f.count[b] \in Nat
    BY <1>1, <1>2 DEF Whole, Formed
  <2> QED BY <1>3, <2>1, WholeFrom
<1> QED BY <1>2, <1>4, LoggedSafe DEF Write, f

(* An entry gets an id when it is free.                                    *)
LEMMA OccupySafe ==
  ASSUME NEW D, NEW W, NEW s, NEW p, NEW id, Safe(D, W, s),
         id = Deleted \/ (id \in Ids /\ p \in Pages /\ s.flash.lu[p] = Free)
  PROVE  /\ Safe(D, W, Occupy(s, p, id))
         /\ p \in Pages => Occupy(s, p, id).flash.lu[p] = id
<1> DEFINE f == [s.flash EXCEPT !.lu[p] = Over(@, id)]
<1>1. Whole(s.flash)
  BY DEF Safe, FlashSafe
<1>2. /\ DOMAIN f = DOMAIN s.flash /\ f.page = s.flash.page /\ f.count = s.flash.count
      /\ f.magic = s.flash.magic
      /\ f.lu = [s.flash.lu EXCEPT ![p] = Over(@, id)]
  BY <1>1 DEF Whole, Formed
<1> HIDE DEF f
<1>3. p \in Pages => f.lu[p] = id
  BY <1>1, <1>2, GeometryAssumption DEF Whole, Formed, Over
<1>4. f.lu \in [Pages -> {Free, Deleted} \cup Ids]
  <2>1. p \notin Pages => f.lu = s.flash.lu
    BY <1>1, <1>2 DEF Whole, Formed
  <2>2. p \in Pages => f.lu = [s.flash.lu EXCEPT ![p] = id]
    BY <1>1, <1>2, <1>3 DEF Whole, Formed
  <2> QED BY <1>1, <2>1, <2>2 DEF Whole, Formed
<1>5. ASSUME NEW q \in Pages, "delet" \in f.page[q].flags
      PROVE  f.lu[q] = Deleted
  <2>1. s.flash.lu[q] = Deleted
    BY <1>1, <1>2, <1>5 DEF Whole, Formed
  <2>2. q = p => id = Deleted
    BY <2>1, GeometryAssumption
  <2> QED BY <1>1, <1>2, <1>3, <2>1, <2>2 DEF Whole, Formed
<1>6. Whole(f)
  <2>1. /\ {"lu", "page", "count", "magic"} \subseteq DOMAIN f /\ DOMAIN f.page = Pages
        /\ f.count \in [Blocks -> Nat \cup {Free}] /\ f.magic \in [Blocks -> BOOLEAN]
        /\ \A b \in Blocks : f.magic[b] /\ f.count[b] \in Nat
        /\ \A q \in Pages : "flags" \in DOMAIN f.page[q]
    BY <1>1, <1>2 DEF Whole, Formed
  <2> QED BY <1>4, <1>5, <2>1, WholeFrom
<1>7. Occupy(s, p, id).flash = f
  BY DEF Occupy, Logged, f, Safe, Fields
<1> QED BY <1>2, <1>3, <1>6, <1>7, LoggedSafe DEF Occupy, f

LEMMA FlagSafe ==
  ASSUME NEW D, NEW W, NEW s, NEW p, NEW flags, Safe(D, W, s),
         p \in Pages => "delet" \notin flags \/ s.flash.lu[p] = Deleted
  PROVE  Safe(D, W, Flag(s, p, flags))
<1>1. [Blank EXCEPT !.flags = flags].flags = flags
  BY DEF Blank
<1> QED BY <1>1, WriteSafe DEF Flag

LEMMA CountedSafe ==
  ASSUME NEW D, NEW W, NEW s, Safe(D, W, s)
  PROVE  /\ \A e : Safe(D, W, Fail(s, e))
         /\ Safe(D, W, Allocated(s))
         /\ \A p \in Pages : Safe(D, W, Take(s, p)) /\ Safe(D, W, Found(s, p))
<1>1. DOMAIN s = Fields /\ RamSafe(s)
  BY DEF Safe
<1>2. ASSUME NEW e
      PROVE  Safe(D, W, Fail(s, e))
  <2>1. Only(Results, s, Fail(s, e))
    BY <1>1 DEF Only, Fields, Results, Fail
  <2> QED BY <2>1, ResultsSafe
<1>3. Safe(D, W, Allocated(s))
  <2>1. Only({"busy"}, s, Allocated(s)) /\ RamSafe(Allocated(s))
    BY <1>1 DEF Only, Fields, Allocated, RamSafe
  <2>2. Only(Results \cup {"busy", "deleted", "free", "cursor", "next"}, s, Allocated(s))
    BY <2>1 DEF Only
  <2> QED BY <2>1, <2>2, CountersSafe
<1>4. ASSUME NEW p \in Pages
      PROVE  Safe(D, W, Take(s, p))
  <2>1. Only({"pix", "next", "free"}, s, Take(s, p))
    BY <1>1 DEF Only, Fields, Take
  <2>2. /\ Take(s, p).next = At(BlockOf(p), EntryOf(p) + 1)
        /\ Take(s, p).free = IF EntryOf(p) = 0 THEN s.free - 1 ELSE s.free
    BY <1>1 DEF Fields, Take
  <2>3. RamSafe(Take(s, p))
    BY <1>1, <2>1, <2>2, CursorIn DEF RamSafe, Only, Fields
  <2>4. Only(Results \cup {"busy", "deleted", "free", "cursor", "next"}, s, Take(s, p))
    BY <2>1 DEF Only, Results
  <2> QED BY <2>3, <2>4, CountersSafe
<1>5. ASSUME NEW p \in Pages
      PROVE  Safe(D, W, Found(s, p))
  <2>1. Only({"pix", "cursor"}, s, Found(s, p))
    BY <1>1 DEF Only, Fields, Found
  <2>2. Found(s, p).cursor = At(BlockOf(p), EntryOf(p))
    BY <1>1 DEF Fields, Found
  <2>3. RamSafe(Found(s, p))
    BY <1>1, <2>1, <2>2, CursorIn DEF RamSafe, Only, Fields
  <2>4. Only(Results \cup {"busy", "deleted", "free", "cursor", "next"}, s, Found(s, p))
    BY <2>1 DEF Only, Results
  <2> QED BY <2>3, <2>4, CountersSafe
<1> QED BY <1>2, <1>3, <1>4, <1>5

(* The only operation that takes a magic number away.  Before it at most   *)
(* the block itself may lack it, after it none does; the block gets the    *)
(* highest count.                                                          *)
LEMMA EraseMends ==
  ASSUME NEW D, NEW W, NEW s, NEW b \in Blocks,
         DOMAIN s = Fields, {"pix", "span"} \subseteq DOMAIN s.at, "at" \in W => s.at.pix \in Pages,
         RamSafe(s), WorkSafe(s), FdsSafe(D, s),
         Formed(s.flash), Logs(s.log), s.max \in Nat,
         \A c \in Blocks \ {b} : s.flash.magic[c] /\ s.flash.count[c] < s.max
  PROVE  Safe(D, W, EraseBlock(s, b))
<1> DEFINE f0 == HeadErased(s.flash, b)
           s0 == Logged(s, f0)
           f1 == TailErased(s0.flash, b)
           s1 == Logged(s0, f1)
           f2 == [s1.flash EXCEPT !.count[b] = s1.max]
           s2 == Logged(s1, f2)
           f3 == [s2.flash EXCEPT !.magic[b] = TRUE]
           s3 == Logged(s2, f3)
           t == [s3 EXCEPT !.free = @ + 1, !.max = @ + 1]
<1>1. EraseBlock(s, b) = t
  BY DEF EraseBlock, Erase
<1>a. /\ DOMAIN f0 = DOMAIN s.flash
      /\ f0.lu = [p \in Pages |-> IF p \in PagesOf(b) THEN Free ELSE s.flash.lu[p]]
      /\ f0.page = [p \in Pages |-> IF p \in HeadOf(b) THEN Blank ELSE s.flash.page[p]]
      /\ f0.count = [s.flash.count EXCEPT ![b] = Free]
      /\ f0.magic = [s.flash.magic EXCEPT ![b] = FALSE]
  BY DEF Formed, HeadErased
<1>b. Only({"flash", "log"}, s, s0) /\ s0.flash = f0 /\ s0.log = Append(s.log, f0)
  BY LoggedOnly
<1> HIDE DEF f0
<1>c. s0.max = s.max /\ DOMAIN s0 = Fields
  BY <1>b DEF Only, Fields
<1> HIDE DEF s0
<1>2. /\ DOMAIN f1 = DOMAIN s.flash
      /\ f1.lu = f0.lu /\ f1.count = f0.count /\ f1.magic = f0.magic
      /\ f1.page = [p \in Pages |-> IF p \in PagesOf(b) THEN Blank ELSE s.flash.page[p]]
  <2>1. /\ DOMAIN f1 = DOMAIN f0 /\ f1.lu = f0.lu /\ f1.count = f0.count /\ f1.magic = f0.magic
        /\ f1.page = [p \in Pages |-> IF p \in PagesOf(b) THEN Blank ELSE f0.page[p]]
    BY <1>a, <1>b DEF Formed, TailErased
  <2>2. HeadOf(b) \subseteq PagesOf(b)
    BY BlocksPart
  <2> QED BY <1>a, <2>1, <2>2
<1>3. Only({"flash", "log"}, s0, s1) /\ s1.flash = f1 /\ s1.log = Append(s0.log, f1)
  BY <1>c, LoggedOnly
<1> HIDE DEF f1
<1>4. s1.max = s.max /\ DOMAIN s1 = Fields
  BY <1>3, <1>c DEF Only, Fields
<1> HIDE DEF s1
<1>5. /\ DOMAIN f2 = DOMAIN f1 /\ f2.lu = f1.lu /\ f2.page = f1.page /\ f2.magic = f1.magic
      /\ f2.count = [f1.count EXCEPT ![b] = s.max]
  BY <1>a, <1>2, <1>3, <1>4 DEF Formed
<1>6. Only({"flash", "log"}, s1, s2) /\ s2.flash = f2 /\ s2.log = Append(s1.log, f2)
  BY <1>4, LoggedOnly
<1> HIDE DEF f2
<1>7. DOMAIN s2 = Fields
  BY <1>4, <1>6 DEF Only
<1> HIDE DEF s2
<1>8. /\ DOMAIN f3 = DOMAIN f2 /\ f3.lu = f2.lu /\ f3.page = f2.page /\ f3.count = f2.count
      /\ f3.magic = [f2.magic EXCEPT ![b] = TRUE]
  BY <1>a, <1>2, <1>5, <1>6 DEF Formed
<1>9. Only({"flash", "log"}, s2, s3) /\ s3.flash = f3 /\ s3.log = Append(s2.log, f3)
  BY <1>7, LoggedOnly
<1> HIDE DEF f3
<1>10. DOMAIN s3 = Fields
  BY <1>7, <1>9 DEF Only
<1> HIDE DEF s3
<1>11. "flags" \in DOMAIN Blank /\ Blank.flags = {}
  BY DEF Blank
<1>12. /\ \A c \in Blocks : PagesOf(c) \subseteq Pages
       /\ \A c \in Blocks \ {b} : \A p \in PagesOf(c) : p \notin PagesOf(b) /\ p \notin HeadOf(b)
       /\ \A p \in Pages \ PagesOf(b) : \E c \in Blocks \ {b} : p \in PagesOf(c)
  <2>1. /\ \A c \in Blocks : HeadOf(c) \subseteq PagesOf(c) /\ PagesOf(c) \subseteq Pages
        /\ \A p \in Pages : \E c \in Blocks : p \in PagesOf(c)
        /\ \A c \in Blocks : c # b => PagesOf(c) \cap PagesOf(b) = {}
    BY BlocksPart
  <2> QED BY <2>1
<1>d. \A c \in Blocks \ {b} : \A p \in PagesOf(c) :
          /\ f0.page[p] = s.flash.page[p] /\ f1.page[p] = s.flash.page[p]
          /\ f0.lu[p] = s.flash.lu[p]
          /\ "delet" \in s.flash.page[p].flags => s.flash.lu[p] = Deleted
  <2>1. \A c \in Blocks \ {b} : \A p \in PagesOf(c) :
            "delet" \in s.flash.page[p].flags => s.flash.lu[p] = Deleted
    BY DEF Formed
  <2> QED BY <1>a, <1>2, <1>12, <2>1
<1>e. /\ f0.lu \in [Pages -> {Free, Deleted} \cup Ids]
      /\ f0.count \in [Blocks -> Nat \cup {Free}] /\ f0.magic \in [Blocks -> BOOLEAN]
      /\ DOMAIN f0.page = Pages /\ DOMAIN f1.page = Pages
      /\ \A p \in Pages : "flags" \in DOMAIN f0.page[p] /\ "flags" \in DOMAIN f1.page[p]
      /\ ~f0.magic[b] /\ {"lu", "page", "count", "magic"} \subseteq DOMAIN f0
      /\ \A c \in Blocks \ {b} : f0.magic[c] /\ f0.count[c] = s.flash.count[c]
      /\ \A c \in Blocks \ {b} : s.flash.count[c] \in Nat
  BY <1>a, <1>2, <1>11 DEF Formed
<1>13. Formed(f0) /\ Formed(f1) /\ Formed(f2)
  <2>1. \A c \in Blocks : f0.magic[c] =>
            /\ c # b /\ f0.count[c] \in Nat
            /\ \A p \in PagesOf(c) : /\ "delet" \in f0.page[p].flags => f0.lu[p] = Deleted
                                     /\ "delet" \in f1.page[p].flags => f0.lu[p] = Deleted
    BY <1>d, <1>e
  <2>2. Formed(f0)
    BY <1>e, <2>1 DEF Formed
  <2>3. /\ f1.lu = f0.lu /\ f1.count = f0.count /\ f1.magic = f0.magic
        /\ DOMAIN f1 = DOMAIN f0
    BY <1>a, <1>2
  <2>4. Formed(f1)
    BY <1>e, <2>1, <2>3 DEF Formed
  <2>5. /\ f2.lu = f0.lu /\ f2.page = f1.page /\ f2.magic = f0.magic /\ DOMAIN f2 = DOMAIN f0
        /\ f2.count = [f0.count EXCEPT ![b] = s.max]
    BY <1>5, <2>3
  <2>6. /\ f2.count \in [Blocks -> Nat \cup {Free}]
        /\ \A c \in Blocks : c # b => f2.count[c] = f0.count[c]
    BY <1>e, <2>5
  <2>7. Formed(f2)
    BY <1>e, <2>1, <2>5, <2>6 DEF Formed
  <2> QED BY <2>2, <2>4, <2>7
<1>14. Mountable(f0) /\ Mountable(f1) /\ Mountable(f2)
  BY <1>2, <1>5, <1>e, <1>13 DEF Mountable
<1>15. Whole(f3)
  <2>1. /\ f3.lu = f0.lu /\ f3.page = f1.page /\ DOMAIN f3 = DOMAIN f0
        /\ f3.count = [f0.count EXCEPT ![b] = s.max] /\ f3.magic = [f0.magic EXCEPT ![b] = TRUE]
    BY <1>a, <1>2, <1>5, <1>8
  <2>2. \A p \in Pages : "delet" \in f3.page[p].flags => f3.lu[p] = Deleted
    <3>1. \A p \in PagesOf(b) : p \in Pages => f3.page[p] = Blank
      BY <1>2, <2>1
    <3>2. \A p \in Pages \ PagesOf(b) : "delet" \in f3.page[p].flags => f3.lu[p] = Deleted
      BY <1>12, <1>d, <2>1
    <3> QED BY <1>11, <3>1, <3>2
  <2>3. /\ f3.count \in [Blocks -> Nat \cup {Free}] /\ f3.magic \in [Blocks -> BOOLEAN]
        /\ \A c \in Blocks : f3.magic[c] /\ f3.count[c] \in Nat
    BY <1>e, <2>1
  <2> QED BY <1>e, <2>1, <2>2, <2>3, WholeFrom
<1>16. Logs(s3.log)
  BY <1>b, <1>3, <1>6, <1>9, <1>14, <1>15, LogsMore, WholeMountable
<1>17. /\ Only({"flash", "log", "free", "max"}, s, t)
       /\ t.flash = f3 /\ t.log = s3.log /\ t.free = s.free + 1 /\ t.max = s.max + 1
  <2>1. Only({"flash", "log"}, s, s3)
    BY <1>b, <1>3, <1>6, <1>9 DEF Only
  <2>2. s3.free = s.free /\ s3.max = s.max
    BY <2>1 DEF Only, Fields
  <2>3. Only({"free", "max"}, s3, t) /\ t.free = s3.free + 1 /\ t.max = s3.max + 1
    BY <1>10 DEF Only, Fields
  <2> HIDE DEF t
  <2> QED BY <1>9, <1>10, <2>1, <2>2, <2>3 DEF Only, Fields
<1> HIDE DEF t
<1>18. \A c \in Blocks : t.flash.count[c] < t.max
  <2>1. \A c \in Blocks : f3.count[c] = IF c = b THEN s.max ELSE s.flash.count[c]
    BY <1>a, <1>2, <1>5, <1>8 DEF Formed
  <2>2. \A c \in Blocks \ {b} : s.flash.count[c] \in Nat
    BY DEF Formed
  <2> QED BY <1>17, <2>1, <2>2
<1>19. FlashSafe(t)
  BY <1>15, <1>16, <1>17, <1>18 DEF FlashSafe
<1>20. /\ t.busy = s.busy /\ t.deleted = s.deleted /\ t.cursor = s.cursor /\ t.next = s.next
       /\ t.work = s.work /\ t.at = s.at /\ t.fd = s.fd /\ DOMAIN t = Fields
  BY <1>17 DEF Only, Fields
<1>21. RamSafe(t)
  BY <1>17, <1>20 DEF RamSafe
<1>22. WorkSafe(t) /\ FdsSafe(D, t)
  BY <1>20 DEF WorkSafe, FdsSafe
<1>23. Safe(D, W, t)
  BY <1>19, <1>20, <1>21, <1>22 DEF Safe
<1> QED BY <1>1, <1>23

LEMMA EraseSafe ==
  ASSUME NEW D, NEW W, NEW s, NEW b \in Blocks, Safe(D, W, s)
  PROVE  Safe(D, W, EraseBlock(s, b))
<1>1. /\ DOMAIN s = Fields
      /\ {"pix", "span"} \subseteq DOMAIN s.at /\ ("at" \in W => s.at.pix \in Pages)
      /\ RamSafe(s) /\ WorkSafe(s) /\ FdsSafe(D, s)
      /\ Formed(s.flash) /\ Logs(s.log) /\ s.max \in Nat
      /\ \A c \in Blocks \ {b} : s.flash.magic[c] /\ s.flash.count[c] < s.max
  BY DEF Safe, FlashSafe, Whole
<1> QED BY <1>1, EraseMends

(* A free entry at hand.                                                   *)
Fresh(s) == s.pix \in Pages /\ s.flash.lu[s.pix] = Free
Got(s) == Failed(s) \/ s.pix \in Pages

LEMMA FailFails ==
  ASSUME NEW D, NEW W, NEW s, NEW e, Safe(D, W, s), e # Ok
  PROVE  /\ Safe(D, W, Fail(s, e)) /\ Failed(Fail(s, e))
         /\ Fail(s, e).flash = s.flash /\ Fail(s, e).at = s.at
<1>1. Safe(D, W, Fail(s, e))
  BY CountedSafe
<1>2. Fail(s, e).res = e /\ Fail(s, e).flash = s.flash /\ Fail(s, e).at = s.at
  BY DEF Safe, Fields, Fail
<1> QED BY <1>1, <1>2 DEF Failed

LEMMA FindFreeSafe ==
  ASSUME NEW D, NEW W, NEW s, Safe(D, W, s)
  PROVE  /\ Safe(D, W, FindFree(s))
         /\ Failed(FindFree(s)) \/ Fresh(FindFree(s))
<1>1. Safe(D, W, GcQuick(s))
  <2> DEFINE t == [s EXCEPT !.deleted = @ - PerBlock]
             dead == {b \in Blocks : \A p \in PagesOf(b) : s.flash.lu[p] = Deleted}
             b == CHOOSE b \in dead : \A c \in dead : b <= c
  <2>1. Only({"deleted"}, s, t) /\ t.deleted = s.deleted - PerBlock
    BY DEF Safe, Only, Fields
  <2>2. RamSafe(t)
    BY <2>1, GeometryAssumption DEF Safe, RamSafe, Only, Fields
  <2>3. Safe(D, W, t)
    <3>1. Only(Results \cup {"busy", "deleted", "free", "cursor", "next"}, s, t)
      BY <2>1 DEF Only
    <3> QED BY <2>2, <3>1, CountersSafe
  <2> HIDE DEF t
  <2>4. ASSUME dead # {}
        PROVE  b \in Blocks
    <3>1. dead \subseteq Nat
      BY GeometryAssumption DEF Blocks
    <3>2. dead \subseteq Blocks
      OBVIOUS
    <3> HIDE DEF dead
    <3>3. \E c \in dead : \A e \in dead : c <= e
      BY <2>4, <3>1, Numbers!NatLeast
    <3> QED BY <3>2, <3>3
  <2>5. GcQuick(s) = IF dead = {} THEN s ELSE EraseBlock(t, b)
    BY DEF GcQuick, t
  <2> HIDE DEF b, dead
  <2> QED BY <2>3, <2>4, <2>5, EraseSafe
<1>2. ASSUME NEW t, Safe(D, W, t)
      PROVE  /\ Safe(D, W, TakeFree(t))
             /\ Failed(TakeFree(t)) \/ Fresh(TakeFree(t))
  <2> DEFINE spare == {p \in Pages : t.flash.lu[p] = Free}
             p == FirstFrom(t.next, spare)
  <2>1. TakeFree(t) = IF ~t.cleaning /\ t.free < 2 THEN Fail(t, "full")
                      ELSE IF spare = {} THEN Fail(t, "not found")
                      ELSE Take(t, p)
    BY DEF TakeFree
  <2>2. /\ Safe(D, W, Fail(t, "full")) /\ Failed(Fail(t, "full"))
        /\ Safe(D, W, Fail(t, "not found")) /\ Failed(Fail(t, "not found"))
    <3>1. "full" # Ok /\ "not found" # Ok
      BY DEF Ok
    <3> QED BY <1>2, <3>1, FailFails, Zenon
  <2>3. ASSUME spare # {}
        PROVE  p \in spare
    <3>1. spare \subseteq Pages
      OBVIOUS
    <3>2. t.next \in Cursors
      BY <1>2 DEF Safe, RamSafe
    <3> HIDE DEF spare
    <3> QED BY <2>3, <3>1, <3>2, FirstFromIn
  <2> HIDE DEF p
  <2>4. ASSUME spare # {}
        PROVE  Fresh(Take(t, p))
    <3>1. p \in Pages /\ t.flash.lu[p] = Free
      BY <2>3, <2>4
    <3>2. Take(t, p).pix = p /\ Take(t, p).flash = t.flash
      BY <1>2 DEF Take, Safe, Fields
    <3> QED BY <3>1, <3>2 DEF Fresh
  <2>5. ASSUME spare # {}
        PROVE  Safe(D, W, Take(t, p))
    BY <1>2, <2>3, <2>5, CountedSafe
  <2> QED BY <2>1, <2>2, <2>4, <2>5, Zenon
<1>3. FindFree(s) = IF Failed(s) THEN s
                    ELSE TakeFree(IF ~s.cleaning /\ s.free < 2 THEN GcQuick(s) ELSE s)
  BY DEF FindFree
<1> QED BY <1>1, <1>2, <1>3

LEMMA FindSafe ==
  ASSUME NEW D, NEW W, NEW s, NEW S, Safe(D, W, s), S \subseteq Pages
  PROVE  /\ Safe(D, W, Find(s, S)) /\ Find(s, S).flash = s.flash
         /\ Failed(Find(s, S)) \/ Find(s, S).pix \in S
<1> DEFINE p == FirstFrom(s.cursor, S)
<1>1. /\ Safe(D, W, Fail(s, "not found")) /\ Failed(Fail(s, "not found"))
      /\ Fail(s, "not found").flash = s.flash
  <2>1. "not found" # Ok
    BY DEF Ok
  <2>2. \A e : e # Ok => Safe(D, W, Fail(s, e)) /\ Failed(Fail(s, e)) /\ Fail(s, e).flash = s.flash
    BY FailFails
  <2> QED BY <2>1, <2>2, Zenon
<1>2. S # {} => p \in S
  <2>1. s.cursor \in Cursors
    BY DEF Safe, RamSafe
  <2> QED BY <2>1, FirstFromIn
<1> HIDE DEF p
<1>3. Found(s, p).pix = p /\ Found(s, p).flash = s.flash
  BY DEF Found, Safe, Fields
<1>4. Find(s, S) = IF Failed(s) THEN s ELSE IF S = {} THEN Fail(s, "not found") ELSE Found(s, p)
  BY DEF Find, p
<1>5. S # {} => Safe(D, W, Found(s, p))
  BY <1>2, CountedSafe
<1> DEFINE failed == Fail(s, "not found")
<1> HIDE DEF failed
<1>6. /\ Safe(D, W, failed) /\ Failed(failed) /\ failed.flash = s.flash
      /\ Find(s, S) = IF Failed(s) THEN s ELSE IF S = {} THEN failed ELSE Found(s, p)
  BY <1>1, <1>4, Zenon DEF failed
<1> QED BY <1>2, <1>3, <1>5, <1>6

LEMMA DeletePageSafe ==
  ASSUME NEW D, NEW W, NEW s, NEW p, Safe(D, W, s)
  PROVE  /\ Safe(D, W, DeletePage(s, p))
         /\ DeletePage(s, p).pix = s.pix /\ DeletePage(s, p).at = s.at
         /\ DeletePage(s, p).res = s.res
<1> DEFINE t == Occupy(s, p, Deleted)
           u == [t EXCEPT !.busy = @ - 1, !.deleted = @ + 1]
           v == Flag(u, p, {"delet", "used"})
<1>1. Safe(D, W, t) /\ (p \in Pages => t.flash.lu[p] = Deleted)
  BY OccupySafe
<1>2. Only({"flash", "log"}, s, t)
  BY LoggedOnly DEF Occupy, Safe
<1> HIDE DEF t
<1>3. Only({"busy", "deleted"}, t, u) /\ u.busy = t.busy - 1 /\ u.deleted = t.deleted + 1
  BY <1>1 DEF Safe, Only, Fields
<1> HIDE DEF u
<1>4. Safe(D, W, u) /\ u.flash = t.flash
  <2>1. RamSafe(u)
    BY <1>1, <1>3 DEF Safe, RamSafe, Only, Fields
  <2>2. Only(Results \cup {"busy", "deleted", "free", "cursor", "next"}, t, u)
    BY <1>3 DEF Only
  <2> QED BY <1>1, <1>3, <2>1, <2>2, CountersSafe DEF Only, Safe, Fields
<1>5. Safe(D, W, v)
  BY <1>1, <1>4, FlagSafe
<1>6. Only({"flash", "log"}, u, v)
  BY <1>4, LoggedOnly DEF Flag, Write, Safe
<1> HIDE DEF v
<1>7. v.pix = s.pix /\ v.at = s.at /\ v.res = s.res
  BY <1>2, <1>3, <1>6 DEF Only, Safe, Fields
<1>8. DeletePage(s, p) = IF Failed(s) THEN s ELSE v
  BY DEF DeletePage, t, u, v
<1> QED BY <1>5, <1>7, <1>8

(* An image of a page that may be written: it is not marked deleted.       *)
Unmarked(image) == "flags" \in DOMAIN image /\ "delet" \notin image.flags

LEMMA WriteOnly ==
  ASSUME NEW D, NEW W, NEW s, Safe(D, W, s)
  PROVE  /\ \A p, image : /\ Only({"flash", "log"}, s, Write(s, p, image))
                          /\ Write(s, p, image).flash.lu = s.flash.lu
         /\ \A p, flags : Only({"flash", "log"}, s, Flag(s, p, flags))
         /\ \A p, id : Only({"flash", "log"}, s, Occupy(s, p, id))
         /\ Only({"busy"}, s, Allocated(s))
<1>1. DOMAIN s = Fields
  BY DEF Safe
<1>2. ASSUME NEW p, NEW image
      PROVE  Write(s, p, image).flash.lu = s.flash.lu
  <2> DEFINE f == [s.flash EXCEPT !.page[p] = Overlay(@, image)]
  <2>1. f.lu = s.flash.lu /\ Write(s, p, image) = Logged(s, f)
    BY DEF Safe, FlashSafe, Whole, Formed, Write
  <2> HIDE DEF f
  <2> QED BY <1>1, <2>1, LoggedOnly
<1>3. Only({"busy"}, s, Allocated(s))
  BY <1>1 DEF Only, Allocated
<1>4. \A f : Only({"flash", "log"}, s, Logged(s, f))
  BY <1>1, LoggedOnly
<1> QED BY <1>2, <1>3, <1>4 DEF Write, Flag, Occupy

LEMMA AllocateDataSafe ==
  ASSUME NEW D, NEW W, NEW s, NEW header, NEW body, NEW finalize, Safe(D, W, s),
         header.id \in Ids, Unmarked(header)
  PROVE  /\ Safe(D, W, AllocateData(s, header, body, finalize))
         /\ Got(AllocateData(s, header, body, finalize))
<1> DEFINE a == FindFree(s)
           image == [header EXCEPT !.flags = @ \cup {"used"}]
           t == Occupy(a, a.pix, header.id)
           u == Allocated(t)
           v == Write(u, u.pix, image)
           fill == IF body = Blank.body THEN v ELSE Write(v, v.pix, [Blank EXCEPT !.body = body])
           close == IF finalize /\ "final" \notin header.flags
                    THEN Flag(fill, fill.pix, header.flags \cup {"used", "final"}) ELSE fill
<1>1. Safe(D, W, a) /\ (Failed(a) \/ Fresh(a))
  BY FindFreeSafe
<1>2. AllocateData(s, header, body, finalize) = IF Failed(a) THEN a ELSE close
  <2> DEFINE enter(x) == Write(Allocated(Occupy(x, x.pix, header.id)), x.pix, image)
  <2>1. u.pix = a.pix \/ Failed(a)
    <3> SUFFICES ASSUME Fresh(a)
                 PROVE  u.pix = a.pix
      BY <1>1
    <3>1. Safe(D, W, t)
      BY <1>1, OccupySafe DEF Fresh
    <3>2. Only({"flash", "log"}, a, t)
      BY <1>1, WriteOnly
    <3>3. Only({"busy"}, t, u)
      BY <3>1, WriteOnly
    <3> HIDE DEF a, t, u
    <3> QED BY <1>1, <3>2, <3>3 DEF Only, Safe, Fields
  <2>2. Failed(a) \/ enter(a) = v
    BY <2>1
  <2>3. AllocateData(s, header, body, finalize) =
          IF Failed(a) THEN a
          ELSE LET w == enter(a)
                   x == IF body = Blank.body THEN w
                        ELSE Write(w, w.pix, [Blank EXCEPT !.body = body])
               IN  IF finalize /\ "final" \notin header.flags
                   THEN Flag(x, x.pix, header.flags \cup {"used", "final"}) ELSE x
    BY DEF AllocateData
  <2> HIDE DEF v, a, enter
  <2> QED BY <2>2, <2>3
<1>3. ASSUME Fresh(a)
      PROVE  Safe(D, W, close) /\ close.pix \in Pages
  <2> HIDE DEF a
  <2>1. Safe(D, W, t) /\ Only({"flash", "log"}, a, t)
    BY <1>1, <1>3, OccupySafe, WriteOnly DEF Fresh
  <2> HIDE DEF t
  <2>2. Safe(D, W, u) /\ Only({"busy"}, t, u)
    BY <2>1, CountedSafe, WriteOnly
  <2> HIDE DEF u
  <2>3. "delet" \notin image.flags
    BY DEF Unmarked
  <2>4. Safe(D, W, v) /\ Only({"flash", "log"}, u, v)
    <3> HIDE DEF image
    <3> QED BY <2>2, <2>3, WriteSafe, WriteOnly
  <2> HIDE DEF v
  <2>5. Safe(D, W, fill) /\ fill.pix = v.pix
    <3>1. [Blank EXCEPT !.body = body].flags = {}
      BY DEF Blank
    <3> DEFINE w == Write(v, v.pix, [Blank EXCEPT !.body = body])
    <3>2. Safe(D, W, w) /\ Only({"flash", "log"}, v, w)
      BY <2>4, <3>1, WriteSafe, WriteOnly
    <3> HIDE DEF w
    <3>3. w.pix = v.pix
      BY <2>4, <3>2 DEF Only, Safe, Fields
    <3> QED BY <2>4, <3>2, <3>3 DEF w
  <2> HIDE DEF fill
  <2>6. Safe(D, W, close) /\ close.pix = fill.pix
    <3>1. "delet" \notin header.flags \cup {"used", "final"}
      BY DEF Unmarked
    <3> DEFINE w == Flag(fill, fill.pix, header.flags \cup {"used", "final"})
    <3>2. Safe(D, W, w) /\ Only({"flash", "log"}, fill, w)
      BY <2>5, <3>1, FlagSafe, WriteOnly
    <3> HIDE DEF w
    <3>3. w.pix = fill.pix
      BY <2>5, <3>2 DEF Only, Safe, Fields
    <3> QED BY <2>5, <3>2, <3>3 DEF w
  <2>7. v.pix = a.pix
    BY <1>1, <2>1, <2>2, <2>4 DEF Only, Safe, Fields
  <2> QED BY <1>3, <2>5, <2>6, <2>7 DEF Fresh
<1> HIDE DEF close, a
<1> QED BY <1>1, <1>2, <1>3 DEF Got

LEMMA MoveToSafe ==
  ASSUME NEW D, NEW W, NEW s, NEW first, NEW final, NEW id, NEW src, Safe(D, W, s),
         Failed(s) \/ (Fresh(s) /\ id \in Ids /\ Unmarked(first))
  PROVE  /\ Safe(D, W, MoveTo(s, first, final, id, src))
         /\ Got(MoveTo(s, first, final, id, src))
<1> DEFINE t == Write(s, s.pix, first)
           u == Occupy(t, s.pix, id)
           v == Allocated(u)
           close == IF final THEN Flag(v, v.pix, first.flags \cup {"final"}) ELSE v
<1>1. CASE Failed(s)
  BY <1>1 DEF MoveTo, Got
<1>2. CASE ~Failed(s)
  <2>1. Safe(D, W, t) /\ Only({"flash", "log"}, s, t) /\ t.flash.lu = s.flash.lu
    BY <1>2, WriteSafe, WriteOnly DEF Unmarked
  <2> HIDE DEF t
  <2>2. t.pix = s.pix
    BY <2>1 DEF Only, Safe, Fields
  <2>3. Safe(D, W, u) /\ Only({"flash", "log"}, t, u)
    BY <1>2, <2>1, <2>2, OccupySafe, WriteOnly DEF Fresh
  <2> HIDE DEF u
  <2>4. Safe(D, W, v) /\ Only({"busy"}, u, v)
    BY <2>3, CountedSafe, WriteOnly
  <2> HIDE DEF v
  <2>5. v.pix = s.pix
    BY <2>1, <2>2, <2>3, <2>4 DEF Only, Safe, Fields
  <2>6. Safe(D, W, close) /\ close.pix = s.pix
    <3>1. "delet" \notin first.flags \cup {"final"}
      BY <1>2 DEF Unmarked
    <3> DEFINE w == Flag(v, v.pix, first.flags \cup {"final"})
    <3>2. Safe(D, W, w) /\ Only({"flash", "log"}, v, w)
      BY <2>4, <3>1, FlagSafe, WriteOnly
    <3> HIDE DEF w
    <3>3. w.pix = v.pix
      BY <2>4, <3>2 DEF Only, Safe, Fields
    <3> QED BY <2>4, <2>5, <3>2, <3>3 DEF w
  <2>7. MoveTo(s, first, final, id, src) = DeletePage(close, src)
    BY <1>2 DEF MoveTo, v, u, t
  <2> HIDE DEF close
  <2> QED BY <1>2, <2>6, <2>7, DeletePageSafe DEF Got, Fresh
<1> QED BY <1>1, <1>2

LEMMA MovePageSafe ==
  ASSUME NEW D, NEW W, NEW s, NEW image, NEW id, NEW src, Safe(D, W, s),
         Failed(s) \/ (id \in Ids /\ Unmarked(image))
  PROVE  /\ Safe(D, W, MovePage(s, image, id, src))
         /\ Got(MovePage(s, image, id, src))
<1> DEFINE first == [image EXCEPT !.flags = (@ \ {"final"}) \cup {"used"}]
           t == FindFree(s)
<1>1. Unmarked(image) => Unmarked(first)
  BY DEF Unmarked
<1>2. Safe(D, W, t) /\ (Failed(t) \/ Fresh(t))
  BY FindFreeSafe
<1>3. Failed(s) => Failed(t)
  BY DEF FindFree
<1>4. MovePage(s, image, id, src) = MoveTo(t, first, "final" \in image.flags, id, src)
  BY DEF MovePage
<1> HIDE DEF t, first
<1> QED BY <1>1, <1>2, <1>3, <1>4, MoveToSafe

LEMMA CopyPageSafe ==
  ASSUME NEW D, NEW W, NEW s, NEW id \in Ids, NEW src \in Pages, Safe(D, W, s),
         "delet" \notin s.flash.page[src].flags
  PROVE  /\ Safe(D, W, CopyPage(s, id, src))
         /\ Got(CopyPage(s, id, src))
<1>1. Unmarked(s.flash.page[src])
  BY DEF Safe, FlashSafe, Whole, Formed, Unmarked
<1>2. Safe(D, W, FindFree(s)) /\ (Failed(FindFree(s)) \/ Fresh(FindFree(s)))
  BY FindFreeSafe
<1> QED BY <1>1, <1>2, MoveToSafe DEF CopyPage

-----------------------------------------------------------------------------

LEMMA EventSafe ==
  ASSUME NEW D, NEW W, NEW s, NEW kind, NEW o, NEW span, NEW pix, NEW size, Safe(D, W, s),
         Failed(s) \/ ((kind # "del" \/ span # 0) /\ (span = 0 => pix \in Pages))
  PROVE  /\ Safe(D, W, Event(s, kind, o, span, pix, size))
         /\ Got(s) => Got(Event(s, kind, o, span, pix, size))
<1> DEFINE header(f) == IF span # 0 THEN f
                        ELSE IF kind = "del" THEN ClosedFd
                        ELSE [f EXCEPT !.hdr = pix, !.size = IF size = 0 THEN @ ELSE size]
           cursor(f) == IF f.cspan # span THEN f
                        ELSE [f EXCEPT !.cpix = IF kind = "del" THEN 0 ELSE pix]
           follow(f) == IF f.obj = o THEN cursor(header(f)) ELSE f
           t == [s EXCEPT !.fd = [d \in Fds |-> follow(@[d])]]
<1>1. Event(s, kind, o, span, pix, size) = IF Failed(s) THEN s ELSE t
  BY DEF Event
<1>2. Only({"fd"}, s, t) /\ t.fd = [d \in Fds |-> follow(s.fd[d])]
  <2> HIDE DEF follow
  <2> QED BY DEF Safe, Only, Fields
<1>3. ASSUME NEW f, {"obj", "hdr"} \subseteq DOMAIN f, ~Failed(s)
      PROVE  /\ {"obj", "hdr"} \subseteq DOMAIN follow(f) /\ follow(f).obj = f.obj
             /\ f.hdr \in Pages => follow(f).hdr \in Pages
  <2>1. /\ {"obj", "hdr"} \subseteq DOMAIN header(f) /\ header(f).obj = f.obj
        /\ f.hdr \in Pages => header(f).hdr \in Pages
    BY <1>3
  <2> HIDE DEF header
  <2>2. \A g : {"obj", "hdr"} \subseteq DOMAIN g =>
               /\ {"obj", "hdr"} \subseteq DOMAIN cursor(g)
               /\ cursor(g).obj = g.obj /\ cursor(g).hdr = g.hdr
    OBVIOUS
  <2> HIDE DEF cursor
  <2> QED BY <1>3, <2>1, <2>2
<1> HIDE DEF follow, t
<1>4. ASSUME ~Failed(s)
      PROVE  FdsSafe(D, t)
  BY <1>2, <1>3, <1>4 DEF Safe, FdsSafe, OpenFd
<1>5. ~Failed(s) => Safe(D, W, t)
  BY <1>2, <1>4, FdsOnlySafe
<1>6. t.pix = s.pix /\ t.res = s.res
  BY <1>2 DEF Only, Safe, Fields
<1> QED BY <1>1, <1>5, <1>6 DEF Got, Failed

(* An event that may close descriptors.                                    *)
LEMMA EventCloses ==
  ASSUME NEW D, NEW W, NEW s, NEW kind, NEW o, NEW span, NEW pix, NEW size, Safe(D, W, s),
         span = 0 => pix \in Pages
  PROVE  Safe({}, W, Event(s, kind, o, span, pix, size))
<1> DEFINE header(f) == IF span # 0 THEN f
                        ELSE IF kind = "del" THEN ClosedFd
                        ELSE [f EXCEPT !.hdr = pix, !.size = IF size = 0 THEN @ ELSE size]
           cursor(f) == IF f.cspan # span THEN f
                        ELSE [f EXCEPT !.cpix = IF kind = "del" THEN 0 ELSE pix]
           follow(f) == IF f.obj = o THEN cursor(header(f)) ELSE f
           t == [s EXCEPT !.fd = [d \in Fds |-> follow(@[d])]]
<1>1. Event(s, kind, o, span, pix, size) = IF Failed(s) THEN s ELSE t
  BY DEF Event
<1>2. Only({"fd"}, s, t) /\ t.fd = [d \in Fds |-> follow(s.fd[d])]
  <2> HIDE DEF follow
  <2> QED BY DEF Safe, Only, Fields
<1>3. ASSUME NEW f, {"obj", "hdr"} \subseteq DOMAIN f
      PROVE  /\ {"obj", "hdr"} \subseteq DOMAIN follow(f)
             /\ \/ follow(f).obj = None
                \/ follow(f).obj = f.obj /\ (f.hdr \in Pages => follow(f).hdr \in Pages)
  <2>1. /\ {"obj", "hdr"} \subseteq DOMAIN header(f)
        /\ \/ header(f).obj = None
           \/ header(f).obj = f.obj /\ (f.hdr \in Pages => header(f).hdr \in Pages)
    BY <1>3 DEF ClosedFd
  <2> HIDE DEF header
  <2>2. \A g : {"obj", "hdr"} \subseteq DOMAIN g =>
               /\ {"obj", "hdr"} \subseteq DOMAIN cursor(g)
               /\ cursor(g).obj = g.obj /\ cursor(g).hdr = g.hdr
    OBVIOUS
  <2> HIDE DEF cursor
  <2> QED BY <1>3, <2>1, <2>2
<1> HIDE DEF follow, t
<1>4. FdsSafe({}, t)
  BY <1>2, <1>3 DEF Safe, FdsSafe, OpenFd
<1>5. Safe({}, W, t)
  BY <1>2, <1>4, FdsOnlySafe
<1>6. Safe({}, W, s)
  BY DEF Safe, FdsSafe
<1> QED BY <1>1, <1>5, <1>6

LEMMA ValidateSafe ==
  ASSUME NEW D, NEW W, NEW s, NEW image, NEW span, Safe(D, W, s)
  PROVE  /\ Safe(D, W, Validate(s, image, span))
         /\ \/ Failed(Validate(s, image, span))
            \/ Validate(s, image, span) = s /\ "delet" \notin image.flags
<1>1. \A e : e # Ok => Safe(D, W, Fail(s, e)) /\ Failed(Fail(s, e))
  BY FailFails
<1>2. "not an index page" # Ok
  BY DEF Ok
<1>3. Safe(D, W, Fail(s, "not an index page")) /\ Failed(Fail(s, "not an index page"))
  BY <1>1, <1>2, Zenon
<1>4. \/ Validate(s, image, span) = Fail(s, "not an index page")
      \/ /\ Validate(s, image, span) = s
         /\ Failed(s) \/ "delet" \notin image.flags
  BY Zenon DEF Validate
<1> QED BY <1>3, <1>4, Zenon

(* A descriptor changes that stays open on the same object.                *)
LEMMA FdSafe ==
  ASSUME NEW D, NEW W, NEW s, NEW t, NEW d, Safe(D, W, s), Only({"fd"}, s, t),
         DOMAIN t.fd = DOMAIN s.fd, \A e \in Fds \ {d} : t.fd[e] = s.fd[e],
         d \in Fds => /\ DOMAIN t.fd[d] = DOMAIN s.fd[d] /\ t.fd[d].obj = s.fd[d].obj
                      /\ t.fd[d].hdr = s.fd[d].hdr \/ t.fd[d].hdr \in Pages
  PROVE  Safe(D, W, t)
<1>1. FdsSafe(D, t)
  BY DEF Safe, FdsSafe, OpenFd
<1> QED BY <1>1, FdsOnlySafe

LEMMA UpdateIndexHdrSafe ==
  ASSUME NEW D, NEW W, NEW s, NEW d, NEW o \in Objects, NEW pix, NEW image, NEW size,
         Safe(D, W, s), "flags" \in DOMAIN image
  PROVE  Safe(D, W, UpdateIndexHdr(s, d, o, pix, image, size))
<1> DEFINE sized == IF size = 0 THEN image.size ELSE size
           new == [image EXCEPT !.size = sized]
           t == Validate(s, image, 0)
           u == MovePage(t, new, IndexId(o), pix)
           v == Event(u, "upd", o, 0, u.pix, sized)
           w == [v EXCEPT !.fd[d].hdr = u.pix]
<1>1. Safe(D, W, t) /\ (Failed(t) \/ Unmarked(new))
  <2>1. Unmarked(image) => Unmarked(new)
    BY DEF Unmarked
  <2> HIDE DEF new
  <2> QED BY <2>1, ValidateSafe DEF Unmarked
<1>2. Safe(D, W, u) /\ Got(u)
  <2> HIDE DEF t, new
  <2>1. IndexId(o) \in Ids
    BY DEF IndexId, Ids
  <2> QED BY <1>1, <2>1, MovePageSafe
<1>3. UpdateIndexHdr(s, d, o, pix, image, size) =
        IF Failed(u) THEN u ELSE IF d = None THEN v ELSE w
  BY DEF UpdateIndexHdr, HeaderMoved
<1> HIDE DEF u
<1>4. ~Failed(u) => Safe(D, W, v) /\ u.pix \in Pages
  BY <1>2, EventSafe DEF Got
<1> HIDE DEF v
<1>5. ASSUME ~Failed(u)
      PROVE  Safe(D, W, w)
  <2>1. Only({"fd"}, v, w) /\ w.fd = [v.fd EXCEPT ![d].hdr = u.pix]
    BY <1>4, <1>5 DEF Safe, Only, Fields
  <2> HIDE DEF w
  <2>2. /\ DOMAIN w.fd = DOMAIN v.fd /\ DOMAIN v.fd = Fds /\ u.pix \in Pages
        /\ \A e \in Fds \ {d} : w.fd[e] = v.fd[e]
        /\ d \in Fds => /\ w.fd[d] = [v.fd[d] EXCEPT !.hdr = u.pix]
                        /\ {"obj", "hdr"} \subseteq DOMAIN v.fd[d]
    BY <1>4, <1>5, <2>1 DEF Safe, FdsSafe
  <2> QED BY <1>4, <1>5, <2>1, <2>2, FdSafe
<1> QED BY <1>2, <1>3, <1>4, <1>5

LEMMA StoreIndexSafe ==
  ASSUME NEW D, NEW W, NEW s, NEW d, NEW o \in Objects, NEW span, NEW pix, Safe(D, W, s)
  PROVE  Safe(D, W, StoreIndex(s, d, o, span, pix))
<1>1. Unmarked(s.work)
  BY DEF Safe, WorkSafe, Unmarked
<1>2. CASE span = 0
  BY <1>1, <1>2, UpdateIndexHdrSafe DEF StoreIndex, Unmarked
<1>3. CASE span # 0
  <2>1. IndexId(o) \in Ids
    BY DEF IndexId, Ids
  <2> DEFINE t == MovePage(s, s.work, IndexId(o), pix)
  <2>2. Safe(D, W, t)
    BY <1>1, <2>1, MovePageSafe
  <2>3. StoreIndex(s, d, o, span, pix) = Event(t, "upd", o, span, t.pix, 0)
    BY <1>3 DEF StoreIndex, Told
  <2> HIDE DEF t
  <2> QED BY <1>3, <2>2, <2>3, EventSafe
<1> QED BY <1>2, <1>3

-----------------------------------------------------------------------------

LEMMA NameSafe ==
  ASSUME NEW D, NEW W, NEW s, NEW span, NEW pix, Safe(D, W, s)
  PROVE  Safe(D, W, Name(s, span, pix))
<1> DEFINE t == [s EXCEPT !.work.body[IxEntry(span)] = pix]
<1>1. Name(s, span, pix) = IF Failed(s) THEN s ELSE t
  BY DEF Name
<1>2. Only({"work"}, s, t) /\ t.work = [s.work EXCEPT !.body[IxEntry(span)] = pix]
  BY DEF Safe, Only, Fields
<1> HIDE DEF t
<1>3. WorkSafe(t)
  BY <1>2 DEF Safe, WorkSafe
<1>4. Only({"work", "at"}, s, t) /\ t.at = s.at
  BY <1>2 DEF Only, Safe, Fields
<1>5. Safe(D, W, t)
  <2>1. {"pix", "span"} \subseteq DOMAIN t.at /\ ("at" \in W => t.at.pix \in Pages)
    BY <1>4 DEF Safe
  <2> QED BY <1>3, <1>4, <2>1, WorkOnlySafe
<1> QED BY <1>1, <1>5

LEMMA MoveDataSafe ==
  ASSUME NEW D, NEW W, NEW s, NEW p \in Pages, NEW o \in Objects, NEW span, Safe(D, W, s)
  PROVE  Safe(D, W, MoveData(s, p, o, span))
<1> DEFINE head == s.flash.page[p]
           deleted == DeletePage(s, p)
           copied == CopyPage(s, DataId(o), p)
<1>1. MoveData(s, p, o, span) =
        IF s.flash.lu[p] # DataId(o) \/ IxSpan(head.span) # span THEN s
        ELSE IF "delet" \in head.flags THEN Name(deleted, head.span, Free)
        ELSE Name(copied, head.span, copied.pix)
  BY DEF MoveData, NameNew
<1>2. Safe(D, W, Name(deleted, head.span, Free))
  <2>1. Safe(D, W, deleted)
    BY DeletePageSafe
  <2> HIDE DEF deleted
  <2> QED BY <2>1, NameSafe
<1>3. ASSUME "delet" \notin head.flags
      PROVE  Safe(D, W, Name(copied, head.span, copied.pix))
  <2>1. DataId(o) \in Ids
    BY DEF DataId, Ids
  <2>2. Safe(D, W, copied)
    BY <1>3, <2>1, CopyPageSafe
  <2> HIDE DEF copied
  <2> QED BY <2>2, NameSafe
<1> HIDE DEF deleted, copied
<1> QED BY <1>1, <1>2, <1>3

MoveDataLoop == INSTANCE LoopInduction WITH
    Step <- LAMBDA c, t, i : IF Failed(t) THEN t
                             ELSE MoveData(t, c.block * PerBlock + i, c.obj, c.span),
    Inv <- LAMBDA c, i, t : Safe(c.fds, c.loaded, t)

(* What moves the data pages of an object out of a block.                  *)
LEMMA EvacuateSafe ==
  ASSUME NEW D, NEW W, NEW s, NEW p \in Pages, Safe(D, W, s), InUse(s.flash.lu[p])
  PROVE  Safe(D, W, Evacuate(s, p))
<1> DEFINE o == s.flash.lu[p].obj
           b == BlockOf(p)
           span == IxSpan(s.flash.page[p].span)
           found == FindIndex(s, o, span)
           start == [found EXCEPT !.work = found.flash.page[found.pix]]
           c == [block |-> b, obj |-> o, span |-> span, fds |-> D, loaded |-> W]
           moved == MoveDataLoop!After(c, start, PerBlock)
<1>1. o \in Objects /\ b \in Blocks
  <2>1. s.flash.lu[p] \in Ids
    BY DEF Safe, FlashSafe, Whole, Formed, InUse
  <2> QED BY <2>1, CursorIn DEF Ids, Cursors, At
<1>2. /\ Safe(D, W, found)
      /\ Failed(found) \/ (found.pix \in Pages /\ "delet" \notin found.flash.page[found.pix].flags)
  <2> DEFINE S == {q \in Pages : IsIndexPage(s.flash, q, o, span)}
  <2>1. found = Find(s, S)
    BY DEF FindIndex
  <2>2. \A q \in S : q \in Pages /\ "delet" \notin s.flash.page[q].flags
    BY DEF IsIndexPage
  <2> HIDE DEF S, found
  <2>3. S \subseteq Pages
    BY <2>2
  <2> QED BY <2>1, <2>2, <2>3, FindSafe
<1>3. Evacuate(s, p) = IF Failed(found) THEN DeletePage(s, p)
                       ELSE StoreIndex(moved, None, o, span, found.pix)
  <2> DEFINE all == Each(start, PerBlock, LAMBDA t, i : MoveData(t, b * PerBlock + i, o, span))
  <2>1. moved = all
    <3> HIDE DEF start, o, b, span
    <3> QED BY GeometryAssumption DEF Each, MoveDataLoop!After
  <2>2. Evacuate(s, p) =
          IF Failed(found) THEN DeletePage(s, p)
          ELSE StoreIndex(all, None, o, span, found.pix)
    <3>1. Evacuate(s, p) = EvacuateFor(found, s, p)
      BY DEF Evacuate
    <3> HIDE DEF found
    <3> QED BY <3>1 DEF EvacuateFor
  <2> HIDE DEF moved, all
  <2> QED BY <2>1, <2>2
<1> HIDE DEF o, b, span, found
<1>4. ASSUME ~Failed(found)
      PROVE  Safe(D, W, moved)
  <2>1. Safe(D, W, start)
    <3>1. Only({"work"}, found, start) /\ start.work = found.flash.page[found.pix]
      BY <1>2 DEF Safe, Only, Fields
    <3>2. WorkSafe(start)
      BY <1>2, <1>4, <3>1 DEF WorkSafe, Safe, FlashSafe, Whole, Formed
    <3> HIDE DEF start
    <3>3. Only({"work", "at"}, found, start) /\ start.at = found.at
      BY <1>2, <3>1 DEF Only, Safe, Fields
    <3>4. {"pix", "span"} \subseteq DOMAIN start.at /\ ("at" \in W => start.at.pix \in Pages)
      BY <1>2, <3>3 DEF Safe
    <3> QED BY <1>2, <3>2, <3>3, <3>4, WorkOnlySafe
  <2>2. /\ c.block = b /\ c.obj = o /\ c.span = span /\ c.fds = D /\ c.loaded = W
        /\ PerBlock \in Nat
    BY GeometryAssumption
  <2> HIDE DEF start, c
  <2>3. ASSUME NEW t, NEW i \in 1 .. PerBlock, Safe(D, W, t)
        PROVE  Safe(D, W, IF Failed(t) THEN t ELSE MoveData(t, b * PerBlock + i, o, span))
    <3>1. b * PerBlock + i \in Pages
      BY <1>1, PageIn
    <3> QED BY <1>1, <2>3, <3>1, MoveDataSafe
  <2> QED BY <2>1, <2>2, <2>3, MoveDataLoop!Kept
<1> HIDE DEF moved
<1> QED BY <1>1, <1>3, <1>4, StoreIndexSafe, DeletePageSafe

(* An entry in use is of a page that is not marked deleted, so that no     *)
(* header page is given up here.                                           *)
LEMMA MoveIndexSafe ==
  ASSUME NEW D, NEW W, NEW s, NEW p \in Pages, Safe(D, W, s), InUse(s.flash.lu[p])
  PROVE  Safe(D, W, MoveIndex(s, p))
<1> DEFINE id == s.flash.lu[p]
           t == CopyPage(s, id, p)
<1>1. id \in Ids /\ "delet" \notin s.flash.page[p].flags
  BY DEF Safe, FlashSafe, Whole, Formed, InUse
<1>2. Safe(D, W, t) /\ Got(t)
  BY <1>1, CopyPageSafe
<1>3. MoveIndex(s, p) = Event(t, "mov", id.obj, s.flash.page[p].span, t.pix, 0)
  BY <1>1 DEF MoveIndex, Told
<1> HIDE DEF t
<1> QED BY <1>2, <1>3, EventSafe DEF Got

Holds(t, p, index) == InUse(t.flash.lu[p]) /\ t.flash.lu[p].index = index

EvacuateLoop == INSTANCE LoopInduction WITH
    Step <- LAMBDA c, t, i : IF Failed(t) THEN t
                             ELSE IF Holds(t, c.block * PerBlock + i, FALSE)
                                  THEN Evacuate(t, c.block * PerBlock + i) ELSE t,
    Inv <- LAMBDA c, i, t : Safe(c.fds, c.loaded, t)

MoveIndexLoop == INSTANCE LoopInduction WITH
    Step <- LAMBDA c, t, i : IF Failed(t) THEN t
                             ELSE IF Holds(t, c.block * PerBlock + i, TRUE)
                                  THEN MoveIndex(t, c.block * PerBlock + i) ELSE t,
    Inv <- LAMBDA c, i, t : Safe(c.fds, c.loaded, t)

LEMMA GcCleanSafe ==
  ASSUME NEW D, NEW W, NEW s, NEW b \in Blocks, Safe(D, W, s)
  PROVE  Safe(D, W, GcClean(s, b))
<1> DEFINE next == [s EXCEPT !.next = At((b + 1) % BlockCount, 0)]
           away == IF s.next.block # b THEN s ELSE next
           c == [block |-> b, fds |-> D, loaded |-> W]
           data == EvacuateLoop!After(c, away, PerBlock)
           index == MoveIndexLoop!After(c, data, PerBlock)
<1>1. Safe(D, W, away)
  <2>1. Only({"next"}, s, next) /\ next.next = At((b + 1) % BlockCount, 0)
    BY DEF Safe, Only, Fields
  <2> HIDE DEF next
  <2>2. At((b + 1) % BlockCount, 0) \in Cursors
    BY GeometryAssumption DEF At, Cursors, Blocks
  <2>3. RamSafe(next)
    BY <2>1, <2>2 DEF Safe, RamSafe, Only, Fields
  <2>4. Only(Results \cup {"busy", "deleted", "free", "cursor", "next"}, s, next)
    BY <2>1 DEF Only
  <2> QED BY <2>3, <2>4, CountersSafe
<1>2. PerBlock \in Nat /\ c.block = b /\ c.fds = D /\ c.loaded = W
  BY GeometryAssumption
<1>3. GcClean(s, b) = index
  <2> HIDE DEF away
  <2>1. GcClean(s, b) =
          Each(Each(away, PerBlock, LAMBDA t, i :
                    IF Holds(t, b * PerBlock + i, FALSE) THEN Evacuate(t, b * PerBlock + i) ELSE t),
               PerBlock, LAMBDA t, i :
                    IF Holds(t, b * PerBlock + i, TRUE) THEN MoveIndex(t, b * PerBlock + i) ELSE t)
    BY DEF GcClean, Holds, away
  <2> QED BY <1>2, <2>1 DEF Each, EvacuateLoop!After, MoveIndexLoop!After
<1> HIDE DEF c
<1>4. Safe(D, W, data)
  <2> HIDE DEF away
  <2>1. ASSUME NEW t, NEW i \in 1 .. PerBlock, Safe(D, W, t)
        PROVE  Safe(D, W, IF Failed(t) THEN t
                          ELSE IF Holds(t, b * PerBlock + i, FALSE)
                               THEN Evacuate(t, b * PerBlock + i) ELSE t)
    BY <2>1, PageIn, EvacuateSafe DEF Holds
  <2> QED BY <1>1, <1>2, <2>1, EvacuateLoop!Kept
<1>5. Safe(D, W, index)
  <2> HIDE DEF data
  <2>1. ASSUME NEW t, NEW i \in 1 .. PerBlock, Safe(D, W, t)
        PROVE  Safe(D, W, IF Failed(t) THEN t
                          ELSE IF Holds(t, b * PerBlock + i, TRUE)
                               THEN MoveIndex(t, b * PerBlock + i) ELSE t)
    BY <2>1, PageIn, MoveIndexSafe DEF Holds
  <2> QED BY <1>2, <1>4, <2>1, MoveIndexLoop!Kept
<1> QED BY <1>3, <1>5

-----------------------------------------------------------------------------

(* The first among the best of 0 .. n: as the collector looks for a block. *)
BestLoop == INSTANCE LoopInduction WITH
    Step <- LAMBDA score, b, i : IF score[b] < score[i] THEN i ELSE b,
    Inv <- LAMBDA score, i, b : /\ b \in 0 .. i
                                /\ \A c \in 0 .. i : \/ score[c] < score[b]
                                                     \/ score[c] = score[b] /\ b <= c

LEMMA BestOf ==
  ASSUME NEW score, \A b \in Blocks : score[b] \in Int
  PROVE  \E b \in Blocks : \A c \in Blocks :
             score[c] < score[b] \/ (score[c] = score[b] /\ b <= c)
<1> DEFINE n == BlockCount - 1
<1>1. n \in Nat /\ Blocks = 0 .. n
  BY GeometryAssumption DEF Blocks
<1> HIDE DEF n
<1>2. ASSUME NEW b, NEW i \in 1 .. n, b \in 0 .. i - 1,
             \A c \in 0 .. i - 1 : score[c] < score[b] \/ (score[c] = score[b] /\ b <= c)
      PROVE  LET d == IF score[b] < score[i] THEN i ELSE b IN
             /\ d \in 0 .. i
             /\ \A c \in 0 .. i : score[c] < score[d] \/ (score[c] = score[d] /\ d <= c)
  BY <1>1, <1>2
<1>3. /\ BestLoop!After(score, 0, n) \in 0 .. n
      /\ \A c \in 0 .. n : LET b == BestLoop!After(score, 0, n) IN
             score[c] < score[b] \/ (score[c] = score[b] /\ b <= c)
  BY <1>1, <1>2, BestLoop!Kept
<1> QED BY <1>1, <1>3

(* How many pages of a block are of a kind is a number.                    *)
LEMMA CountIn ==
  ASSUME NEW b \in Blocks, NEW S, S \subseteq PagesOf(b)
  PROVE  Cardinality(S) \in Nat
<1>1. b * PerBlock + 1 \in Int /\ (b + 1) * PerBlock \in Int
  BY GeometryAssumption DEF Blocks
<1>2. IsFiniteSet(PagesOf(b))
  BY <1>1, FS_Interval DEF PagesOf
<1> QED BY <1>2, FS_Subset, FS_CardinalityType

LEMMA CandidateIn ==
  ASSUME NEW D, NEW W, NEW s, NEW crammed, Safe(D, W, s)
  PROVE  Candidate(s, crammed) \in Blocks
<1> DEFINE dead(b) == Count(s.flash, b, LAMBDA e : e = Deleted)
           used(b) == Count(s.flash, b, InUse)
           score == [b \in Blocks |-> WeightDeleted * dead(b) + WeightUsed * used(b)
                                      + (IF crammed THEN 0
                                         ELSE WeightAge * (s.max - s.flash.count[b]))]
<1>1. ASSUME NEW b \in Blocks
      PROVE  dead(b) \in Nat /\ used(b) \in Nat
  BY CountIn DEF Count
<1> HIDE DEF dead, used
<1>2. \A b \in Blocks : s.max \in Int /\ s.flash.count[b] \in Int
  BY DEF Safe, FlashSafe, Whole, Formed
<1>3. \A b \in Blocks : score[b] \in Int
  BY <1>1, <1>2 DEF WeightDeleted, WeightUsed, WeightAge
<1>4. Candidate(s, crammed) = CHOOSE b \in Blocks : \A c \in Blocks :
                                  score[c] < score[b] \/ (score[c] = score[b] /\ b <= c)
  BY DEF Candidate, dead, used
<1> HIDE DEF score
<1> QED BY <1>3, <1>4, BestOf

LEMMA ReclaimSafe ==
  ASSUME NEW D, NEW W, NEW s, NEW b \in Blocks, Safe(D, W, s)
  PROVE  Safe(D, W, Reclaim(s, b))
<1> DEFINE n == Cardinality({p \in PagesOf(b) : InUse(s.flash.lu[p])})
           m == Cardinality({p \in PagesOf(b) : s.flash.lu[p] = Deleted})
           t == [s EXCEPT !.busy = @ - n, !.deleted = @ - m]
<1>1. n \in Nat /\ m \in Nat
  BY CountIn
<1>2. Reclaim(s, b) = IF Failed(s) THEN s ELSE EraseBlock(t, b)
  BY DEF Reclaim
<1> HIDE DEF n, m
<1>3. Only({"busy", "deleted"}, s, t) /\ t.busy = s.busy - n /\ t.deleted = s.deleted - m
  BY DEF Safe, Only, Fields
<1> HIDE DEF t
<1>4. RamSafe(t)
  BY <1>1, <1>3 DEF Safe, RamSafe, Only, Fields
<1>5. Only(Results \cup {"busy", "deleted", "free", "cursor", "next"}, s, t)
  BY <1>3 DEF Only
<1> QED BY <1>2, <1>4, <1>5, CountersSafe, EraseSafe

LEMMA GcRunSafe ==
  ASSUME NEW D, NEW W, NEW s, NEW b \in Blocks, NEW len, Safe(D, W, s)
  PROVE  Safe(D, W, GcRun(s, b, len))
<1> DEFINE t == [s EXCEPT !.cleaning = TRUE]
           u == Reclaim(GcClean(t, b), b)
<1>1. Safe(D, W, t)
  <2>1. Only(Results, s, t)
    BY DEF Safe, Only, Fields, Results
  <2> HIDE DEF t
  <2> QED BY <2>1, ResultsSafe
<1> HIDE DEF t
<1>2. Safe(D, W, u)
  BY <1>1, GcCleanSafe, ReclaimSafe
<1>3. GcRun(s, b, len) = Judged(u, FreePages(s), len)
  BY DEF GcRun, t
<1> HIDE DEF u
<1>4. Only(Results, u, Judged(u, FreePages(s), len))
  BY <1>2 DEF Safe, Only, Fields, Results, Judged
<1> QED BY <1>2, <1>3, <1>4, ResultsSafe

GcLoop == INSTANCE LoopInduction WITH
    Step <- LAMBDA c, t, i : IF Failed(t) THEN t
                             ELSE IF t.enough THEN t
                             ELSE GcRun(t, Candidate(t, FreePages(t) <= 0), c.len),
    Inv <- LAMBDA c, i, t : Safe(c.fds, c.loaded, t)

LEMMA GcCheckSafe ==
  ASSUME NEW D, NEW W, NEW s, NEW len, Safe(D, W, s)
  PROVE  Safe(D, W, GcCheck(s, len))
<1> DEFINE c == [len |-> len, fds |-> D, loaded |-> W]
           runs == GcLoop!After(c, s, MaxRuns)
           all == Each(s, MaxRuns, LAMBDA t, i :
                       IF t.enough THEN t ELSE GcRun(t, Candidate(t, FreePages(t) <= 0), len))
           full == Fail(s, "full")
<1>1. c.len = len /\ c.fds = D /\ c.loaded = W
  OBVIOUS
<1>2. runs = all
  BY DEF Each, GcLoop!After, MaxRuns
<1> HIDE DEF c
<1>3. Safe(D, W, runs)
  <2>1. \A t : Safe(D, W, t) =>
               Safe(D, W, IF Failed(t) THEN t
                          ELSE IF t.enough THEN t
                          ELSE GcRun(t, Candidate(t, FreePages(t) <= 0), len))
    BY CandidateIn, GcRunSafe
  <2> QED BY <1>1, <2>1, GcLoop!Kept DEF MaxRuns
<1>4. ASSUME NEW t, Safe(D, W, t)
      PROVE  Safe(D, W, GcChecked(t, len))
  <2>1. Only(Results, t, [t EXCEPT !.enough = FALSE])
    BY <1>4 DEF Safe, Only, Fields, Results
  <2>2. Safe(D, W, [t EXCEPT !.enough = FALSE])
    BY <1>4, <2>1, ResultsSafe
  <2> QED BY <1>4, <2>2, CountedSafe DEF GcChecked
<1>5. GcCheck(s, len) =
        IF Failed(s) \/ (s.free > 3 /\ len < FreePages(s) * PageSize) THEN s
        ELSE IF (len + PageSize - 1) \div PageSize > FreePages(s) + s.deleted THEN full
        ELSE GcChecked(all, len)
  BY DEF GcCheck
<1>6. Safe(D, W, full)
  BY CountedSafe
<1> HIDE DEF runs, all, full
<1> QED BY <1>2, <1>3, <1>4, <1>5, <1>6

-----------------------------------------------------------------------------

(* What only changes RAM.  A call that has loaded an index page is at one. *)
LEMMA AtSafe ==
  ASSUME NEW D, NEW V, NEW W, NEW s, NEW t, Safe(D, V, s), Only(Results \cup {"at"}, s, t),
         {"pix", "span"} \subseteq DOMAIN t.at, "at" \in W => t.at.pix \in Pages
  PROVE  Safe(D, W, t)
<1>1. /\ t.flash = s.flash /\ t.log = s.log /\ t.max = s.max /\ t.busy = s.busy
      /\ t.deleted = s.deleted /\ t.free = s.free /\ t.cursor = s.cursor /\ t.next = s.next
      /\ t.work = s.work /\ t.fd = s.fd /\ DOMAIN t = Fields
  BY DEF Safe, Only, Fields, Results
<1> QED BY <1>1 DEF Safe, FlashSafe, RamSafe, WorkSafe, FdsSafe

LEMMA ResultSafe ==
  ASSUME NEW D, NEW W, NEW s, Safe(D, W, s)
  PROVE  /\ Safe(D, W, OrBreak(s)) /\ Safe(D, W, Finish(s))
         /\ \A n : Safe(D, W, Wrote(s, n))
         /\ Safe(D, W, WholePage(s))
<1>1. /\ {"pix", "span"} \subseteq DOMAIN s.at /\ ("at" \in W => s.at.pix \in Pages)
      /\ DOMAIN s = Fields
  BY DEF Safe
<1>2. Safe(D, W, OrBreak(s))
  <2> DEFINE t == [s EXCEPT !.at.error = s.res, !.res = Ok]
  <2>1. Only(Results \cup {"at"}, s, t) /\ t.at = [s.at EXCEPT !.error = s.res]
    BY <1>1 DEF Only, Fields, Results
  <2>2. OrBreak(s) = IF Failed(s) THEN t ELSE s
    BY DEF OrBreak
  <2> HIDE DEF t
  <2>3. {"pix", "span"} \subseteq DOMAIN t.at /\ t.at.pix = s.at.pix
    BY <1>1, <2>1
  <2> QED BY <1>1, <2>1, <2>2, <2>3, AtSafe
<1>3. Safe(D, W, Finish(s))
  <2>1. Only(Results, s, [s EXCEPT !.res = s.at.error])
    BY <1>1 DEF Only, Fields, Results
  <2> QED BY <2>1, ResultsSafe DEF Finish
<1>4. ASSUME NEW n
      PROVE  Safe(D, W, Wrote(s, n))
  <2> DEFINE t == [s EXCEPT !.at.written = @ + n]
  <2>1. Only(Results \cup {"at"}, s, t) /\ t.at = [s.at EXCEPT !.written = @ + n]
    BY <1>1 DEF Only, Fields, Results
  <2>2. Wrote(s, n) = IF Broken(s) THEN s ELSE t
    BY DEF Wrote
  <2> HIDE DEF t
  <2>3. {"pix", "span"} \subseteq DOMAIN t.at /\ t.at.pix = s.at.pix
    BY <1>1, <2>1
  <2> QED BY <1>1, <2>1, <2>2, <2>3, AtSafe
<1>5. Safe(D, W, WholePage(s))
  <2> DEFINE t == [s EXCEPT !.res = Ok, !.strayed = @ \/ s.at.data = s.stray]
             u == [s EXCEPT !.at.data = s.pix]
  <2>1. Only(Results, s, t)
    BY <1>1 DEF Only, Fields, Results
  <2>2. Only(Results \cup {"at"}, s, u) /\ u.at = [s.at EXCEPT !.data = s.pix]
    BY <1>1 DEF Only, Fields, Results
  <2>3. WholePage(s) = IF Failed(s) THEN t ELSE u
    BY DEF WholePage
  <2> HIDE DEF t, u
  <2>4. {"pix", "span"} \subseteq DOMAIN u.at /\ u.at.pix = s.at.pix
    BY <1>1, <2>2
  <2> QED BY <1>1, <2>1, <2>2, <2>3, <2>4, AtSafe, ResultsSafe
<1> QED BY <1>2, <1>3, <1>4, <1>5

LEMMA FdFieldsSafe ==
  ASSUME NEW D, NEW W, NEW s, NEW d, Safe(D, W, s)
  PROVE  /\ Safe(D, W, MoveCursor(s, d))
         /\ \A size : Safe(D, W, SetSize(s, d, size))
         /\ Safe(D, W, CursorSet(s, d))
<1>1. DOMAIN s = Fields /\ DOMAIN s.fd = Fds
  BY DEF Safe, FdsSafe
<1>2. Safe(D, W, MoveCursor(s, d))
  <2> DEFINE t == [s EXCEPT !.fd[d].cpix = s.at.pix, !.fd[d].cspan = s.at.span]
  <2>1. Only({"fd"}, s, t)
        /\ t.fd = [s.fd EXCEPT ![d] = [[@ EXCEPT !.cpix = s.at.pix] EXCEPT !.cspan = s.at.span]]
    BY <1>1 DEF Only, Fields
  <2>2. MoveCursor(s, d) = IF Failed(s) THEN s ELSE t
    BY DEF MoveCursor
  <2> HIDE DEF t
  <2>3. /\ DOMAIN t.fd = DOMAIN s.fd /\ \A e \in Fds \ {d} : t.fd[e] = s.fd[e]
        /\ d \in Fds => /\ DOMAIN t.fd[d] = DOMAIN s.fd[d] /\ t.fd[d].obj = s.fd[d].obj
                        /\ t.fd[d].hdr = s.fd[d].hdr
    BY <1>1, <2>1 DEF Safe, FdsSafe
  <2> QED BY <2>1, <2>2, <2>3, FdSafe
<1>3. ASSUME NEW size
      PROVE  Safe(D, W, SetSize(s, d, size))
  <2> DEFINE t == [s EXCEPT !.fd[d].size = size]
  <2>1. Only({"fd"}, s, t) /\ t.fd = [s.fd EXCEPT ![d].size = size]
    BY <1>1 DEF Only, Fields
  <2>2. SetSize(s, d, size) = IF Failed(s) THEN s ELSE t
    BY DEF SetSize
  <2> HIDE DEF t
  <2>3. /\ DOMAIN t.fd = DOMAIN s.fd /\ \A e \in Fds \ {d} : t.fd[e] = s.fd[e]
        /\ d \in Fds => /\ DOMAIN t.fd[d] = DOMAIN s.fd[d] /\ t.fd[d].obj = s.fd[d].obj
                        /\ t.fd[d].hdr = s.fd[d].hdr
    BY <1>1, <2>1 DEF Safe, FdsSafe
  <2> QED BY <2>1, <2>2, <2>3, FdSafe
<1>4. Safe(D, W, CursorSet(s, d))
  <2> DEFINE u == [s EXCEPT !.fd[d].cpix = s.stray]
             t == [u EXCEPT !.strayed = TRUE]
  <2>1. Only({"fd"}, s, u) /\ u.fd = [s.fd EXCEPT ![d].cpix = s.stray]
    BY <1>1 DEF Only, Fields
  <2>2. CursorSet(s, d) = IF Failed(s) /\ s.at.span # 0 THEN t ELSE Finish(s)
    BY DEF CursorSet
  <2> HIDE DEF u
  <2>3. /\ DOMAIN u.fd = DOMAIN s.fd /\ \A e \in Fds \ {d} : u.fd[e] = s.fd[e]
        /\ d \in Fds => /\ DOMAIN u.fd[d] = DOMAIN s.fd[d] /\ u.fd[d].obj = s.fd[d].obj
                        /\ u.fd[d].hdr = s.fd[d].hdr
    BY <1>1, <2>1 DEF Safe, FdsSafe
  <2>4. Safe(D, W, u)
    BY <2>1, <2>3, FdSafe
  <2>5. Only(Results, u, t)
    BY <2>4 DEF Safe, Only, Fields, Results
  <2>6. Safe(D, W, t)
    BY <2>4, <2>5, ResultsSafe
  <2> HIDE DEF t
  <2> QED BY <2>2, <2>6, ResultSafe
<1> QED BY <1>2, <1>3, <1>4

(* A call begins at the header page of its descriptor.                     *)
Ready(D, s) == Safe(D, {}, s) /\ (Failed(s) \/ Safe(D, {"at"}, s))

LEMMA ReadySafe ==
  ASSUME NEW D, NEW s, Safe(D, {"at"}, s)
  PROVE  Ready(D, s)
BY LessSafe DEF Ready

LEMMA StartSafe ==
  ASSUME NEW D, NEW s, NEW d \in D, Safe(D, {}, s)
  PROVE  Ready(D, AppendStart(s, d)) /\ Ready(D, ModifyStart(s, d))
<1>1. s.fd[d].hdr \in Pages /\ DOMAIN s = Fields
  BY DEF Safe, FdsSafe, OpenFd
<1>2. Ready(D, AppendStart(s, d))
  <2> DEFINE t == [s EXCEPT !.at = [Nowhere EXCEPT !.pix = s.fd[d].hdr]]
  <2>1. Only(Results \cup {"at"}, s, t) /\ t.at = [Nowhere EXCEPT !.pix = s.fd[d].hdr]
    BY <1>1 DEF Only, Fields, Results
  <2>2. {"pix", "span"} \subseteq DOMAIN t.at /\ t.at.pix = s.fd[d].hdr
    BY <2>1 DEF Nowhere
  <2>3. AppendStart(s, d) = IF Failed(s) THEN s ELSE t
    BY DEF AppendStart
  <2> HIDE DEF t
  <2>4. Safe(D, {"at"}, t)
    BY <1>1, <2>1, <2>2, AtSafe
  <2> QED BY <2>3, <2>4, ReadySafe DEF Ready
<1>3. Ready(D, ModifyStart(s, d))
  <2> DEFINE t == [s EXCEPT !.at = [Nowhere EXCEPT !.pix = s.fd[d].hdr, !.data = s.stray]]
  <2>1. Only(Results \cup {"at"}, s, t)
        /\ t.at = [Nowhere EXCEPT !.pix = s.fd[d].hdr, !.data = s.stray]
    BY <1>1 DEF Only, Fields, Results
  <2>2. {"pix", "span"} \subseteq DOMAIN t.at /\ t.at.pix = s.fd[d].hdr
    BY <2>1 DEF Nowhere
  <2>3. ModifyStart(s, d) = IF Failed(s) THEN s ELSE t
    BY DEF ModifyStart
  <2> HIDE DEF t
  <2>4. Safe(D, {"at"}, t)
    BY <1>1, <2>1, <2>2, AtSafe
  <2> QED BY <2>3, <2>4, ReadySafe DEF Ready
<1> QED BY <1>2, <1>3

(* Loading an index page that is not marked deleted.                       *)
LEMMA LoadedSafe ==
  ASSUME NEW D, NEW W, NEW s, NEW pix \in Pages, NEW span, Safe(D, W, s),
         Failed(s) \/ "delet" \notin s.flash.page[pix].flags
  PROVE  Safe(D, W, Loaded(s, pix, span))
<1> DEFINE t == [s EXCEPT !.work = s.flash.page[pix], !.at.pix = pix, !.at.span = span]
<1>1. Loaded(s, pix, span) = IF Failed(s) THEN s ELSE t
  BY DEF Loaded
<1>2. /\ Only({"work", "at"}, s, t) /\ t.work = s.flash.page[pix]
      /\ t.at = [[s.at EXCEPT !.pix = pix] EXCEPT !.span = span]
  BY DEF Safe, Only, Fields
<1> HIDE DEF t
<1>3. ~Failed(s) => WorkSafe(t)
  BY <1>2 DEF WorkSafe, Safe, FlashSafe, Whole, Formed
<1>4. {"pix", "span"} \subseteq DOMAIN t.at /\ t.at.pix = pix
  BY <1>2 DEF Safe
<1> QED BY <1>1, <1>2, <1>3, <1>4, WorkOnlySafe

LEMMA LoadHeaderSafe ==
  ASSUME NEW D, NEW W, NEW s, NEW pix, Safe(D, W, s), Failed(s) \/ pix \in Pages
  PROVE  Safe(D, W, LoadHeader(s, pix))
<1> DEFINE t == Validate(s, s.flash.page[pix], 0)
<1>1. LoadHeader(s, pix) = IF Failed(s) THEN s ELSE Loaded(t, pix, 0)
  BY DEF LoadHeader
<1>2. Safe(D, W, t) /\ (Failed(t) \/ "delet" \notin t.flash.page[pix].flags)
  BY ValidateSafe
<1> HIDE DEF t
<1> QED BY <1>1, <1>2, LoadedSafe

LEMMA LoadIndexSafe ==
  ASSUME NEW D, NEW W, NEW s, NEW d, NEW span, Safe(D, W, s)
  PROVE  Safe(D, W, LoadIndex(s, d, span))
<1> DEFINE f == s.fd[d]
           failed == Fail(s, "not an index page")
           direct == [s EXCEPT !.pix = f.cpix]
           found == IF Failed(s) THEN s
                    ELSE IF f.cspan # span THEN FindIndex(s, f.obj, span)
                    ELSE IF f.cpix \in Pages THEN direct
                    ELSE failed
           valid == IF Failed(found) THEN found
                    ELSE Validate(found, found.flash.page[found.pix], span)
<1>1. LoadIndex(s, d, span) = Loaded(valid, valid.pix, span)
  BY DEF LoadIndex
<1>2. Safe(D, W, found) /\ Got(found)
  <2>1. Safe(D, W, direct) /\ direct.pix = f.cpix
    <3>1. Only(Results, s, direct) /\ direct.pix = f.cpix
      BY DEF Safe, Only, Fields, Results
    <3> HIDE DEF direct
    <3> QED BY <3>1, ResultsSafe
  <2>2. Safe(D, W, failed) /\ Failed(failed)
    <3>1. "not an index page" # Ok
      BY DEF Ok
    <3> QED BY <3>1, FailFails, Zenon
  <2> DEFINE searched == FindIndex(s, f.obj, span)
  <2>3. Safe(D, W, searched) /\ Got(searched)
    BY FindSafe DEF FindIndex, Got
  <2> HIDE DEF direct, failed, searched
  <2> QED BY <2>1, <2>2, <2>3 DEF Got, searched
<1> HIDE DEF found
<1>3. /\ Safe(D, W, valid)
      /\ Failed(valid) \/ (valid.pix \in Pages /\ "delet" \notin valid.flash.page[valid.pix].flags)
  <2> DEFINE t == Validate(found, found.flash.page[found.pix], span)
  <2>1. /\ Safe(D, W, t)
        /\ Failed(t) \/ (t = found /\ "delet" \notin found.flash.page[found.pix].flags)
    BY <1>2, ValidateSafe
  <2>2. valid = IF Failed(found) THEN found ELSE t
    OBVIOUS
  <2> HIDE DEF t, valid
  <2> QED BY <1>2, <2>1, <2>2 DEF Got
<1> HIDE DEF valid
<1>4. ~Failed(valid) => Safe(D, W, Loaded(valid, valid.pix, span))
  BY <1>3, LoadedSafe
<1>5. Failed(valid) => Loaded(valid, valid.pix, span) = valid
  BY DEF Loaded
<1> QED BY <1>1, <1>3, <1>4, <1>5

-----------------------------------------------------------------------------

(* There are more ids than pages: one is not taken.                        *)
LEMMA FreeObjIdIn ==
  ASSUME NEW s
  PROVE  FreeObjId(s) \in Objects
<1> DEFINE used == {q \in Pages : InUse(s.flash.lu[q])}
           taken == {s.flash.lu[p].obj : p \in used}
           name == [p \in used |-> s.flash.lu[p].obj]
           spare == Objects \ taken
<1>1. IsFiniteSet(Pages) /\ Cardinality(Pages) \in Nat
  <2>1. 1 \in Int /\ BlockCount * PerBlock \in Int
    BY GeometryAssumption
  <2> QED BY <2>1, FS_Interval, FS_CardinalityType DEF Pages
<1>2. IsFiniteSet(taken) /\ Cardinality(taken) <= Cardinality(Pages)
  <2>1. IsFiniteSet(used) /\ Cardinality(used) <= Cardinality(Pages) /\ Cardinality(used) \in Nat
    <3>1. used \in SUBSET Pages
      OBVIOUS
    <3> HIDE DEF used
    <3> QED BY <1>1, <3>1, FS_Subset, FS_CardinalityType
  <2> HIDE DEF used
  <2>2. name \in Surjection(used, taken)
    BY DEF Surjection
  <2> HIDE DEF taken, name
  <2>3. IsFiniteSet(taken) /\ Cardinality(taken) <= Cardinality(used) /\ Cardinality(taken) \in Nat
    BY <2>1, <2>2, FS_Surjection, FS_CardinalityType
  <2> QED BY <1>1, <2>1, <2>3
<1> HIDE DEF taken
<1>3. IsFiniteSet(Objects) /\ Cardinality(Objects) = Cardinality(Pages) + 1
  <2>1. 1 \in Int /\ Cardinality(Pages) + 1 \in Int
    BY <1>1
  <2> QED BY <1>1, <2>1, FS_Interval DEF Objects
<1>4. spare # {}
  <2> SUFFICES ASSUME Objects \subseteq taken PROVE FALSE
    OBVIOUS
  <2>1. Cardinality(Objects) <= Cardinality(taken) /\ Cardinality(taken) \in Nat
    BY <1>2, FS_Subset, FS_CardinalityType
  <2> QED BY <1>1, <1>2, <1>3, <2>1
<1>5. Objects \subseteq Nat /\ \A o \in Objects : \A r \in 1 .. o - 1 : r \in Objects
  BY <1>1 DEF Objects
<1>6. PICK o \in spare : \A r \in spare : o <= r
  <2>1. spare \subseteq Nat
    BY <1>5
  <2> HIDE DEF spare
  <2> QED BY <1>4, <2>1, Numbers!NatLeast
<1>7. o \in Objects /\ o \notin taken /\ \A r \in 1 .. o - 1 : r \in taken
  <2>1. ASSUME NEW r \in 1 .. o - 1, r \notin taken
        PROVE  FALSE
    BY <1>5, <1>6, <2>1
  <2> QED BY <1>6, <2>1
<1>8. FreeObjId(s) = CHOOSE x \in Objects : x \notin taken /\ \A r \in 1 .. x - 1 : r \in taken
  BY DEF FreeObjId, taken, used
<1> QED BY <1>7, <1>8

LEMMA EventOnly ==
  ASSUME NEW s, NEW kind, NEW o, NEW span, NEW pix, NEW size, DOMAIN s = Fields
  PROVE  Only({"fd"}, s, Event(s, kind, o, span, pix, size))
<1> DEFINE header(f) == IF span # 0 THEN f
                        ELSE IF kind = "del" THEN ClosedFd
                        ELSE [f EXCEPT !.hdr = pix, !.size = IF size = 0 THEN @ ELSE size]
           cursor(f) == IF f.cspan # span THEN f
                        ELSE [f EXCEPT !.cpix = IF kind = "del" THEN 0 ELSE pix]
           follow(f) == IF f.obj = o THEN cursor(header(f)) ELSE f
           t == [s EXCEPT !.fd = [d \in Fds |-> follow(@[d])]]
<1>1. Event(s, kind, o, span, pix, size) = IF Failed(s) THEN s ELSE t
  BY DEF Event
<1> HIDE DEF follow
<1>2. Only({"fd"}, s, t)
  BY DEF Only, Fields
<1> HIDE DEF t
<1> QED BY <1>1, <1>2 DEF Only

(* A header page entered in the lookup for the call that created it.       *)
Entered(s) == s.pix \in Pages /\ s.flash.lu[s.pix] \in Ids

LEMMA CreateSafe ==
  ASSUME NEW D, NEW W, NEW s, NEW n, Safe(D, W, s)
  PROVE  /\ Safe(D, W, Create(s, n))
         /\ Failed(Create(s, n)) \/ Entered(Create(s, n))
<1> DEFINE t == FindFree(GcCheck(s, PageSize))
           o == FreeObjId(s)
           header == [Blank EXCEPT !.id = IndexId(o), !.span = 0, !.name = n,
                                   !.flags = {"final", "index", "used"}]
           u == Occupy(t, t.pix, IndexId(o))
           v == Allocated(u)
           w == Write(v, t.pix, header)
           x == Event(w, "new", o, 0, t.pix, Free)
<1>1. Safe(D, W, t) /\ (Failed(t) \/ Fresh(t))
  BY GcCheckSafe, FindFreeSafe
<1>2. IndexId(o) \in Ids
  BY FreeObjIdIn DEF IndexId, Ids
<1>3. "delet" \notin header.flags
  BY DEF Blank
<1>4. Create(s, n) = IF Failed(t) THEN t ELSE x
  BY DEF Create, CreateAs
<1> HIDE DEF t, header
<1>5. ASSUME ~Failed(t)
      PROVE  Safe(D, W, x) /\ Entered(x)
  <2>1. /\ Safe(D, W, u) /\ u.flash.lu[t.pix] = IndexId(o) /\ t.pix \in Pages
        /\ Only({"flash", "log"}, t, u)
    <3>1. t.pix \in Pages /\ t.flash.lu[t.pix] = Free
      BY <1>1, <1>5 DEF Fresh
    <3> DEFINE id == IndexId(o)
    <3> HIDE DEF id
    <3>2. Safe(D, W, Occupy(t, t.pix, id)) /\ Occupy(t, t.pix, id).flash.lu[t.pix] = id
      BY <1>1, <1>2, <3>1, OccupySafe DEF id
    <3>3. Only({"flash", "log"}, t, Occupy(t, t.pix, id))
      BY <1>1, WriteOnly
    <3> QED BY <3>1, <3>2, <3>3 DEF id
  <2> HIDE DEF u
  <2>2. Safe(D, W, v) /\ Only({"busy"}, u, v)
    BY <2>1, CountedSafe, WriteOnly
  <2> HIDE DEF v
  <2>3. Safe(D, W, w) /\ Only({"flash", "log"}, v, w) /\ w.flash.lu = v.flash.lu
    BY <1>3, <2>2, WriteSafe, WriteOnly
  <2> HIDE DEF w
  <2>4. Safe(D, W, x) /\ Only({"fd"}, w, x)
    <3>1. DOMAIN w = Fields
      BY <2>3 DEF Safe
    <3>2. "new" # "del"
      OBVIOUS
    <3> QED BY <2>1, <2>3, <3>1, <3>2, EventSafe, EventOnly
  <2> HIDE DEF x
  <2>5. x.pix = t.pix /\ x.flash = w.flash /\ v.flash = u.flash
    BY <1>1, <2>1, <2>2, <2>3, <2>4 DEF Only, Safe, Fields
  <2> QED BY <1>2, <2>1, <2>3, <2>4, <2>5 DEF Entered
<1> HIDE DEF x
<1> QED BY <1>1, <1>4, <1>5

(* Afterwards the descriptor is open.                                      *)
LEMMA OpenByPageSafe ==
  ASSUME NEW W, NEW s, NEW d \in Fds, Safe({}, W, s), Failed(s) \/ Entered(s)
  PROVE  /\ Safe({}, W, OpenByPage(s, d, s.pix))
         /\ Failed(OpenByPage(s, d, s.pix)) \/ Safe({d}, W, OpenByPage(s, d, s.pix))
<1> DEFINE t == Validate(s, s.flash.page[s.pix], 0)
           f == [obj |-> s.flash.lu[s.pix].obj, hdr |-> s.pix, size |-> s.flash.page[s.pix].size,
                 cpix |-> s.pix, cspan |-> 0]
           u == [t EXCEPT !.fd[d] = f]
           r == OpenByPage(s, d, s.pix)
<1>1. r = IF Failed(s) THEN s ELSE IF Failed(t) THEN t ELSE u
  BY DEF OpenByPage
<1>2. Safe({}, W, t) /\ (Failed(t) \/ t = s)
  BY ValidateSafe
<1> HIDE DEF t
<1>3. ASSUME ~Failed(s)
      PROVE  Safe({d}, W, u) /\ Safe({}, W, u)
  <2>1. f.obj \in Objects /\ f.hdr \in Pages /\ {"obj", "hdr"} \subseteq DOMAIN f
    BY <1>3 DEF Entered, Ids
  <2> HIDE DEF f
  <2>2. Only({"fd"}, t, u) /\ u.fd = [t.fd EXCEPT ![d] = f]
    BY <1>2 DEF Safe, Only, Fields
  <2> HIDE DEF u
  <2>3. FdsSafe({d}, u) /\ FdsSafe({}, u)
    BY <1>2, <2>1, <2>2 DEF Safe, FdsSafe, OpenFd
  <2> QED BY <1>2, <2>2, <2>3, FdsOnlySafe
<1> HIDE DEF u
<1>4. Safe({}, W, r) /\ (Failed(r) \/ Safe({d}, W, r))
  BY <1>1, <1>2, <1>3
<1> QED BY <1>4

-----------------------------------------------------------------------------

LEMMA OpenedAs ==
  ASSUME NEW D, NEW W, NEW s, NEW d \in D, Safe(D, W, s)
  PROVE  s.fd[d].obj \in Objects /\ s.fd[d].hdr \in Pages /\ d \in Fds
BY DEF Safe, FdsSafe, OpenFd

LEMMA SetHeaderSizeSafe ==
  ASSUME NEW D, NEW W, NEW s, NEW d \in D, NEW size, Safe(D, W, s)
  PROVE  Safe(D, W, SetHeaderSize(s, d, size))
<1>1. s.fd[d].obj \in Objects /\ s.fd[d].hdr \in Pages
  BY OpenedAs
<1>2. "flags" \in DOMAIN s.flash.page[s.fd[d].hdr]
  BY <1>1 DEF Safe, FlashSafe, Whole, Formed
<1> QED BY <1>1, <1>2, UpdateIndexHdrSafe DEF SetHeaderSize

LEMMA AppendStoreSafe ==
  ASSUME NEW D, NEW s, NEW d \in D, NEW offset, NEW last, Safe(D, {"at"}, s)
  PROVE  Safe(D, {"at"}, AppendStore(s, d, offset, last))
<1> DEFINE o == s.fd[d].obj
           size == offset + s.at.written
           image == [s.work EXCEPT !.size = size]
           completed == Write(s, s.at.pix, image)
           stored == Write(s, s.at.pix, s.work)
           told == Event(stored, "upd", o, s.at.span, s.at.pix, 0)
           hdr == UpdateIndexHdr(s, d, o, s.fd[d].hdr, s.work, size)
           closing == Event(completed, "upd", o, 0, s.at.pix, size)
<1>1. AppendStore(s, d, offset, last) =
        IF Failed(s) THEN s
        ELSE IF s.at.span # 0 THEN SetHeaderSize(told, d, size)
        ELSE IF offset # 0 THEN hdr
        ELSE IF last THEN closing
        ELSE completed
  BY DEF AppendStore
<1>2. o \in Objects /\ s.at.pix \in Pages /\ Unmarked(s.work)
  BY OpenedAs DEF Safe, WorkSafe, Unmarked
<1>3. "delet" \notin image.flags
  BY <1>2 DEF Unmarked
<1> HIDE DEF image, o, size
<1>4. Safe(D, {"at"}, completed)
  BY <1>3, WriteSafe
<1>5. Safe(D, {"at"}, stored)
  BY <1>2, WriteSafe DEF Unmarked
<1>6. Safe(D, {"at"}, hdr)
  BY <1>2, UpdateIndexHdrSafe DEF Unmarked
<1> HIDE DEF completed, stored, hdr
<1>7. "upd" # "del"
  OBVIOUS
<1>8. Safe(D, {"at"}, closing) /\ Safe(D, {"at"}, told)
  BY <1>2, <1>4, <1>5, <1>7, EventSafe
<1> HIDE DEF closing, told
<1>9. Safe(D, {"at"}, SetHeaderSize(told, d, size))
  BY <1>8, SetHeaderSizeSafe
<1> QED BY <1>1, <1>4, <1>6, <1>8, <1>9

LEMMA AppendLoadSafe ==
  ASSUME NEW D, NEW s, NEW d \in D, NEW offset, NEW span, Safe(D, {"at"}, s)
  PROVE  Safe(D, {"at"}, AppendLoad(s, d, offset, span))
<1> DEFINE page == [Blank EXCEPT !.id = IndexId(s.fd[d].obj), !.span = span,
                                 !.flags = {"final", "index"}]
           isNew == s.at.written > 0 \/ span > IxSpan((s.fd[d].size - 1) \div PageSize)
           made == IndexMade(AllocateData(s, page, Blank.body, TRUE), page)
           loaded == LoadIndex(s, d, span)
           header == LoadHeader(s, s.at.pix)
<1>1. page.id \in Ids /\ Unmarked(page) /\ page.span = span
  BY OpenedAs DEF IndexId, Ids, Blank, Unmarked
<1>2. AppendLoad(s, d, offset, span) =
        IF Failed(s) THEN s
        ELSE IF span = 0 THEN header
        ELSE SetSize(MoveCursor(IF isNew THEN made ELSE loaded, d), d, offset + s.at.written)
  BY DEF AppendLoad
<1> HIDE DEF page, isNew
<1>3. ASSUME span # 0
      PROVE  Safe(D, {"at"}, made)
  <2> DEFINE t == AllocateData(s, page, Blank.body, TRUE)
             image == [page EXCEPT !.flags = @ \cup {"used"}]
             u == [t EXCEPT !.work = image, !.at.pix = t.pix, !.at.span = page.span]
  <2>1. Safe(D, {"at"}, t) /\ Got(t)
    BY <1>1, AllocateDataSafe
  <2>2. made = IF Failed(t) THEN t ELSE Event(u, "new", page.id.obj, span, t.pix, 0)
    BY <1>1 DEF IndexMade
  <2>3. Unmarked(image)
    BY <1>1 DEF Unmarked
  <2> HIDE DEF t, image
  <2>4. /\ Only({"work", "at"}, t, u) /\ u.work = image
        /\ u.at = [[t.at EXCEPT !.pix = t.pix] EXCEPT !.span = page.span]
    BY <2>1 DEF Safe, Only, Fields
  <2> HIDE DEF u
  <2>5. ~Failed(t) => Safe(D, {"at"}, u)
    <3>1. WorkSafe(u)
      BY <2>3, <2>4 DEF WorkSafe, Unmarked
    <3>2. {"pix", "span"} \subseteq DOMAIN u.at /\ u.at.pix = t.pix
      BY <2>1, <2>4 DEF Safe
    <3> QED BY <2>1, <2>4, <3>1, <3>2, WorkOnlySafe DEF Got
  <2>6. "new" # "del"
    OBVIOUS
  <2> HIDE DEF made
  <2> QED BY <1>3, <2>1, <2>2, <2>5, <2>6, EventSafe
<1>4. Safe(D, {"at"}, loaded)
  BY LoadIndexSafe
<1>5. Safe(D, {"at"}, header)
  BY LoadHeaderSafe DEF Safe
<1> HIDE DEF made, loaded, header
<1>6. span # 0 => Safe(D, {"at"}, MoveCursor(IF isNew THEN made ELSE loaded, d))
  BY <1>3, <1>4, FdFieldsSafe
<1> QED BY <1>2, <1>5, <1>6, FdFieldsSafe

LEMMA PlaceSafe ==
  ASSUME NEW D, NEW W, NEW s, NEW d \in D, NEW span, NEW from, NEW bytes, Safe(D, W, s)
  PROVE  Safe(D, W, Place(s, d, span, from, bytes))
<1> DEFINE header == [Blank EXCEPT !.id = DataId(s.fd[d].obj), !.span = span, !.flags = {"final"}]
           p == Named(s, span)
           new == AllocateData(s, header, bytes, TRUE)
           failed == Fail(s, "bad reference")
           image == [Blank EXCEPT !.body = bytes]
           written == Write(s, p, image)
           old == [written EXCEPT !.pix = p]
<1>1. Place(s, d, span, from, bytes) =
        IF Failed(s) THEN s
        ELSE IF from % PageSize = 0 THEN OrBreak(new)
        ELSE IF p = Free THEN failed
        ELSE old
  BY Zenon DEF Place
<1>2. header.id \in Ids /\ Unmarked(header)
  BY OpenedAs DEF DataId, Ids, Blank, Unmarked
<1>3. "delet" \notin image.flags
  BY DEF Blank
<1> HIDE DEF header, p, image
<1>4. Safe(D, W, new)
  BY <1>2, AllocateDataSafe
<1> HIDE DEF new
<1>5. Safe(D, W, OrBreak(new))
  BY <1>4, ResultSafe
<1>6. Safe(D, W, failed)
  <2>1. \A e : Safe(D, W, Fail(s, e))
    BY CountedSafe
  <2> QED BY <2>1, Zenon
<1>7. Safe(D, W, old)
  <2>1. Safe(D, W, written)
    BY <1>3, WriteSafe
  <2> HIDE DEF written
  <2>2. Only(Results, written, old)
    BY <2>1 DEF Safe, Only, Fields, Results
  <2> QED BY <2>1, <2>2, ResultsSafe
<1> HIDE DEF failed, old
<1> QED BY <1>1, <1>5, <1>6, <1>7

LEMMA AppendSpanSafe ==
  ASSUME NEW D, NEW s, NEW d \in D, NEW offset, NEW end, NEW v, NEW span, Safe(D, {"at"}, s)
  PROVE  Safe(D, {"at"}, AppendSpan(s, d, offset, end, v, span))
<1> DEFINE stored == IF s.at.written = 0 THEN s
                     ELSE SetSize(AppendStore(s, d, offset, FALSE), d, offset + s.at.written)
           loaded == AppendLoad(stored, d, offset, IxSpan(span))
           indexed == IF s.at.span = IxSpan(span) THEN s ELSE loaded
           from == Most(offset, span * PageSize)
           to == Least(end, (span + 1) * PageSize)
           placed == Place(indexed, d, span, from, Bytes(span, from, to, v))
           named == NamePlaced(placed, span, to - from)
<1>1. AppendSpan(s, d, offset, end, v, span) = IF Broken(s) THEN s ELSE named
  BY DEF AppendSpan
<1>2. Safe(D, {"at"}, stored)
  <2>1. Safe(D, {"at"}, AppendStore(s, d, offset, FALSE))
    BY AppendStoreSafe
  <2> QED BY <2>1, FdFieldsSafe
<1> HIDE DEF stored
<1>3. Safe(D, {"at"}, loaded)
  BY <1>2, AppendLoadSafe
<1> HIDE DEF loaded
<1>4. Safe(D, {"at"}, indexed)
  BY <1>3
<1> HIDE DEF indexed, from, to
<1>5. Safe(D, {"at"}, placed)
  BY <1>4, PlaceSafe
<1> HIDE DEF placed
<1>6. Safe(D, {"at"}, named)
  <2>1. Safe(D, {"at"}, NameNew(placed, span))
    BY <1>5, NameSafe DEF NameNew
  <2> QED BY <1>5, <2>1, ResultSafe DEF NamePlaced
<1> HIDE DEF named
<1> QED BY <1>1, <1>6

AppendLoop == INSTANCE LoopInduction WITH
    Step <- LAMBDA c, t, i : IF Failed(t) THEN t
                             ELSE AppendSpan(t, c.fd, c.offset, c.end, c.v, Span(c.offset, i)),
    Inv <- LAMBDA c, i, t : Ready(c.fds, t)

LEMMA AppendBytesSafe ==
  ASSUME NEW D, NEW W, NEW s, NEW d \in D, NEW offset, NEW len, NEW v, Safe(D, W, s)
  PROVE  Safe(D, {}, AppendBytes(s, d, offset, len, v))
<1> DEFINE end == offset + len
           c == [fd |-> d, offset |-> offset, end |-> end, v |-> v, fds |-> D]
           fresh == [s EXCEPT !.at = Nowhere]
           checked == GcCheck(fresh, len + PageSize)
           start == AppendStart(checked, d)
           spans == Spans(offset, end)
           n == IF spans \in Nat THEN spans ELSE 0
           loop == AppendLoop!After(c, start, n)
           all == Each(start, spans,
                       LAMBDA t, i : AppendSpan(t, d, offset, end, v, Span(offset, i)))
           ended == AppendEnd(all, d, offset)
<1>1. AppendBytes(s, d, offset, len, v) = IF len = 0 \/ Failed(s) THEN s ELSE ended
  BY DEF AppendBytes
<1>2. loop = all
  <2> HIDE DEF start, spans, end
  <2> QED BY DEF Each, AppendLoop!After
<1>3. Ready(D, start)
  <2>1. Only(Results \cup {"at"}, s, fresh) /\ {"pix", "span"} \subseteq DOMAIN fresh.at
    BY DEF Safe, Only, Fields, Results, Nowhere
  <2> HIDE DEF fresh
  <2>2. Safe(D, {}, fresh)
    BY <2>1, AtSafe
  <2>3. Safe(D, {}, checked)
    BY <2>2, GcCheckSafe
  <2> HIDE DEF checked
  <2> QED BY <2>3, StartSafe
<1> HIDE DEF start, spans
<1>4. Ready(D, loop)
  <2>1. c.fd = d /\ c.offset = offset /\ c.end = end /\ c.v = v /\ c.fds = D
    OBVIOUS
  <2> HIDE DEF c, end
  <2>2. ASSUME NEW t, NEW i, Ready(D, t)
        PROVE  Ready(D, IF Failed(t) THEN t
                        ELSE AppendSpan(t, d, offset, end, v, Span(offset, i)))
    BY <2>2, AppendSpanSafe, ReadySafe DEF Ready
  <2>3. n \in Nat
    OBVIOUS
  <2> HIDE DEF n
  <2> QED BY <1>3, <2>1, <2>2, <2>3, AppendLoop!Kept
<1> HIDE DEF loop, all
<1>5. Safe(D, {}, ended)
  <2> DEFINE set == SetSize(MoveCursor(all, d), d, offset + all.at.written)
             stored == AppendStore(set, d, offset, TRUE)
  <2>1. ended = IF Failed(all) THEN all ELSE Finish(stored)
    BY DEF AppendEnd
  <2>2. ~Failed(all) => Safe(D, {"at"}, set)
    <3>1. ~Failed(all) => Safe(D, {"at"}, MoveCursor(all, d))
      BY <1>2, <1>4, FdFieldsSafe DEF Ready
    <3> QED BY <3>1, FdFieldsSafe
  <2> HIDE DEF set
  <2>3. ~Failed(all) => Safe(D, {"at"}, stored)
    BY <2>2, AppendStoreSafe
  <2> HIDE DEF stored, ended
  <2>4. ~Failed(all) => Ready(D, Finish(stored))
    BY <2>3, ResultSafe, ReadySafe
  <2> QED BY <1>2, <1>4, <2>1, <2>4 DEF Ready
<1> HIDE DEF ended
<1>6. Safe(D, {}, s)
  BY LessSafe
<1> QED BY <1>1, <1>5, <1>6

LEMMA PartPageSafe ==
  ASSUME NEW D, NEW W, NEW s, NEW bytes, NEW old, Safe(D, W, s)
  PROVE  Safe(D, W, PartPage(s, bytes, old))
<1> DEFINE rest == [i \in 1 .. Cells |-> IF i <= PageSize /\ bytes[i] = Free
                                          THEN s.flash.page[old].body[i] ELSE Free]
           first == [Blank EXCEPT !.body = rest]
           second == [Blank EXCEPT !.body = bytes]
           copied == Write(s, s.pix, first)
           made == Write(copied, s.pix, second)
           done == Flag(made, s.pix, {"final", "used"})
           t == [done EXCEPT !.at.data = s.pix]
<1>1. PartPage(s, bytes, old) = IF Failed(s) THEN s ELSE t
  BY DEF PartPage
<1>2. first.flags = {} /\ second.flags = {}
  BY DEF Blank
<1> HIDE DEF first, second
<1>3. Safe(D, W, copied)
  BY <1>2, WriteSafe
<1> HIDE DEF copied
<1>4. Safe(D, W, made)
  BY <1>2, <1>3, WriteSafe
<1> HIDE DEF made
<1>5. Safe(D, W, done)
  BY <1>4, FlagSafe
<1> HIDE DEF done
<1>6. Only(Results \cup {"at"}, done, t) /\ t.at = [done.at EXCEPT !.data = s.pix]
  BY <1>5 DEF Safe, Only, Fields, Results
<1> HIDE DEF t
<1>7. /\ {"pix", "span"} \subseteq DOMAIN t.at /\ t.at.pix = done.at.pix
      /\ "at" \in W => done.at.pix \in Pages
  BY <1>5, <1>6 DEF Safe
<1> QED BY <1>1, <1>5, <1>6, <1>7, AtSafe

LEMMA ReplaceSafe ==
  ASSUME NEW D, NEW W, NEW s, NEW span, NEW old, NEW n, Safe(D, W, s)
  PROVE  Safe(D, W, Replace(s, span, old, n))
<1> DEFINE failed == Fail(s, "no such page")
           deleted == DeletePage(s, old)
           named == Name(deleted, span, s.at.data)
           wrote == Wrote(named, n)
<1>1. Replace(s, span, old, n) =
        IF Failed(s) THEN s ELSE IF old = Free THEN failed ELSE wrote
  BY Zenon DEF Replace
<1>2. Safe(D, W, failed)
  <2>1. \A e : Safe(D, W, Fail(s, e))
    BY CountedSafe
  <2> QED BY <2>1, Zenon
<1>3. Safe(D, W, deleted)
  BY DeletePageSafe
<1> HIDE DEF deleted
<1>4. Safe(D, W, named)
  BY <1>3, NameSafe
<1> HIDE DEF named
<1>5. Safe(D, W, wrote)
  BY <1>4, ResultSafe
<1> HIDE DEF failed, wrote
<1> QED BY <1>1, <1>2, <1>5

LEMMA RenewSafe ==
  ASSUME NEW D, NEW W, NEW s, NEW d \in D, NEW span, NEW bytes, NEW n, Safe(D, W, s)
  PROVE  Safe(D, W, Renew(s, d, span, bytes, n))
<1> DEFINE header == [Blank EXCEPT !.id = DataId(s.fd[d].obj), !.span = span]
           old == Named(s, span)
           whole == AllocateData(s, header, bytes, TRUE)
           part == AllocateData(s, header, Blank.body, FALSE)
           failed == Fail(s, "bad reference")
           wholly == OrBreak(Replace(WholePage(whole), span, old, n))
           partly == OrBreak(Replace(PartPage(part, bytes, old), span, old, n))
<1>1. Renew(s, d, span, bytes, n) =
        IF Failed(s) THEN s
        ELSE IF n = PageSize THEN wholly
        ELSE IF old = Free THEN failed
        ELSE partly
  BY Zenon DEF Renew
<1>2. header.id \in Ids /\ Unmarked(header)
  BY OpenedAs DEF DataId, Ids, Blank, Unmarked
<1> HIDE DEF header, old
<1>3. Safe(D, W, whole) /\ Safe(D, W, part)
  BY <1>2, AllocateDataSafe
<1> HIDE DEF whole, part
<1>4. Safe(D, W, wholly)
  BY <1>3, ResultSafe, ReplaceSafe
<1>5. Safe(D, W, partly)
  BY <1>3, PartPageSafe, ReplaceSafe, ResultSafe
<1>6. Safe(D, W, failed)
  <2>1. \A e : Safe(D, W, Fail(s, e))
    BY CountedSafe
  <2> QED BY <2>1, Zenon
<1> HIDE DEF wholly, partly, failed
<1> QED BY <1>1, <1>4, <1>5, <1>6

LEMMA ModifySpanSafe ==
  ASSUME NEW D, NEW s, NEW d \in D, NEW offset, NEW end, NEW v, NEW span, Safe(D, {"at"}, s)
  PROVE  Safe(D, {"at"}, ModifySpan(s, d, offset, end, v, span))
<1> DEFINE stored == IF s.at.written = 0 THEN s
                     ELSE StoreIndex(s, d, s.fd[d].obj, s.at.span, s.at.pix)
           loaded == IF IxSpan(span) = 0 THEN LoadHeader(stored, s.at.pix)
                     ELSE LoadIndex(stored, d, IxSpan(span))
           moved == MoveCursor(loaded, d)
           indexed == IF s.at.span = IxSpan(span) THEN s ELSE moved
           from == Most(offset, span * PageSize)
           to == Least(end, (span + 1) * PageSize)
           renewed == Renew(indexed, d, span, Bytes(span, from, to, v), to - from)
<1>1. ModifySpan(s, d, offset, end, v, span) = IF Broken(s) THEN s ELSE renewed
  BY DEF ModifySpan
<1>2. Safe(D, {"at"}, stored)
  BY OpenedAs, StoreIndexSafe
<1> HIDE DEF stored
<1>3. Safe(D, {"at"}, loaded)
  <2>1. s.at.pix \in Pages
    BY DEF Safe
  <2> QED BY <1>2, <2>1, LoadHeaderSafe, LoadIndexSafe
<1> HIDE DEF loaded
<1>4. Safe(D, {"at"}, moved)
  BY <1>3, FdFieldsSafe
<1> HIDE DEF moved
<1>5. Safe(D, {"at"}, indexed)
  BY <1>4
<1> HIDE DEF indexed, from, to
<1>6. Safe(D, {"at"}, renewed)
  BY <1>5, RenewSafe
<1> HIDE DEF renewed
<1> QED BY <1>1, <1>6

ModifyLoop == INSTANCE LoopInduction WITH
    Step <- LAMBDA c, t, i : IF Failed(t) THEN t
                             ELSE ModifySpan(t, c.fd, c.offset, c.end, c.v, Span(c.offset, i)),
    Inv <- LAMBDA c, i, t : Ready(c.fds, t)

LEMMA ModifyBytesSafe ==
  ASSUME NEW D, NEW s, NEW d \in D, NEW offset, NEW len, NEW v, Safe(D, {}, s)
  PROVE  Safe(D, {}, ModifyBytes(s, d, offset, len, v))
<1> DEFINE end == offset + len
           c == [fd |-> d, offset |-> offset, end |-> end, v |-> v, fds |-> D]
           checked == GcCheck(s, len + PageSize)
           start == ModifyStart(checked, d)
           spans == Spans(offset, end)
           n == IF spans \in Nat THEN spans ELSE 0
           loop == ModifyLoop!After(c, start, n)
           all == Each(start, spans,
                       LAMBDA t, i : ModifySpan(t, d, offset, end, v, Span(offset, i)))
           ended == ModifyEnd(all, d)
<1>1. ModifyBytes(s, d, offset, len, v) = IF len = 0 \/ Failed(s) THEN s ELSE ended
  BY DEF ModifyBytes
<1>2. loop = all
  <2> HIDE DEF start, spans, end
  <2> QED BY DEF Each, ModifyLoop!After
<1>3. Ready(D, start)
  <2>1. Safe(D, {}, checked)
    BY GcCheckSafe
  <2> HIDE DEF checked
  <2> QED BY <2>1, StartSafe
<1> HIDE DEF start, spans
<1>4. Ready(D, loop)
  <2>1. c.fd = d /\ c.offset = offset /\ c.end = end /\ c.v = v /\ c.fds = D
    OBVIOUS
  <2> HIDE DEF c, end
  <2>2. ASSUME NEW t, NEW i, Ready(D, t)
        PROVE  Ready(D, IF Failed(t) THEN t
                        ELSE ModifySpan(t, d, offset, end, v, Span(offset, i)))
    BY <2>2, ModifySpanSafe, ReadySafe DEF Ready
  <2>3. n \in Nat
    OBVIOUS
  <2> HIDE DEF n
  <2> QED BY <1>3, <2>1, <2>2, <2>3, ModifyLoop!Kept
<1> HIDE DEF loop, all
<1>5. Safe(D, {}, ended)
  <2> DEFINE moved == MoveCursor(all, d)
             stored == StoreIndex(moved, d, all.fd[d].obj, all.at.span, all.at.pix)
             set == CursorSet(stored, d)
  <2>1. ended = IF Failed(all) THEN all ELSE set
    BY DEF ModifyEnd
  <2>2. ~Failed(all) => Safe(D, {"at"}, moved) /\ all.fd[d].obj \in Objects
    BY <1>2, <1>4, FdFieldsSafe, OpenedAs DEF Ready
  <2> HIDE DEF moved
  <2>3. ~Failed(all) => Safe(D, {"at"}, stored)
    BY <2>2, StoreIndexSafe
  <2> HIDE DEF stored
  <2>4. ~Failed(all) => Ready(D, set)
    BY <2>3, FdFieldsSafe, ReadySafe
  <2> HIDE DEF set, ended
  <2> QED BY <1>2, <1>4, <2>1, <2>4 DEF Ready
<1> HIDE DEF ended
<1> QED BY <1>1, <1>5

LEMMA HydroWriteSafe ==
  ASSUME NEW D, NEW s, NEW d \in D, NEW offset, NEW len, NEW v, Safe(D, {}, s)
  PROVE  Safe(D, {}, HydroWrite(s, d, offset, len, v))
<1> DEFINE size == s.fd[d].size
           inside == IF size # Free /\ offset < size THEN Least(size - offset, len) ELSE 0
           modified == ModifyBytes(s, d, offset, inside, v)
<1>1. HydroWrite(s, d, offset, len, v) = AppendBytes(modified, d, offset + inside, len - inside, v)
  BY DEF HydroWrite
<1> HIDE DEF inside
<1>2. Safe(D, {}, modified)
  BY ModifyBytesSafe
<1> HIDE DEF modified
<1> QED BY <1>1, <1>2, AppendBytesSafe

-----------------------------------------------------------------------------

LEMMA FieldsKept ==
  ASSUME NEW D, NEW W, NEW s, Safe(D, W, s)
  PROVE  /\ \A d : MoveCursor(s, d).at = s.at /\ MoveCursor(s, d).res = s.res
         /\ \A d, size : SetSize(s, d, size).at = s.at /\ SetSize(s, d, size).res = s.res
         /\ \A span, pix : Name(s, span, pix).at = s.at /\ Name(s, span, pix).res = s.res
BY DEF Safe, Fields, MoveCursor, SetSize, Name

(* The index page at hand goes before another is loaded, never the header. *)
LEMMA DropIndexSafe ==
  ASSUME NEW D, NEW s, NEW d \in D, NEW full, NEW size, Safe(D, {"at"}, s),
         s.at.span = None \/ s.at.span # 0
  PROVE  Safe(D, {"at"}, DropIndex(s, d, full, size))
<1> DEFINE deleted == DeletePage(s, s.at.pix)
           dropped == Event(deleted, "del", s.fd[d].obj, s.at.span, s.at.pix, 0)
           resized == SetHeaderSize(dropped, d, size)
<1>1. DropIndex(s, d, full, size) =
        IF s.at.span = None THEN s ELSE IF full THEN dropped ELSE resized
  BY DEF DropIndex
<1>2. Safe(D, {"at"}, deleted)
  BY DeletePageSafe
<1> HIDE DEF deleted
<1>3. s.at.span # 0 => Safe(D, {"at"}, dropped)
  BY <1>2, EventSafe
<1> HIDE DEF dropped
<1>4. s.at.span # 0 => Safe(D, {"at"}, resized)
  BY <1>3, SetHeaderSizeSafe
<1> HIDE DEF resized
<1> QED BY <1>1, <1>3, <1>4

LEMMA LoadAnyIndexSafe ==
  ASSUME NEW D, NEW W, NEW s, NEW d \in D, NEW span, Safe(D, W, s)
  PROVE  /\ Safe(D, W, LoadAnyIndex(s, d, span))
         /\ LET t == LoadAnyIndex(s, d, span) IN Failed(t) \/ t.at.span = span
<1>1. ASSUME NEW t, NEW pix, NEW x, Safe(D, W, t)
      PROVE  Failed(Loaded(t, pix, x)) \/ Loaded(t, pix, x).at.span = x
  <2> DEFINE u == [t EXCEPT !.work = t.flash.page[pix], !.at.pix = pix, !.at.span = x]
  <2>1. u.at = [[t.at EXCEPT !.pix = pix] EXCEPT !.span = x]
    BY <1>1 DEF Safe, Fields
  <2>2. Loaded(t, pix, x) = IF Failed(t) THEN t ELSE u
    BY DEF Loaded
  <2> HIDE DEF u
  <2>3. u.at.span = x
    BY <1>1, <2>1 DEF Safe
  <2> QED BY <2>2, <2>3
<1>2. CASE Failed(s)
  BY <1>2 DEF LoadAnyIndex
<1>3. CASE ~Failed(s) /\ span = 0
  <2>1. LoadAnyIndex(s, d, span) = LoadHeader(s, s.fd[d].hdr)
    BY <1>3 DEF LoadAnyIndex
  <2>2. Safe(D, W, LoadHeader(s, s.fd[d].hdr))
    BY LoadHeaderSafe, OpenedAs
  <2> DEFINE t == Validate(s, s.flash.page[s.fd[d].hdr], 0)
  <2>3. LoadHeader(s, s.fd[d].hdr) = Loaded(t, s.fd[d].hdr, 0) /\ Safe(D, W, t)
    BY <1>3, ValidateSafe DEF LoadHeader
  <2> HIDE DEF t
  <2> QED BY <1>1, <1>3, <2>1, <2>2, <2>3
<1>4. CASE ~Failed(s) /\ span # 0
  <2> DEFINE found == FindIndex(s, s.fd[d].obj, span)
             t == Validate(found, found.flash.page[found.pix], span)
             r == LoadFound(found, span)
  <2>1. LoadAnyIndex(s, d, span) = r
    BY <1>4 DEF LoadAnyIndex
  <2>2. r = IF Failed(found) THEN found ELSE Loaded(t, found.pix, span)
    BY DEF LoadFound
  <2>3. Safe(D, W, found) /\ Got(found)
    BY FindSafe DEF FindIndex, Got
  <2> HIDE DEF found, r
  <2>4. /\ Safe(D, W, t)
        /\ Failed(t) \/ (t = found /\ "delet" \notin t.flash.page[found.pix].flags)
    <3>1. /\ Safe(D, W, t)
          /\ Failed(t) \/ (t = found /\ "delet" \notin found.flash.page[found.pix].flags)
      BY <2>3, ValidateSafe
    <3> HIDE DEF t
    <3> QED BY <3>1
  <2> HIDE DEF t
  <2>5. ~Failed(found) => Safe(D, W, Loaded(t, found.pix, span))
    BY <2>3, <2>4, LoadedSafe DEF Got
  <2>6. Failed(Loaded(t, found.pix, span)) \/ Loaded(t, found.pix, span).at.span = span
    BY <1>1, <2>4
  <2> QED BY <2>1, <2>2, <2>3, <2>5, <2>6
<1> QED BY <1>2, <1>3, <1>4

LEMMA ShortenSafe ==
  ASSUME NEW D, NEW W, NEW s, Safe(D, W, s)
  PROVE  \A d, span : LET t == Shorten(s, d, span) IN
             Safe(D, W, t) /\ t.at = s.at /\ t.res = s.res
<1> TAKE d, span
<1> DEFINE p == Named(s, span)
           unnamed == Name(s, span, Free)
           deleted == DeletePage(unnamed, p)
           gone == IF p = Free THEN unnamed ELSE deleted
           set == SetSize(gone, d, span * PageSize)
<1>1. Shorten(s, d, span) = IF Failed(s) THEN s ELSE set
  BY DEF Shorten
<1>2. Safe(D, W, unnamed) /\ unnamed.at = s.at /\ unnamed.res = s.res
  BY NameSafe, FieldsKept
<1> HIDE DEF unnamed, p
<1>3. Safe(D, W, deleted) /\ deleted.at = s.at /\ deleted.res = s.res
  BY <1>2, DeletePageSafe
<1> HIDE DEF deleted
<1>4. Safe(D, W, gone) /\ gone.at = s.at /\ gone.res = s.res
  BY <1>2, <1>3
<1> HIDE DEF gone
<1>5. Safe(D, W, set) /\ set.at = s.at /\ set.res = s.res
  <2>1. Safe(D, W, set)
    BY <1>4, FdFieldsSafe
  <2>2. set.at = gone.at /\ set.res = gone.res
    BY <1>4, FieldsKept
  <2> QED BY <1>4, <2>1, <2>2
<1> HIDE DEF set
<1> QED BY <1>1, <1>5

LEMMA TruncateSpanSafe ==
  ASSUME NEW D, NEW s, NEW d \in D, NEW full, NEW span, Safe(D, {"at"}, s),
         s.at.span = None \/ s.at.span # 0 \/ IxSpan(span) = 0
  PROVE  /\ Safe(D, {"at"}, TruncateSpan(s, d, full, span))
         /\ LET t == TruncateSpan(s, d, full, span) IN Failed(t) \/ t.at.span = IxSpan(span)
<1> DEFINE dropped == DropIndex(s, d, full, (span + 1) * PageSize)
           loaded == LoadAnyIndex(dropped, d, IxSpan(span))
           moved == MoveCursor(loaded, d)
           indexed == IF s.at.span = IxSpan(span) THEN s ELSE moved
           r == Shorten(indexed, d, span)
<1>1. TruncateSpan(s, d, full, span) = r
  BY DEF TruncateSpan
<1>2. s.at.span # IxSpan(span) => Safe(D, {"at"}, dropped)
  BY DropIndexSafe
<1> HIDE DEF dropped
<1>3. s.at.span # IxSpan(span) =>
        Safe(D, {"at"}, loaded) /\ (Failed(loaded) \/ loaded.at.span = IxSpan(span))
  BY <1>2, LoadAnyIndexSafe
<1> HIDE DEF loaded
<1>4. s.at.span # IxSpan(span) =>
        Safe(D, {"at"}, moved) /\ (Failed(moved) \/ moved.at.span = IxSpan(span))
  BY <1>3, FdFieldsSafe, FieldsKept DEF Failed
<1> HIDE DEF moved
<1>5. Safe(D, {"at"}, indexed) /\ (Failed(indexed) \/ indexed.at.span = IxSpan(span))
  BY <1>4
<1> HIDE DEF indexed
<1>6. Safe(D, {"at"}, r) /\ (Failed(r) \/ r.at.span = IxSpan(span))
  <2>1. Safe(D, {"at"}, r) /\ r.at = indexed.at /\ r.res = indexed.res
    BY <1>5, ShortenSafe
  <2> HIDE DEF r
  <2> QED BY <1>5, <2>1 DEF Failed
<1> QED BY <1>1, <1>6

(* An index page whose successor names what the header names is the        *)
(* header's: going down, the header is never left for another page.        *)
LEMMA IxSpanDown ==
  ASSUME NEW span \in Nat, IxSpan(span + 1) = 0
  PROVE  IxSpan(span) = 0
<1>1. /\ HdrLen \in Nat \ {0} /\ IxLen \in Nat \ {0}
      /\ span + 1 \in Nat
  BY GeometryAssumption, IndexAssumption
<1>2. ASSUME ~(span + 1 < HdrLen)
      PROVE  FALSE
  <2> DEFINE k == span + 1 - HdrLen
  <2>1. k \in Nat
    BY <1>1, <1>2
  <2>2. IxSpan(span + 1) = 1 + k \div IxLen
    BY <1>1, <1>2 DEF IxSpan
  <2> HIDE DEF k
  <2>3. k \div IxLen >= 0
    BY <1>1, <2>1
  <2>4. k \div IxLen \in Int
    BY <1>1, <2>1
  <2> QED BY <2>2, <2>3, <2>4
<1> QED BY <1>1, <1>2 DEF IxSpan

(* Where the loop over the data pages of a file is after round i.          *)
Down(D, spans, i, s) ==
    /\ Safe(D, {}, s)
    /\ \/ Failed(s)
       \/ Safe(D, {"at"}, s) /\ s.at.span = IF i = 0 THEN None ELSE IxSpan(spans - i)

TruncateLoop == INSTANCE LoopInduction WITH
    Step <- LAMBDA c, t, i : IF Failed(t) THEN t
                             ELSE TruncateSpan(t, c.fd, c.full, c.spans - i),
    Inv <- LAMBDA c, i, t : Down(c.fds, c.spans, i, t)

LEMMA TruncateStartSafe ==
  ASSUME NEW D, NEW s, NEW d \in D, NEW full, NEW spans, Safe(D, {}, s)
  PROVE  Down(D, spans, 0, TruncateStart(s, d, full))
<1> DEFINE t == [s EXCEPT !.at = [Nowhere EXCEPT !.pix = s.fd[d].hdr]]
           flags == {"used", "index", "final", "ixdele"}
           u == Flag(t, t.at.pix, flags)
           r == TruncateStart(s, d, full)
<1>1. r = IF Failed(s) THEN s ELSE IF full THEN u ELSE t
  BY DEF TruncateStart
<1>2. Only(Results \cup {"at"}, s, t) /\ t.at = [Nowhere EXCEPT !.pix = s.fd[d].hdr]
  BY DEF Safe, Only, Fields, Results
<1>3. {"pix", "span"} \subseteq DOMAIN t.at /\ t.at.pix = s.fd[d].hdr /\ t.at.span = None
  BY <1>2 DEF Nowhere
<1>4. "delet" \notin flags
  OBVIOUS
<1> HIDE DEF t, flags
<1>5. Safe(D, {"at"}, t)
  BY <1>2, <1>3, OpenedAs, AtSafe
<1>6. Safe(D, {"at"}, u) /\ u.at = t.at
  <2>1. Safe(D, {"at"}, u)
    BY <1>4, <1>5, FlagSafe
  <2>2. Only({"flash", "log"}, t, u)
    BY <1>5, WriteOnly
  <2> HIDE DEF u
  <2> QED BY <1>5, <2>1, <2>2 DEF Only, Safe, Fields
<1> HIDE DEF u
<1>7. Safe(D, {}, t) /\ Safe(D, {}, u)
  BY <1>5, <1>6, LessSafe
<1> HIDE DEF r
<1>8. Down(D, spans, 0, r)
  BY <1>1, <1>3, <1>5, <1>6, <1>7 DEF Down
<1> QED BY <1>8 DEF r

LEMMA TruncateSafe ==
  ASSUME NEW D, NEW s, NEW d \in D, NEW full, Safe(D, {}, s)
  PROVE  Safe({}, {}, Truncate(s, d, full))
<1> DEFINE size == s.fd[d].size
           o == s.fd[d].obj
           spans == IF size \in {0, Free} THEN 0 ELSE Spans(0, size)
           c == [fd |-> d, full |-> full, spans |-> spans, fds |-> D]
           checked == IF full THEN s ELSE GcCheck(s, 2 * PageSize)
           start == TruncateStart(checked, d, full)
           n == IF spans \in Nat THEN spans ELSE 0
           loop == TruncateLoop!After(c, start, n)
           all == Each(start, spans, LAMBDA t, i : TruncateSpan(t, d, full, spans - i))
           ended == TruncateEnd(all, d, full, o)
<1>1. Truncate(s, d, full) = IF Failed(s) \/ (size \in {0, Free} /\ ~full) THEN s ELSE ended
  BY DEF Truncate
<1>2. loop = all
  <2> HIDE DEF start, spans
  <2> QED BY DEF Each, TruncateLoop!After
<1>3. o \in Objects
  BY OpenedAs
<1> HIDE DEF size, o
<1>4. Down(D, spans, 0, start)
  <2>1. Safe(D, {}, checked)
    BY GcCheckSafe
  <2> HIDE DEF checked, spans
  <2> QED BY <2>1, TruncateStartSafe
<1> HIDE DEF start
<1>5. Down(D, spans, n, loop)
  <2>1. c.fd = d /\ c.full = full /\ c.spans = spans /\ c.fds = D
    OBVIOUS
  <2>2. n \in Nat /\ (n = 0 \/ n = spans)
    OBVIOUS
  <2> HIDE DEF c, spans, n
  <2>3. ASSUME NEW t, NEW i \in 1 .. n, Down(D, spans, i - 1, t)
        PROVE  Down(D, spans, i, IF Failed(t) THEN t ELSE TruncateSpan(t, d, full, spans - i))
    <3> DEFINE u == TruncateSpan(t, d, full, spans - i)
    <3>1. CASE Failed(t)
      BY <2>3, <3>1 DEF Down
    <3>2. CASE ~Failed(t)
      <4>1. Safe(D, {"at"}, t)
        BY <2>3, <3>2 DEF Down
      <4>2. t.at.span = None \/ t.at.span # 0 \/ IxSpan(spans - i) = 0
        <5>1. CASE i = 1
          BY <2>3, <3>2, <5>1 DEF Down
        <5>2. CASE i # 1
          <6>1. spans - i \in Nat /\ (spans - i) + 1 = spans - (i - 1)
            BY <2>2
          <6>2. t.at.span = IxSpan((spans - i) + 1)
            BY <2>3, <3>2, <5>2, <6>1 DEF Down
          <6> QED BY <6>1, <6>2, IxSpanDown
        <5> QED BY <5>1, <5>2
      <4>3. Safe(D, {"at"}, u) /\ (Failed(u) \/ u.at.span = IxSpan(spans - i))
        BY <4>1, <4>2, TruncateSpanSafe
      <4> HIDE DEF u
      <4>4. Safe(D, {}, u)
        BY <4>3, LessSafe
      <4>5. Down(D, spans, i, u)
        BY <4>3, <4>4 DEF Down
      <4> QED BY <3>2, <4>5 DEF u
    <3> QED BY <3>1, <3>2
  <2> QED BY <1>4, <2>1, <2>2, <2>3, TruncateLoop!Kept
<1> HIDE DEF loop, all, spans, n
<1>6. Safe({}, {}, ended)
  <2> DEFINE deleted == DeletePage(all, all.at.pix)
             gone == Event(deleted, "del", o, 0, all.at.pix, 0)
             image == [all.work EXCEPT !.body = Blank.body]
             emptied == UpdateIndexHdr(all, d, o, all.at.pix, image, Free)
             set == SetSize(emptied, d, 0)
  <2>1. ended = IF Failed(all) THEN all ELSE IF full THEN gone ELSE set
    BY DEF TruncateEnd
  <2>2. Safe(D, {}, all) /\ (Failed(all) \/ Safe(D, {"at"}, all))
    BY <1>2, <1>5 DEF Down
  <2>3. ~Failed(all) => Safe({}, {}, gone)
    <3>1. ~Failed(all) => Safe(D, {"at"}, deleted) /\ all.at.pix \in Pages
      <4>1. Safe(D, {"at"}, all) => all.at.pix \in Pages
        BY DEF Safe
      <4> QED BY <2>2, <4>1, DeletePageSafe
    <3> HIDE DEF deleted
    <3>2. ~Failed(all) => Safe({}, {"at"}, gone)
      BY <3>1, EventCloses
    <3> HIDE DEF gone
    <3> QED BY <3>2, LessSafe
  <2>4. Safe({}, {}, set)
    <3>1. "flags" \in DOMAIN image
      BY <2>2 DEF Safe, WorkSafe
    <3> HIDE DEF image
    <3>2. Safe(D, {}, emptied)
      BY <1>3, <2>2, <3>1, UpdateIndexHdrSafe
    <3> HIDE DEF emptied
    <3>3. Safe(D, {}, set)
      BY <3>2, FdFieldsSafe
    <3> HIDE DEF set
    <3> QED BY <3>3, LessSafe
  <2>5. Safe({}, {}, all)
    BY <2>2, LessSafe
  <2> HIDE DEF gone, set, ended
  <2> QED BY <2>1, <2>3, <2>4, <2>5
<1> HIDE DEF ended
<1>7. Safe({}, {}, s)
  BY LessSafe
<1> QED BY <1>1, <1>6, <1>7

ReadLoop == INSTANCE LoopInduction WITH
    Step <- LAMBDA c, t, i : IF Failed(t) THEN t ELSE ReadSpan(t, c.fd, c.first + i - 1, c.size),
    Inv <- LAMBDA c, i, t : Safe(c.fds, {}, t)

LEMMA ReadPageSafe ==
  ASSUME NEW D, NEW W, NEW s, NEW span, NEW size, Safe(D, W, s)
  PROVE  Safe(D, W, ReadPage(s, span, size))
<1> DEFINE p == Named(s, span)
           part == SubSeq(s.flash.page[p].body, 1, Least(PageSize, size - span * PageSize))
           t == [s EXCEPT !.out = @ \o part]
           bad == Fail(s, "bad reference")
<1>1. ReadPage(s, span, size) = IF Failed(s) THEN s ELSE IF p = Free THEN bad ELSE t
  BY Zenon DEF ReadPage
<1>2. Safe(D, W, bad)
  <2>1. \A e : Safe(D, W, Fail(s, e))
    BY CountedSafe
  <2> QED BY <2>1, Zenon
<1> HIDE DEF bad, part
<1>3. Only(Results, s, t)
  BY DEF Safe, Only, Fields, Results
<1>4. Safe(D, W, t)
  <2> HIDE DEF t
  <2> QED BY <1>3, ResultsSafe
<1> HIDE DEF t
<1> QED BY <1>1, <1>2, <1>4

LEMMA ReadSpanSafe ==
  ASSUME NEW D, NEW s, NEW d \in D, NEW span, NEW size, Safe(D, {}, s)
  PROVE  Safe(D, {}, ReadSpan(s, d, span, size))
<1> DEFINE header == LoadHeader(s, s.fd[d].hdr)
           index == LoadIndex(s, d, IxSpan(span))
           loaded == IF IxSpan(span) = 0 THEN header ELSE index
           moved == MoveCursor(loaded, d)
           at == IF s.at.span = IxSpan(span) THEN s ELSE moved
<1>1. ReadSpan(s, d, span, size) = ReadPage(at, span, size)
  BY DEF ReadSpan
<1>2. Safe(D, {}, header)
  BY OpenedAs, LoadHeaderSafe
<1>3. Safe(D, {}, index)
  BY LoadIndexSafe
<1> HIDE DEF header, index
<1>4. Safe(D, {}, moved)
  <2>1. Safe(D, {}, loaded)
    BY <1>2, <1>3
  <2> HIDE DEF loaded
  <2> QED BY <2>1, FdFieldsSafe
<1> HIDE DEF moved
<1>5. Safe(D, {}, at)
  BY <1>4
<1> HIDE DEF at
<1> QED BY <1>1, <1>5, ReadPageSafe

LEMMA ReadSafe ==
  ASSUME NEW D, NEW s, NEW d \in D, NEW first, Safe(D, {}, s)
  PROVE  Safe({}, {}, Read(s, d, first))
<1> DEFINE size == s.fd[d].size
           c == [fd |-> d, first |-> first, size |-> size, fds |-> D]
           start == [s EXCEPT !.at = Nowhere]
           n == IF Spans(0, size) - first \in Nat THEN Spans(0, size) - first ELSE 0
           loop == ReadLoop!After(c, start, n)
           all == Each(start, Spans(0, size) - first,
                       LAMBDA t, i : ReadSpan(t, d, first + i - 1, size))
<1>1. Read(s, d, first) = IF size \in {0, Free} THEN s ELSE all
  BY DEF Read
<1>2. loop = all
  <2> HIDE DEF start, size
  <2> QED BY DEF Each, ReadLoop!After
<1>3. Safe(D, {}, start)
  <2>1. Only(Results \cup {"at"}, s, start)
    BY DEF Safe, Only, Fields, Results
  <2>2. {"pix", "span"} \subseteq DOMAIN start.at
    BY DEF Safe, Fields, Nowhere
  <2> HIDE DEF start
  <2> QED BY <2>1, <2>2, AtSafe
<1>4. Safe(D, {}, loop)
  <2>1. c.fd = d /\ c.first = first /\ c.size = size /\ c.fds = D
    OBVIOUS
  <2>2. n \in Nat
    OBVIOUS
  <2> HIDE DEF start, c, n
  <2>3. ASSUME NEW t, NEW span, NEW z, Safe(D, {}, t)
        PROVE  Safe(D, {}, IF Failed(t) THEN t ELSE ReadSpan(t, d, span, z))
    BY <2>3, ReadSpanSafe
  <2> QED BY <1>3, <2>1, <2>2, <2>3, ReadLoop!Kept
<1> HIDE DEF loop, all
<1> QED BY <1>1, <1>2, <1>4, LessSafe

LEMMA ClosedSafe ==
  ASSUME NEW D, NEW W, NEW s, Safe(D, W, s)
  PROVE  \A d : Safe({}, {}, Closed(s, d)) /\ Safe({}, {}, OrClosed(s, d))
<1> SUFFICES ASSUME NEW d PROVE Safe({}, {}, Closed(s, d)) /\ Safe({}, {}, OrClosed(s, d))
  OBVIOUS
<1> DEFINE t == Closed(s, d)
<1>1. Only({"fd"}, s, t) /\ t.fd = [s.fd EXCEPT ![d] = ClosedFd]
  BY DEF Safe, Only, Fields, Closed
<1> HIDE DEF t
<1>2. FdsSafe({}, t)
  BY <1>1 DEF Safe, FdsSafe, ClosedFd
<1>3. Safe({}, W, t)
  BY <1>1, <1>2, FdsOnlySafe
<1>4. Safe({}, {}, t) /\ Safe({}, {}, s)
  BY <1>3, LessSafe
<1> QED BY <1>4 DEF OrClosed, t

-----------------------------------------------------------------------------

(* The inductive invariant: while the volume is mounted no block lacks its *)
(* magic number, so that an erase, which takes one away, is safe; and the  *)
(* next erase count is above every count.                                  *)
IInv ==
    /\ Mountable(flash)
    /\ mounted => Whole(flash) /\ \A b \in Blocks : flash.count[b] < ram.max
    /\ ram.max \in Nat /\ RamSafe(ram) /\ FdsSafe({}, ram)
    /\ mounted \in BOOLEAN /\ torn \in BOOLEAN /\ calls \in Nat /\ crashes \in Nat

(* What the counting of a mount leaves in RAM.                             *)
LEMMA ScannedIn ==
  ASSUME NEW f, NEW max \in Nat
  PROVE  LET r == Scanned(f, max) IN r.max = max /\ RamSafe(r) /\ FdsSafe({}, r)
<1> DEFINE used == Cardinality({p \in Pages : InUse(f.lu[p])})
           dead == Cardinality({p \in Pages : f.lu[p] = Deleted})
           empty == Cardinality({b \in Blocks : f.lu[b * PerBlock + 1] = Free})
           r == Scanned(f, max)
<1>1. used \in Nat /\ dead \in Nat /\ empty \in Nat
  <2>1. IsFiniteSet(Pages) /\ IsFiniteSet(Blocks)
    BY GeometryAssumption, FS_Interval DEF Pages, Blocks
  <2> QED BY <2>1, FS_Subset, FS_CardinalityType
<1>2. At(0, 0) \in Cursors
  BY GeometryAssumption DEF At, Cursors, Blocks
<1>3. /\ r.busy = used /\ r.deleted = dead /\ r.free = empty /\ r.max = max
      /\ r.cursor = At(0, 0) /\ r.next = At(0, 0) /\ r.fd = [d \in Fds |-> ClosedFd]
  BY DEF Scanned
<1> HIDE DEF used, dead, empty, r
<1>4. RamSafe(r)
  BY <1>1, <1>2, <1>3 DEF RamSafe
<1>5. FdsSafe({}, r)
  BY <1>3 DEF FdsSafe, ClosedFd
<1> QED BY <1>3, <1>4, <1>5 DEF r

LEMMA InitHolds == Init => IInv
<1> SUFFICES ASSUME Init PROVE IInv
  OBVIOUS
<1>1. /\ flash.lu = [p \in Pages |-> Free] /\ flash.page = [p \in Pages |-> Blank]
      /\ flash.count = [b \in Blocks |-> 0] /\ flash.magic = [b \in Blocks |-> TRUE]
      /\ {"lu", "page", "count", "magic"} \subseteq DOMAIN flash
  BY DEF Init, Formatted
<1>2. Whole(flash)
  <2>1. "flags" \in DOMAIN Blank /\ "delet" \notin Blank.flags
    BY DEF Blank
  <2>2. /\ flash.lu \in [Pages -> {Free, Deleted} \cup Ids]
        /\ flash.count \in [Blocks -> Nat \cup {Free}] /\ flash.magic \in [Blocks -> BOOLEAN]
        /\ \A b \in Blocks : flash.magic[b] /\ flash.count[b] \in Nat
    BY <1>1
  <2>3. DOMAIN flash.page = Pages /\ \A p \in Pages : flash.page[p] = Blank
    BY <1>1
  <2>4. \A p \in Pages : /\ "flags" \in DOMAIN flash.page[p]
                         /\ "delet" \in flash.page[p].flags => flash.lu[p] = Deleted
    BY <2>1, <2>3
  <2> QED BY <1>1, <2>2, <2>3, <2>4, WholeFrom
<1>3. ram.max = 1 /\ RamSafe(ram) /\ FdsSafe({}, ram)
  BY ScannedIn DEF Init
<1>4. mounted \in BOOLEAN /\ torn \in BOOLEAN /\ calls \in Nat /\ crashes \in Nat
  <2>1. mounted = TRUE /\ torn = FALSE /\ calls = 0 /\ crashes = 0
    BY Zenon DEF Init
  <2> QED BY <2>1
<1>5. \A b \in Blocks : flash.count[b] < ram.max
  BY <1>1, <1>3
<1> QED BY <1>2, <1>3, <1>4, <1>5, WholeMountable DEF IInv

(* A call begins with what RAM and the flash hold, whatever the variable   *)
(* of spiffs_object_modify does.                                           *)
LEMMA NowSafe ==
  ASSUME IInv, mounted
  PROVE  /\ Safe({}, {}, Now)
         /\ \A d \in Fds : IsOpen(d) => \A x : Safe({d}, {}, [Now EXCEPT !.stray = x])
         /\ \A d \in Fds : IsOpen(d) => Safe({d}, {}, Now)
<1>1. /\ Now.flash = flash /\ Now.max = ram.max /\ Now.log = <<>>
      /\ Now.busy = ram.busy /\ Now.deleted = ram.deleted /\ Now.free = ram.free
      /\ Now.cursor = ram.cursor /\ Now.next = ram.next /\ Now.fd = ram.fd
      /\ Now.work = Blank /\ Now.at = Nowhere /\ DOMAIN Now = Fields
  BY DEF Now, Fields
<1>2. Logs(Now.log)
  <2> DEFINE none == {}
  <2>1. <<>> \in Seq(none) /\ \A f \in none : Mountable(f)
    OBVIOUS
  <2> HIDE DEF none
  <2>2. Logs(<<>>)
    BY <2>1 DEF Logs
  <2> QED BY <1>1, <2>2
<1>3. FlashSafe(Now)
  BY <1>1, <1>2 DEF IInv, FlashSafe
<1>4. RamSafe(Now) /\ FdsSafe({}, Now)
  BY <1>1 DEF IInv, RamSafe, FdsSafe
<1>5. WorkSafe(Now) /\ {"pix", "span"} \subseteq DOMAIN Now.at
  BY <1>1 DEF WorkSafe, Blank, Nowhere
<1>6. Safe({}, {}, Now)
  BY <1>1, <1>3, <1>4, <1>5 DEF Safe
<1>7. ASSUME NEW d \in Fds, IsOpen(d)
      PROVE  Safe({d}, {}, Now)
  <2>1. FdsSafe({d}, Now)
    BY <1>1, <1>4, <1>7 DEF FdsSafe, IsOpen
  <2> QED BY <1>1, <1>3, <1>4, <1>5, <2>1 DEF Safe
<1>8. ASSUME NEW d \in Fds, IsOpen(d), NEW x
      PROVE  Safe({d}, {}, [Now EXCEPT !.stray = x])
  <2> DEFINE t == [Now EXCEPT !.stray = x]
  <2>1. Only(Results, Now, t)
    BY <1>1 DEF Only, Fields, Results
  <2> HIDE DEF t
  <2>2. Safe({d}, {}, t)
    BY <1>7, <1>8, <2>1, ResultsSafe
  <2> QED BY <2>2 DEF t
<1> QED BY <1>6, <1>7, <1>8

(* A power loss in a call finds the flash after one of its writes.         *)
LEMMA LossKeeps ==
  ASSUME IInv, NEW s, NEW touched, Logs(s.log), PowerLoss(s, touched), calls' \in Nat
  PROVE  IInv'
<1>1. PICK F : s.log \in Seq(F) /\ \A f \in F : Mountable(f)
  BY DEF Logs
<1>2. PICK i \in DOMAIN s.log : flash' = s.log[i]
  BY DEF PowerLoss
<1>3. Mountable(flash')
  BY <1>1, <1>2
<1>4. /\ mounted' = FALSE /\ torn' = torn /\ ram' = Scanned(Formatted, 0)
      /\ crashes' = crashes + 1
  BY DEF PowerLoss
<1>5. ram'.max \in Nat /\ RamSafe(ram') /\ FdsSafe({}, ram')
  BY <1>4, ScannedIn
<1>6. Mountable(flash)'
  BY <1>3 DEF Mountable, Formed
<1>7. RamSafe(ram)' /\ FdsSafe({}, ram)'
  BY <1>5 DEF RamSafe, FdsSafe, OpenFd
<1>8. /\ mounted' => Whole(flash)' /\ \A b \in Blocks : flash'.count[b] < ram'.max
      /\ mounted' \in BOOLEAN
  BY <1>4
<1>9. torn' \in BOOLEAN /\ crashes' \in Nat
  BY <1>4 DEF IInv
<1> QED BY <1>5, <1>6, <1>7, <1>8, <1>9 DEF IInv

LEMMA ReturnKeeps ==
  ASSUME IInv, mounted, NEW s, Safe({}, {}, s), Return(s),
         calls' \in Nat, crashes' \in Nat, torn' \in BOOLEAN
  PROVE  IInv'
<1>1. /\ flash' = s.flash /\ mounted' = mounted /\ ram' = InRam(s)
  BY DEF Return
<1>2. /\ ram'.max = s.max /\ ram'.busy = s.busy /\ ram'.deleted = s.deleted
      /\ ram'.free = s.free /\ ram'.cursor = s.cursor /\ ram'.next = s.next /\ ram'.fd = s.fd
  BY <1>1 DEF InRam
<1>3. Whole(flash') /\ ram'.max \in Nat /\ \A b \in Blocks : flash'.count[b] < ram'.max
  BY <1>1, <1>2 DEF Safe, FlashSafe
<1>4. RamSafe(ram') /\ FdsSafe({}, ram')
  BY <1>2 DEF Safe, RamSafe, FdsSafe
<1>5. Mountable(flash)' /\ Whole(flash)'
  BY <1>3, WholeMountable DEF Mountable, Whole, Formed
<1>6. RamSafe(ram)' /\ FdsSafe({}, ram)'
  BY <1>4 DEF RamSafe, FdsSafe, OpenFd
<1> QED BY <1>1, <1>3, <1>5, <1>6 DEF IInv

LEMMA CallKeeps ==
  ASSUME IInv, NEW outcomes, NEW touched, \A s \in outcomes : Safe({}, {}, s),
         Call(outcomes, touched)
  PROVE  IInv'
<1>1. /\ mounted /\ calls' = calls + 1
      /\ \E s \in outcomes : \/ /\ Return(s) /\ crashes' = crashes
                                /\ torn' = (torn \/ (s.res # Ok /\ s.at # Nowhere))
                             \/ PowerLoss(s, touched)
  BY DEF Call
<1>2. PICK s \in outcomes : \/ /\ Return(s) /\ crashes' = crashes
                               /\ torn' = (torn \/ (s.res # Ok /\ s.at # Nowhere))
                            \/ PowerLoss(s, touched)
  BY <1>1
<1>3. calls' \in Nat
  BY <1>1 DEF IInv
<1>4. CASE Return(s) /\ crashes' = crashes /\ torn' = (torn \/ (s.res # Ok /\ s.at # Nowhere))
  <2>1. crashes' \in Nat /\ torn' \in BOOLEAN
    BY <1>4 DEF IInv
  <2> QED BY <1>1, <1>2, <1>3, <1>4, <2>1, ReturnKeeps
<1>5. CASE PowerLoss(s, touched)
  BY <1>2, <1>3, <1>5, LossKeeps DEF Safe, FlashSafe
<1> QED BY <1>2, <1>4, <1>5

(* A file that is found by its name has its header in a page in use.       *)
LEMMA NameFound ==
  ASSUME IInv, mounted, NEW n
  PROVE  LET s == FindName(Now, n) IN Safe({}, {}, s) /\ (Failed(s) \/ Entered(s))
<1> DEFINE S == {p \in Pages : IsHeaderOf(Now.flash, p, n)}
           s == Find(Now, S)
<1>1. FindName(Now, n) = s
  BY DEF FindName
<1>2. S \subseteq Pages
  OBVIOUS
<1>3. \A p \in S : p \in Pages /\ InUse(Now.flash.lu[p])
  BY DEF IsHeaderOf
<1> HIDE DEF S
<1>4. /\ Safe({}, {}, s) /\ s.flash = Now.flash
      /\ Failed(s) \/ s.pix \in S
  BY <1>2, NowSafe, FindSafe
<1> HIDE DEF s
<1>5. ASSUME s.pix \in S
      PROVE  Entered(s)
  <2>1. s.pix \in Pages /\ InUse(s.flash.lu[s.pix])
    BY <1>3, <1>4, <1>5
  <2>2. s.flash.lu[s.pix] \in {Free, Deleted} \cup Ids
    BY <1>4, <2>1 DEF Safe, FlashSafe, Whole, Formed
  <2> QED BY <2>1, <2>2 DEF Entered, InUse
<1> QED BY <1>1, <1>4, <1>5

LEMMA TruncateOpened ==
  ASSUME NEW s, NEW d \in Fds, NEW full, Safe({}, {}, s), Failed(s) \/ Entered(s)
  PROVE  Safe({}, {}, Truncate(OpenByPage(s, d, s.pix), d, full))
<1> DEFINE t == OpenByPage(s, d, s.pix)
<1>1. Safe({}, {}, t) /\ (Failed(t) \/ Safe({d}, {}, t))
  BY OpenByPageSafe
<1> HIDE DEF t
<1>2. CASE Failed(t)
  <2>1. Truncate(t, d, full) = t
    BY <1>2 DEF Truncate
  <2> QED BY <1>1, <2>1 DEF t
<1>3. CASE Safe({d}, {}, t)
  <2>1. d \in {d}
    OBVIOUS
  <2>2. Safe({}, {}, Truncate(t, d, full))
    BY <1>3, <2>1, TruncateSafe
  <2> QED BY <2>2 DEF t
<1> QED BY <1>1, <1>2, <1>3

LEMMA OpenKeeps ==
  ASSUME IInv, NEW d \in Fds, NEW n, NEW trunc \in BOOLEAN, Open(d, n, trunc)
  PROVE  IInv'
<1> DEFINE opened(s) == OpenByPage(s, d, s.pix)
           emptied(s) == IF trunc THEN Truncate(s, d, FALSE) ELSE s
           found == FindName(Now, n)
           created == Create(Now, n)
           old == OrClosed(emptied(opened(found)), d)
           new == OrClosed(opened(created), d)
<1>1. mounted
  BY DEF Open, Call
<1>2. Safe({}, {}, old)
  <2>1. Safe({}, {}, found) /\ (Failed(found) \/ Entered(found))
    BY <1>1, NameFound
  <2> HIDE DEF found
  <2>2. Safe({}, {}, opened(found)) /\ Safe({}, {}, Truncate(opened(found), d, FALSE))
    BY <2>1, OpenByPageSafe, TruncateOpened
  <2> HIDE DEF opened
  <2>3. Safe({}, {}, emptied(opened(found)))
    BY <2>2
  <2> HIDE DEF emptied
  <2> QED BY <2>3, ClosedSafe
<1>3. Safe({}, {}, new)
  <2>1. Safe({}, {}, created) /\ (Failed(created) \/ Entered(created))
    BY <1>1, NowSafe, CreateSafe
  <2> HIDE DEF created
  <2>2. Safe({}, {}, opened(created))
    BY <2>1, OpenByPageSafe
  <2> HIDE DEF opened
  <2> QED BY <2>2, ClosedSafe
<1>4. \E outcomes \in {{old}, {new}}, touched \in {{n}, {}} : Call(outcomes, touched)
  BY Zenon DEF Open
<1> HIDE DEF old, new
<1>5. \A outcomes \in {{old}, {new}} : \A s \in outcomes : Safe({}, {}, s)
  BY <1>2, <1>3
<1> QED BY <1>4, <1>5, CallKeeps

LEMMA WriteKeeps ==
  ASSUME IInv, NEW d \in Fds, NEW offset, NEW len, Write_(d, offset, len)
  PROVE  IInv'
<1> DEFINE wrote(x) == HydroWrite([Now EXCEPT !.stray = x], d, offset, len, calls + 1)
           outcomes == UNION {IF s.strayed THEN {wrote(x) : x \in Pages \cup {Free}} ELSE {s} :
                                s \in {wrote(0)}}
<1>1. mounted /\ IsOpen(d) /\ Call(outcomes, {open[d]})
  BY DEF Write_, Call
<1>2. ASSUME NEW x
      PROVE  Safe({}, {}, wrote(x))
  <2> DEFINE s == [Now EXCEPT !.stray = x]
  <2>1. Safe({d}, {}, s) /\ d \in {d}
    BY <1>1, NowSafe
  <2> HIDE DEF s
  <2>2. Safe({d}, {}, HydroWrite(s, d, offset, len, calls + 1))
    BY <2>1, HydroWriteSafe
  <2>3. Safe({}, {}, HydroWrite(s, d, offset, len, calls + 1))
    BY <2>2, LessSafe
  <2> QED BY <2>3 DEF s
<1>3. \A s \in outcomes : \E x : s = wrote(x)
  <2> HIDE DEF wrote
  <2> QED OBVIOUS
<1>4. \A s \in outcomes : Safe({}, {}, s)
  <2> HIDE DEF wrote, outcomes
  <2> QED BY <1>2, <1>3
<1> HIDE DEF outcomes
<1> QED BY <1>1, <1>4, CallKeeps

LEMMA RemoveKeeps ==
  ASSUME IInv, NEW d \in Fds, NEW n, Remove(d, n)
  PROVE  IInv'
<1> DEFINE found == FindName(Now, n)
           gone == OrClosed(Truncate(OpenByPage(found, d, found.pix), d, TRUE), d)
<1>1. mounted /\ Call({gone}, {n})
  BY DEF Remove, Call
<1>2. Safe({}, {}, gone)
  <2>1. Safe({}, {}, found) /\ (Failed(found) \/ Entered(found))
    BY <1>1, NameFound
  <2> HIDE DEF found
  <2> DEFINE t == Truncate(OpenByPage(found, d, found.pix), d, TRUE)
  <2>2. Safe({}, {}, t)
    BY <2>1, TruncateOpened
  <2> HIDE DEF t
  <2>3. Safe({}, {}, OrClosed(t, d))
    BY <2>2, ClosedSafe
  <2> QED BY <2>3 DEF t
<1> HIDE DEF gone
<1>3. \A s \in {gone} : Safe({}, {}, s)
  BY <1>2
<1> QED BY <1>1, <1>3, CallKeeps

LEMMA RenameKeeps ==
  ASSUME IInv, NEW d \in Fds, NEW o, NEW n, Rename(d, o, n)
  PROVE  IInv'
<1> DEFINE found == FindName(Now, o)
           s == OpenByPage(found, d, found.pix)
           hdr == s.fd[d].hdr
           image == [s.flash.page[hdr] EXCEPT !.name = n]
           updated == UpdateIndexHdr(s, d, s.fd[d].obj, hdr, image, 0)
           named == IF Failed(s) THEN s ELSE updated
<1>1. mounted /\ Call({Closed(named, d)}, {})
  BY DEF Rename, Call
<1>2. Safe({}, {}, s) /\ (Failed(s) \/ Safe({d}, {}, s))
  <2>1. Safe({}, {}, found) /\ (Failed(found) \/ Entered(found))
    BY <1>1, NameFound
  <2> HIDE DEF found
  <2> QED BY <2>1, OpenByPageSafe
<1> HIDE DEF s
<1>3. ASSUME Safe({d}, {}, s)
      PROVE  Safe({d}, {}, updated)
  <2>1. s.fd[d].obj \in Objects /\ hdr \in Pages
    BY <1>3, OpenedAs
  <2>2. "flags" \in DOMAIN image
    BY <1>3, <2>1 DEF Safe, FlashSafe, Whole, Formed
  <2> HIDE DEF image, hdr
  <2> QED BY <1>3, <2>1, <2>2, UpdateIndexHdrSafe
<1> HIDE DEF updated
<1>4. Safe({}, {}, named)
  BY <1>2, <1>3, LessSafe
<1> HIDE DEF named
<1>5. Safe({}, {}, Closed(named, d))
  BY <1>4, ClosedSafe
<1>6. \A t \in {Closed(named, d)} : Safe({}, {}, t)
  BY <1>5
<1> QED BY <1>1, <1>6, CallKeeps

LEMMA ReadKeeps ==
  ASSUME IInv, NEW d \in Fds, NEW first, ReadFrom(d, first) \/ Close(d)
  PROVE  IInv'
<1>1. /\ mounted /\ IsOpen(d) /\ calls' = calls /\ crashes' = crashes /\ torn' = torn
      /\ Return(Read(Now, d, first)) \/ Return(Closed(Now, d))
  BY DEF ReadFrom, Close
<1>2. calls' \in Nat /\ crashes' \in Nat /\ torn' \in BOOLEAN
  BY <1>1 DEF IInv
<1>3. Safe({}, {}, Read(Now, d, first)) /\ Safe({}, {}, Closed(Now, d))
  <2>1. Safe({d}, {}, Now) /\ d \in {d}
    BY <1>1, NowSafe
  <2> QED BY <2>1, ReadSafe, ClosedSafe
<1> QED BY <1>1, <1>2, <1>3, ReturnKeeps

(* The mount takes up counting above the highest count there is.           *)
LEMMA CountedMax ==
  ASSUME Formed(flash)
  PROVE  /\ Counted.max \in Nat
         /\ \A b \in Blocks : flash.count[b] \in Nat => flash.count[b] < Counted.max
<1> DEFINE counts == {0} \cup ({flash.count[b] : b \in Blocks} \ {Free})
           score == [b \in Blocks |-> IF flash.count[b] = Free THEN 0 ELSE flash.count[b]]
           max == CHOOSE c \in counts : \A e \in counts : e <= c
<1>1. \A b \in Blocks : flash.count[b] \in Nat \cup {Free}
  BY DEF Formed
<1>2. \A b \in Blocks : score[b] \in counts /\ score[b] \in Nat
  BY <1>1
<1>3. \A e \in counts : e \in Nat /\ (e = 0 \/ \E b \in Blocks : e = score[b])
  BY <1>1
<1>4. \A b \in Blocks : flash.count[b] \in Nat => flash.count[b] = score[b]
  BY GeometryAssumption
<1>5. Counted.max = 1 + max
  BY DEF Counted, Now
<1> HIDE DEF counts, score
<1>6. PICK b \in Blocks : \A c \in Blocks : score[c] < score[b] \/ score[c] = score[b]
  <2>1. \A b \in Blocks : score[b] \in Int
    BY <1>2
  <2> QED BY <2>1, BestOf
<1>7. \A e \in counts : e <= score[b]
  BY <1>2, <1>3, <1>6
<1>8. max \in counts /\ \A e \in counts : e <= max
  BY <1>2, <1>7
<1> HIDE DEF max
<1> QED BY <1>2, <1>3, <1>4, <1>5, <1>8

(* A mount repairs the one block there may be, and may lose power on it.   *)
LEMMA MountKeeps ==
  ASSUME IInv, Mount
  PROVE  IInv'
<1> DEFINE b == CHOOSE b \in Unerased : TRUE
           s == IF Unerased = {} THEN Counted ELSE EraseBlock(Counted, b)
<1>1. /\ Counted.flash = flash /\ Counted.log = <<>>
      /\ Counted.busy = ram.busy /\ Counted.deleted = ram.deleted /\ Counted.free = ram.free
      /\ Counted.cursor = ram.cursor /\ Counted.next = ram.next /\ Counted.fd = ram.fd
      /\ Counted.work = Blank /\ Counted.at = Nowhere /\ DOMAIN Counted = Fields
  BY DEF Counted, Now, Fields
<1>2. Logs(Counted.log)
  <2> DEFINE none == {}
  <2>1. <<>> \in Seq(none) /\ \A f \in none : Mountable(f)
    OBVIOUS
  <2> HIDE DEF none
  <2>2. Logs(<<>>)
    BY <2>1 DEF Logs
  <2> QED BY <1>1, <2>2
<1>3. RamSafe(Counted) /\ FdsSafe({}, Counted)
  BY <1>1 DEF IInv, RamSafe, FdsSafe
<1>4. WorkSafe(Counted) /\ {"pix", "span"} \subseteq DOMAIN Counted.at
  BY <1>1 DEF WorkSafe, Blank, Nowhere
<1>5. Formed(flash) /\ \A c, d \in Unerased : c = d
  <2>1. PICK d \in Blocks : \A c \in Blocks \ {d} : flash.magic[c]
    BY DEF IInv, Mountable
  <2> QED BY <2>1 DEF IInv, Mountable, Unerased
<1>6. /\ Counted.max \in Nat
      /\ \A c \in Blocks : flash.magic[c] => flash.count[c] < Counted.max
  BY <1>5, CountedMax DEF Formed
<1>7. Safe({}, {}, s)
  <2>1. CASE Unerased = {}
    <3>1. Whole(flash)
      <4>1. \A c \in Blocks : flash.magic[c]
        BY <2>1 DEF Unerased
      <4>2. \A p \in Pages : "delet" \in flash.page[p].flags => flash.lu[p] = Deleted
        BY <1>5, <4>1, BlocksPart DEF Formed
      <4> QED BY <1>5, <4>1, <4>2 DEF Whole
    <3>2. Safe({}, {}, Counted)
      BY <3>1, <1>1, <1>2, <1>3, <1>4, <1>6 DEF Safe, FlashSafe, Whole
    <3> QED BY <3>2, <2>1
  <2>2. CASE Unerased # {}
    <3>1. b \in Unerased /\ b \in Blocks
      BY <2>2 DEF Unerased
    <3> HIDE DEF b
    <3>2. \A c \in Blocks \ {b} : Counted.flash.magic[c] /\ Counted.flash.count[c] < Counted.max
      BY <3>1, <1>1, <1>5, <1>6 DEF Unerased
    <3>3. Safe({}, {}, EraseBlock(Counted, b))
      BY <1>1, <1>2, <1>3, <1>4, <1>5, <1>6, <3>1, <3>2, EraseMends
    <3> QED BY <2>2, <3>3
  <2> QED BY <2>1, <2>2
<1>8. /\ calls' = calls /\ torn' = torn
      /\ \/ /\ flash' = s.flash /\ ram' = Scanned(s.flash, s.max) /\ mounted' = TRUE
            /\ crashes' = crashes
         \/ PowerLoss(s, {})
  BY DEF Mount
<1> HIDE DEF s
<1>9. CASE /\ flash' = s.flash /\ ram' = Scanned(s.flash, s.max) /\ mounted' = TRUE
           /\ crashes' = crashes
  <2>1. Whole(s.flash) /\ s.max \in Nat /\ \A c \in Blocks : s.flash.count[c] < s.max
    BY <1>7 DEF Safe, FlashSafe
  <2>2. ram'.max = s.max /\ RamSafe(ram') /\ FdsSafe({}, ram')
    BY <1>9, <2>1, ScannedIn
  <2>3. Mountable(flash)' /\ Whole(flash)'
    <3>1. Mountable(flash') /\ Whole(flash')
      BY <1>9, <2>1, WholeMountable
    <3> QED BY <3>1 DEF Mountable, Whole, Formed
  <2>4. RamSafe(ram)' /\ FdsSafe({}, ram)'
    BY <2>2 DEF RamSafe, FdsSafe, OpenFd
  <2>5. torn' \in BOOLEAN /\ calls' \in Nat /\ crashes' \in Nat
    BY <1>8, <1>9 DEF IInv
  <2>6. mounted' \in BOOLEAN /\ \A c \in Blocks : flash'.count[c] < ram'.max
    BY <1>9, <2>1, <2>2
  <2> QED BY <2>1, <2>2, <2>3, <2>4, <2>5, <2>6 DEF IInv
<1>10. CASE PowerLoss(s, {})
  <2>1. Logs(s.log) /\ calls' \in Nat
    BY <1>7, <1>8 DEF Safe, FlashSafe, IInv
  <2> QED BY <1>10, <2>1, LossKeeps
<1> QED BY <1>8, <1>9, <1>10

LEMMA StepKeeps == IInv /\ [Next]_vars => IInv'
<1> SUFFICES ASSUME IInv, [Next]_vars PROVE IInv'
  OBVIOUS
<1>1. ASSUME NEW d \in Fds, NEW n \in Names, NEW trunc \in BOOLEAN, Open(d, n, trunc)
      PROVE  IInv'
  BY <1>1, OpenKeeps
<1>2. ASSUME NEW d \in Fds, NEW n \in Names, Remove(d, n)
      PROVE  IInv'
  BY <1>2, RemoveKeeps
<1>3. ASSUME NEW d \in Fds, NEW n \in Names, NEW o \in Names, Rename(d, o, n)
      PROVE  IInv'
  BY <1>3, RenameKeeps
<1>4. ASSUME NEW d \in Fds, NEW offset, NEW len, Write_(d, offset, len)
      PROVE  IInv'
  BY <1>4, WriteKeeps
<1>5. ASSUME NEW d \in Fds, NEW first, ReadFrom(d, first) \/ Close(d)
      PROVE  IInv'
  BY <1>5, ReadKeeps
<1>6. CASE UNCHANGED vars
  BY <1>6 DEF vars, IInv, Mountable, Whole, Formed, RamSafe, FdsSafe, OpenFd
<1> QED BY <1>1, <1>2, <1>3, <1>4, <1>5, <1>6, MountKeeps DEF Next

-----------------------------------------------------------------------------

(* At most one block ever lacks its magic number, and none while the       *)
(* volume is mounted: spiffs_erase_block is never begun with another block *)
(* still unmarked, unless it is that block the mount erases.               *)
THEOREM Invariance == Spec => []IInv
BY InitHolds, StepKeeps, PTL DEF Spec

(* Every entry of the lookup is free, deleted or an id of an object, every *)
(* cursor of the struct spiffs is on the volume, and a descriptor that is  *)
(* open has an object and a header page: no call, failed call, collection, *)
(* power loss or mount leaves anything else.                               *)
THEOREM TypeCorrect == Spec => []TypeOK
<1>1. IInv => TypeOK
  <2> SUFFICES ASSUME IInv PROVE TypeOK
    OBVIOUS
  <2>1. /\ flash.lu \in [Pages -> {Free, Deleted} \cup [obj : Objects, index : BOOLEAN]]
        /\ DOMAIN flash.page = Pages
        /\ flash.count \in [Blocks -> Nat \cup {Free}] /\ flash.magic \in [Blocks -> BOOLEAN]
    BY DEF IInv, Mountable, Formed, Ids
  <2>2. /\ {ram.busy, ram.deleted, ram.free} \subseteq Int /\ ram.max \in Nat
        /\ {ram.cursor, ram.next} \subseteq [block : Blocks, entry : 0 .. PerBlock]
    BY DEF IInv, RamSafe, Cursors
  <2>3. /\ DOMAIN ram.fd = Fds
        /\ \A d \in Fds : IsOpen(d) => ram.fd[d].obj \in Objects /\ ram.fd[d].hdr \in Pages
    BY DEF IInv, FdsSafe, OpenFd, IsOpen
  <2>4. mounted \in BOOLEAN /\ torn \in BOOLEAN /\ calls \in Nat /\ crashes \in Nat
    BY Zenon DEF IInv
  <2> QED BY <2>1, <2>2, <2>3, <2>4, Zenon DEF TypeOK
<1> QED BY <1>1, Invariance, PTL

(* On a mounted volume a page marked deleted is deleted in the lookup,     *)
(* wherever power was lost before and whatever call failed:                *)
(* spiffs_page_delete enters the deletion first, an operation that copies  *)
(* a page or adds flags to it never adds the mark or copies one, and the   *)
(* one block whose second sector may not have been erased has no magic     *)
(* number, so that the mount erases it.                                    *)
THEOREM NoneMarkedUnentered == Spec => []MarkedIsEntered
<1>1. IInv => MarkedIsEntered
  BY DEF IInv, Whole, MarkedIsEntered
<1> QED BY <1>1, Invariance, PTL

(* Every block of a mounted volume has an erase count, and the next one is *)
(* above them all: the age spiffs_gc_find_candidate works out is positive. *)
THEOREM AgesCount == Spec => []ErasedBefore
<1>1. IInv => ErasedBefore
  BY DEF IInv, Whole, Formed, ErasedBefore
<1> QED BY <1>1, Invariance, PTL

(* Wherever power is lost, in a call, in the garbage collection it begins  *)
(* or in the mount that repairs a block, at most one block lacks its magic *)
(* number: spiffs_obj_lu_scan always mounts the volume again.              *)
THEOREM AlwaysMountsAgain == Spec => []MountsAgain
<1>1. IInv => MountsAgain
  <2> SUFFICES ASSUME IInv PROVE Cardinality(Unerased) <= 1
    BY DEF MountsAgain
  <2>1. PICK b \in Blocks : \A c \in Blocks \ {b} : flash.magic[c]
    BY DEF IInv, Mountable
  <2>2. Unerased \subseteq {b}
    BY <2>1 DEF Unerased
  <2>3. IsFiniteSet({b}) /\ Cardinality({b}) = 1
    BY FS_Singleton
  <2> QED BY <2>2, <2>3, FS_Subset, FS_CardinalityType
<1> QED BY <1>1, Invariance, PTL
=============================================================================
