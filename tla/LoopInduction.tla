--------------------------- MODULE LoopInduction ----------------------------
(***************************************************************************)
(* Induction over the rounds of a loop: what the body of a loop keeps, the *)
(* loop keeps.  The body and the invariant are constants, which an         *)
(* instance gives their values; c is what the body uses besides the state. *)
(* Neither SMT nor Zenon can instantiate a theorem about an operator, but  *)
(* an instance of this module needs no instantiation.                      *)
(***************************************************************************)
EXTENDS Integers, WellFoundedInduction, TLAPS

CONSTANTS
    Step(_, _, _),      \* the state after round i, Step(c, t, i)
    Inv(_, _, _)        \* what holds after round i, Inv(c, i, t)

After(c, s, n) ==
    LET after[i \in 0 .. n] == IF i = 0 THEN s ELSE Step(c, after[i - 1], i)
    IN  after[n]

(* A set of numbers has a least one: the natural numbers are well founded. *)
LEMMA NatLeast ==
  ASSUME NEW S, S \subseteq Nat, S # {}
  PROVE  \E n \in S : \A m \in S : n <= m
<1> DEFINE R == OpToRel(<, Nat)
<1>1. IsWellFoundedOn(R, Nat)
  BY NatLessThanWellFounded
<1>2. \E x \in S : \A y \in S : ~ (<<y, x>> \in R)
  <2> HIDE DEF R
  <2> QED BY <1>1, WFMin
<1>3. ASSUME NEW x \in Nat, NEW y \in Nat, ~ (<<y, x>> \in R)
      PROVE  x <= y
  BY <1>3 DEF OpToRel
<1> QED BY <1>2, <1>3

(* Induction up to n in terms of a set: a number outside it would have a   *)
(* least one.                                                              *)
LEMMA SetInduction ==
  ASSUME NEW n \in Nat, NEW S, 0 \in S, \A i \in 1 .. n : i - 1 \in S => i \in S
  PROVE  \A i \in 0 .. n : i \in S
<1> DEFINE B == {i \in 0 .. n : i \notin S}
<1> SUFFICES ASSUME B # {} PROVE FALSE
  OBVIOUS
<1>1. PICK i \in B : \A m \in B : i <= m
  <2>1. B \subseteq Nat
    OBVIOUS
  <2> HIDE DEF B
  <2> QED BY <2>1, NatLeast
<1>2. i \in 1 .. n /\ i - 1 \in 0 .. n /\ i \notin S
  OBVIOUS
<1>3. i - 1 \in S
  BY <1>1, <1>2
<1> QED BY <1>2, <1>3

(* What holds before the first round and is kept by every round holds      *)
(* after the last: there is a function of the rounds, built one round at a *)
(* time, and the invariant holds of each of its values.                    *)
THEOREM Kept ==
  ASSUME NEW c, NEW s, NEW n \in Nat, Inv(c, 0, s),
         \A t : \A i \in 1 .. n : Inv(c, i - 1, t) => Inv(c, i, Step(c, t, i))
  PROVE  Inv(c, n, After(c, s, n))
<1> DEFINE Is(m, g) == g = [i \in 0 .. m |-> IF i = 0 THEN s ELSE Step(c, g[i - 1], i)]
           S == {m \in 0 .. n : \E g : Is(m, g)}
<1>1. 0 \in S
  <2>1. Is(0, [i \in 0 .. 0 |-> s])
    OBVIOUS
  <2>2. \E g : Is(0, g)
    <3> HIDE DEF Is
    <3> QED BY <2>1
  <2> QED BY <2>2
<1>2. ASSUME NEW m \in 1 .. n, m - 1 \in S
      PROVE  m \in S
  <2>1. PICK g : Is(m - 1, g)
    BY <1>2, Zenon
  <2> DEFINE h == [i \in 0 .. m |-> IF i = m THEN Step(c, g[m - 1], m) ELSE g[i]]
  <2>2. Is(m, h)
    BY <2>1
  <2>3. \E x : Is(m, x)
    <3> HIDE DEF Is, h
    <3> QED BY <2>2
  <2> QED BY <2>3
<1>3. n \in S
  <2> HIDE DEF S
  <2> QED BY <1>1, <1>2, SetInduction
<1> DEFINE f == CHOOSE g : Is(n, g)
<1>4. Is(n, f)
  <2>1. \E g : Is(n, g)
    BY <1>3, Zenon
  <2> QED BY <2>1, Zenon
<1>5. After(c, s, n) = f[n]
  BY DEF After
<1>6. /\ f[0] = s
      /\ \A i \in 1 .. n : f[i] = Step(c, f[i - 1], i)
  <2> HIDE DEF f
  <2> QED BY <1>4
<1> HIDE DEF f
<1> DEFINE G == {i \in 0 .. n : Inv(c, i, f[i])}
<1>7. 0 \in G
  BY <1>6
<1>8. ASSUME NEW i \in 1 .. n, i - 1 \in G
      PROVE  i \in G
  BY <1>6, <1>8
<1>9. n \in G
  <2> HIDE DEF G
  <2> QED BY <1>7, <1>8, SetInduction
<1> QED BY <1>9, <1>5
=============================================================================
