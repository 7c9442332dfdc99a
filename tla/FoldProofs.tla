------------------------------ MODULE FoldProofs ------------------------------
(***************************************************************************)
(* What is left to a reader once a whole queue of messages has been read,  *)
(* one by one: FoldLeft.  The prover has no induction over sequences, but  *)
(* it has that every set of numbers has a least one.  So a fold is taken   *)
(* as the last state of a run, a function from 0 .. Len(seq) whose steps   *)
(* are a function G of the state and the message; what is needed of runs   *)
(* is proved of all of them at once, and the folds of Drawing and of       *)
(* Pixelnary are shown to be runs.                                         *)
(***************************************************************************)
EXTENDS Integers, SequencesExt, WellFoundedInduction, SequenceTheorems, TLAPS

\* Induction for a set of numbers.
LEMMA NatSet ==
  ASSUME NEW S, 0 \in S, \A n \in Nat : n \in S => n + 1 \in S
  PROVE  Nat \subseteq S
<1> DEFINE T == Nat \ S
<1> SUFFICES ASSUME T # {} PROVE FALSE
  OBVIOUS
<1>1. PICK x \in T : \A y \in T : ~(<<y, x>> \in OpToRel(<, Nat))
  BY NatLessThanWellFounded, WFMin
<1>2. x \in Nat /\ x # 0
  OBVIOUS
<1>3. x - 1 \in Nat /\ x = (x - 1) + 1 /\ x - 1 < x
  BY <1>2
<1>4. x - 1 \in T
  BY <1>3
<1>5. <<x - 1, x>> \in OpToRel(<, Nat)
  BY <1>2, <1>3 DEF OpToRel
<1>6. QED
  BY <1>1, <1>4, <1>5

\* The same up to a last number.
LEMMA IntervalSet ==
  ASSUME NEW S, NEW n \in Nat, 0 \in S, \A k \in 1 .. n : k - 1 \in S => k \in S
  PROVE  0 .. n \subseteq S
<1> DEFINE T == {k \in Nat : k <= n => k \in S}
<1>1. 0 \in T
  OBVIOUS
<1>2. ASSUME NEW k \in Nat, k \in T PROVE k + 1 \in T
  <2>1. CASE k + 1 <= n
    <3>1. k + 1 \in 1 .. n /\ (k + 1) - 1 = k /\ k \in S
      BY <1>2, <2>1
    <3>2. QED
      BY <3>1
  <2>2. QED
    BY <2>1
<1> HIDE DEF T
<1>3. Nat \subseteq T
  BY <1>1, <1>2, NatSet
<1>4. QED
  BY <1>3 DEF T

(***************************************************************************)
(* Runs                                                                    *)
(***************************************************************************)

After(G, state, message) == G[<<state, message>>]

IsRun(h, G, base, seq) ==
  /\ h = [k \in 0 .. Len(seq) |-> h[k]]
  /\ h[0] = base
  /\ \A k \in 1 .. Len(seq) : h[k] = G[<<h[k - 1], seq[k]>>]

Run(G, base, seq) == CHOOSE h : IsRun(h, G, base, seq)

\* The state that a run reaches.
Reached(G, base, seq) == Run(G, base, seq)[Len(seq)]

\* A run stays where its steps stay.
LEMMA RunStays ==
  ASSUME NEW G, NEW base, NEW M, NEW seq \in Seq(M), NEW h, IsRun(h, G, base, seq),
         NEW A, base \in A,
         \A a \in A, i \in 1 .. Len(seq) : G[<<a, seq[i]>>] \in A
  PROVE  \A k \in 0 .. Len(seq) : h[k] \in A
<1> DEFINE S == {k \in 0 .. Len(seq) : h[k] \in A}
<1>1. Len(seq) \in Nat
  OBVIOUS
<1>2. 0 \in S
  BY <1>1 DEF IsRun
<1>3. ASSUME NEW k \in 1 .. Len(seq), k - 1 \in S PROVE k \in S
  <2>1. h[k] = G[<<h[k - 1], seq[k]>>]
    BY DEF IsRun
  <2>2. QED
    BY <1>1, <1>3, <2>1
<1> HIDE DEF S
<1>4. 0 .. Len(seq) \subseteq S
  BY <1>1, <1>2, <1>3, IntervalSet
<1>5. QED
  BY <1>4 DEF S

\* Two runs over the same messages stay related.
LEMMA RunsRelated ==
  ASSUME NEW G, NEW base1, NEW base2, NEW M, NEW seq \in Seq(M),
         NEW h1, IsRun(h1, G, base1, seq), NEW h2, IsRun(h2, G, base2, seq),
         NEW R, <<base1, base2>> \in R,
         \A a1, a2 : \A i \in 1 .. Len(seq) :
           <<a1, a2>> \in R => <<G[<<a1, seq[i]>>], G[<<a2, seq[i]>>]>> \in R
  PROVE  \A k \in 0 .. Len(seq) : <<h1[k], h2[k]>> \in R
<1> DEFINE S == {k \in 0 .. Len(seq) : <<h1[k], h2[k]>> \in R}
<1>1. Len(seq) \in Nat
  OBVIOUS
<1>2. 0 \in S
  BY <1>1 DEF IsRun
<1>3. ASSUME NEW k \in 1 .. Len(seq), k - 1 \in S PROVE k \in S
  <2>1. h1[k] = G[<<h1[k - 1], seq[k]>>] /\ h2[k] = G[<<h2[k - 1], seq[k]>>]
    BY DEF IsRun
  <2>2. <<h1[k - 1], h2[k - 1]>> \in R
    BY <1>3
  <2>3. QED
    BY <1>1, <1>3, <2>1, <2>2
<1> HIDE DEF S
<1>4. 0 .. Len(seq) \subseteq S
  BY <1>1, <1>2, <1>3, IntervalSet
<1>5. QED
  BY <1>4 DEF S

\* There is one run.
LEMMA RunUnique ==
  ASSUME NEW G, NEW base, NEW M, NEW seq \in Seq(M),
         NEW h1, IsRun(h1, G, base, seq), NEW h2, IsRun(h2, G, base, seq)
  PROVE  h1 = h2
<1> DEFINE S == {k \in 0 .. Len(seq) : h1[k] = h2[k]}
<1>1. Len(seq) \in Nat
  OBVIOUS
<1>2. 0 \in S
  BY <1>1 DEF IsRun
<1>3. ASSUME NEW k \in 1 .. Len(seq), k - 1 \in S PROVE k \in S
  <2>1. h1[k] = G[<<h1[k - 1], seq[k]>>] /\ h2[k] = G[<<h2[k - 1], seq[k]>>]
    BY DEF IsRun
  <2>2. QED
    BY <1>1, <1>3, <2>1
<1> HIDE DEF S
<1>4. 0 .. Len(seq) \subseteq S
  BY <1>1, <1>2, <1>3, IntervalSet
<1>5. \A k \in 0 .. Len(seq) : h1[k] = h2[k]
  BY <1>4 DEF S
<1>6. QED
  BY <1>5 DEF IsRun

\* There is a run over every sequence.
LEMMA RunExists ==
  ASSUME NEW G, NEW base, NEW M, NEW seq \in Seq(M)
  PROVE  \E h : IsRun(h, G, base, seq)
<1> DEFINE Upto(n, h) ==
             /\ h = [k \in 0 .. n |-> h[k]]
             /\ h[0] = base
             /\ \A k \in 1 .. n : h[k] = G[<<h[k - 1], seq[k]>>]
           S == {n \in Nat : \E h : Upto(n, h)}
<1>1. 0 \in S
  <2> DEFINE h0 == [k \in 0 .. 0 |-> base]
  <2>1. Upto(0, h0)
    OBVIOUS
  <2>2. QED
    BY <2>1
<1>2. ASSUME NEW n \in Nat, n \in S PROVE n + 1 \in S
  <2>1. PICK h : Upto(n, h)
    BY <1>2
  <2> DEFINE h2 == [k \in 0 .. n + 1 |-> IF k = n + 1 THEN G[<<h[n], seq[n + 1]>>] ELSE h[k]]
  <2>2. h2[0] = base
    <3>1. 0 \in 0 .. n + 1 /\ 0 # n + 1
      OBVIOUS
    <3>2. h2[0] = h[0]
      BY <3>1
    <3>3. QED
      BY <2>1, <3>2
  <2>0. h2[n + 1] = G[<<h2[n], seq[n + 1]>>]
    <3>1. n + 1 \in 0 .. n + 1 /\ n \in 0 .. n + 1 /\ n # n + 1
      OBVIOUS
    <3>2. h2[n + 1] = G[<<h[n], seq[n + 1]>>] /\ h2[n] = h[n]
      BY <3>1
    <3>3. QED
      BY <3>2
  <2>3. ASSUME NEW k \in 1 .. n + 1 PROVE h2[k] = G[<<h2[k - 1], seq[k]>>]
    <3>1. CASE k = n + 1
      <4>1. k - 1 = n
        BY <3>1
      <4>2. QED
        BY <2>0, <3>1, <4>1, Zenon
    <3>2. CASE k \in 1 .. n
      <4>1. h2[k] = h[k] /\ h2[k - 1] = h[k - 1]
        BY <3>2
      <4>2. QED
        BY <2>1, <3>2, <4>1
    <3>3. QED
      BY <3>1, <3>2
  <2>4. Upto(n + 1, h2)
    BY <2>2, <2>3
  <2> HIDE DEF h2, Upto
  <2>5. QED
    BY <2>4
<1> HIDE DEF S
<1>3. Nat \subseteq S
  BY <1>1, <1>2, NatSet
<1>4. Len(seq) \in S
  BY <1>3
<1>5. QED
  BY <1>4 DEF S, IsRun

\* Whatever run there is, its last state is the one reached.
LEMMA RunReaches ==
  ASSUME NEW G, NEW base, NEW M, NEW seq \in Seq(M), NEW h, IsRun(h, G, base, seq)
  PROVE  Reached(G, base, seq) = h[Len(seq)]
<1>1. IsRun(Run(G, base, seq), G, base, seq)
  BY Zenon DEF Run
<1>2. QED
  BY <1>1, RunUnique DEF Reached

LEMMA ReachedByRun ==
  ASSUME NEW G, NEW base, NEW M, NEW seq \in Seq(M)
  PROVE  \E h : IsRun(h, G, base, seq) /\ Reached(G, base, seq) = h[Len(seq)]
BY RunExists, RunReaches

(***************************************************************************)
(* What is reached                                                         *)
(***************************************************************************)

LEMMA ReachedNothing ==
  ASSUME NEW G, NEW base
  PROVE  Reached(G, base, <<>>) = base
<1>1. <<>> \in Seq({}) /\ Len(<<>>) = 0
  OBVIOUS
<1>2. PICK h : IsRun(h, G, base, <<>>) /\ Reached(G, base, <<>>) = h[Len(<<>>)]
  BY <1>1, ReachedByRun
<1>3. QED
  BY <1>1, <1>2 DEF IsRun

\* A message more is a step more.
LEMMA ReachedMore ==
  ASSUME NEW G, NEW base, NEW M, NEW seq \in Seq(M), NEW m \in M
  PROVE  Reached(G, base, Append(seq, m)) = After(G, Reached(G, base, seq), m)
<1> DEFINE n == Len(seq)
           longer == Append(seq, m)
<1>1. /\ longer \in Seq(M) /\ n \in Nat /\ Len(longer) = n + 1
      /\ longer[n + 1] = m /\ \A k \in 1 .. n : longer[k] = seq[k]
  OBVIOUS
<1>2. PICK h : IsRun(h, G, base, longer) /\ Reached(G, base, longer) = h[Len(longer)]
  BY <1>1, ReachedByRun
<1> DEFINE h0 == [k \in 0 .. n |-> h[k]]
<1>3. IsRun(h0, G, base, seq)
  <2>1. \A k \in 1 .. n + 1 : h[k] = G[<<h[k - 1], longer[k]>>]
    BY <1>1, <1>2 DEF IsRun
  <2>2. h0[0] = base
    BY <1>1, <1>2 DEF IsRun
  <2> HIDE DEF longer
  <2>3. ASSUME NEW k \in 1 .. n PROVE h0[k] = G[<<h0[k - 1], seq[k]>>]
    <3>1. h[k] = G[<<h[k - 1], longer[k]>>] /\ longer[k] = seq[k]
      BY <1>1, <2>1
    <3>2. k \in 0 .. n /\ k - 1 \in 0 .. n
      BY <1>1
    <3>3. QED
      BY <3>1, <3>2
  <2>4. QED
    BY <2>2, <2>3 DEF IsRun
<1>4. Reached(G, base, seq) = h[n]
  BY <1>1, <1>3, RunReaches
<1>5. h[n + 1] = G[<<h[n], m>>]
  <2>1. n + 1 \in 1 .. n + 1 /\ (n + 1) - 1 = n
    BY <1>1
  <2>2. h[n + 1] = G[<<h[(n + 1) - 1], longer[n + 1]>>]
    BY <1>1, <1>2, <2>1 DEF IsRun
  <2>3. QED
    BY <1>1, <2>1, <2>2
<1>6. QED
  BY <1>1, <1>2, <1>4, <1>5 DEF After

\* To take the first message is to start where it leads.
LEMMA ReachedTail ==
  ASSUME NEW G, NEW base, NEW M, NEW seq \in Seq(M), seq # <<>>
  PROVE  Reached(G, base, seq) = Reached(G, After(G, base, Head(seq)), Tail(seq))
<1> USE DEF After
<1> DEFINE n == Len(seq)
           rest == Tail(seq)
           next == G[<<base, Head(seq)>>]
<1>1. /\ n \in Nat /\ n >= 1 /\ rest \in Seq(M) /\ Len(rest) = n - 1
      /\ \A k \in 1 .. n - 1 : rest[k] = seq[k + 1]
      /\ Head(seq) = seq[1]
  OBVIOUS
<1>2. PICK h : IsRun(h, G, base, seq) /\ Reached(G, base, seq) = h[Len(seq)]
  BY ReachedByRun
<1> DEFINE h1 == [k \in 0 .. n - 1 |-> h[k + 1]]
<1>3. \A k \in 1 .. n : h[k] = G[<<h[k - 1], seq[k]>>]
  BY <1>2 DEF IsRun
<1>4. h1[0] = next
  BY <1>1, <1>2, <1>3 DEF IsRun
<1>5. ASSUME NEW k \in 1 .. n - 1 PROVE h1[k] = G[<<h1[k - 1], rest[k]>>]
  <2>1. k + 1 \in 1 .. n /\ (k + 1) - 1 = k /\ (k - 1) + 1 = k /\ k - 1 \in 0 .. n - 1 /\ k \in 0 .. n - 1
    BY <1>1
  <2>2. h[k + 1] = G[<<h[(k + 1) - 1], seq[k + 1]>>]
    BY <1>3, <2>1
  <2>3. rest[k] = seq[k + 1]
    BY <1>1
  <2> HIDE DEF rest
  <2>4. QED
    BY <2>1, <2>2, <2>3
<1>6. IsRun(h1, G, next, rest)
  BY <1>1, <1>4, <1>5 DEF IsRun
<1>7. Reached(G, next, rest) = h1[n - 1]
  BY <1>1, <1>6, RunReaches
<1>8. h1[n - 1] = h[n]
  BY <1>1
<1>9. QED
  BY <1>2, <1>7, <1>8

\* What no step leaves is not left.
LEMMA ReachedStays ==
  ASSUME NEW G, NEW base, NEW M, NEW seq \in Seq(M), NEW A, base \in A,
         \A a \in A, i \in 1 .. Len(seq) : G[<<a, seq[i]>>] \in A
  PROVE  Reached(G, base, seq) \in A
<1>1. PICK h : IsRun(h, G, base, seq) /\ Reached(G, base, seq) = h[Len(seq)]
  BY ReachedByRun
<1>2. \A k \in 0 .. Len(seq) : h[k] \in A
  BY <1>1, RunStays
<1>3. QED
  BY <1>1, <1>2

\* What relates the starts and is kept by every step relates the ends.
LEMMA ReachedRelated ==
  ASSUME NEW G, NEW base1, NEW base2, NEW M, NEW seq \in Seq(M),
         NEW R, <<base1, base2>> \in R,
         \A a1, a2 : \A i \in 1 .. Len(seq) :
           <<a1, a2>> \in R => <<G[<<a1, seq[i]>>], G[<<a2, seq[i]>>]>> \in R
  PROVE  <<Reached(G, base1, seq), Reached(G, base2, seq)>> \in R
<1>1. PICK h1 : IsRun(h1, G, base1, seq) /\ Reached(G, base1, seq) = h1[Len(seq)]
  BY ReachedByRun
<1>2. PICK h2 : IsRun(h2, G, base2, seq) /\ Reached(G, base2, seq) = h2[Len(seq)]
  BY ReachedByRun
<1>3. \A k \in 0 .. Len(seq) : <<h1[k], h2[k]>> \in R
  BY <1>1, <1>2, RunsRelated
<1>4. QED
  BY <1>1, <1>2, <1>3

\* One queue after the other is read from where the first has led.
LEMMA ReachedConcat ==
  ASSUME NEW G, NEW base, NEW M, NEW s \in Seq(M), NEW t \in Seq(M)
  PROVE  Reached(G, base, s \o t) = Reached(G, Reached(G, base, s), t)
<1> DEFINE n == Len(s)
           m == Len(t)
           st == s \o t
<1>1. /\ n \in Nat /\ m \in Nat /\ st \in Seq(M) /\ Len(st) = n + m
      /\ \A k \in 1 .. n : st[k] = s[k]
      /\ \A k \in 1 .. m : st[n + k] = t[k]
  BY ConcatProperties
<1>2. PICK h : IsRun(h, G, base, st) /\ Reached(G, base, st) = h[Len(st)]
  BY <1>1, ReachedByRun
<1> DEFINE h1 == [k \in 0 .. n |-> h[k]]
           h2 == [k \in 0 .. m |-> h[n + k]]
<1>3. h[0] = base /\ \A k \in 1 .. n + m : h[k] = G[<<h[k - 1], st[k]>>]
  BY <1>1, <1>2 DEF IsRun
<1> HIDE DEF st
<1>4. IsRun(h1, G, base, s)
  <2>1. ASSUME NEW k \in 1 .. n PROVE h1[k] = G[<<h1[k - 1], s[k]>>]
    <3>1. k \in 1 .. n + m /\ k \in 0 .. n /\ k - 1 \in 0 .. n
      BY <1>1
    <3>2. h[k] = G[<<h[k - 1], st[k]>>] /\ st[k] = s[k]
      BY <1>1, <1>3, <3>1
    <3>3. QED
      BY <3>1, <3>2
  <2>2. h1[0] = base
    BY <1>1, <1>3
  <2>3. QED
    BY <2>1, <2>2 DEF IsRun
<1>5. Reached(G, base, s) = h[n]
  BY <1>1, <1>4, RunReaches
<1>6. IsRun(h2, G, h[n], t)
  <2>1. ASSUME NEW k \in 1 .. m PROVE h2[k] = G[<<h2[k - 1], t[k]>>]
    <3>1. n + k \in 1 .. n + m /\ k \in 0 .. m /\ k - 1 \in 0 .. m /\ (n + k) - 1 = n + (k - 1)
      BY <1>1
    <3>2. h[n + k] = G[<<h[(n + k) - 1], st[n + k]>>] /\ st[n + k] = t[k]
      BY <1>1, <1>3, <3>1
    <3>3. QED
      BY <3>1, <3>2
  <2>2. h2[0] = h[n]
    BY <1>1
  <2>3. QED
    BY <2>1, <2>2 DEF IsRun
<1>7. Reached(G, h[n], t) = h[n + m]
  <2>1. Reached(G, h[n], t) = h2[Len(t)]
    BY <1>6, RunReaches
  <2>2. QED
    BY <1>1, <2>1
<1>8. QED
  BY <1>1, <1>2, <1>5, <1>7 DEF st

(***************************************************************************)
(* Folds                                                                   *)
(***************************************************************************)

\* A set of numbers up to n has a greatest one.
LEMMA MaxOfSome ==
  ASSUME NEW n \in Nat, NEW s \in SUBSET (1 .. n), s # {}
  PROVE  Max(s) \in s /\ \A y \in s : Max(s) >= y
<1> DEFINE T == {u \in Nat : \A y \in s : u >= y}
<1>1. n \in T
  OBVIOUS
<1>2. PICK u \in T : \A v \in T : ~(<<v, u>> \in OpToRel(<, Nat))
  <2>1. T \subseteq Nat /\ T # {}
    BY <1>1
  <2> HIDE DEF T
  <2>2. QED
    BY <2>1, NatLessThanWellFounded, WFMin
<1>3. u \in s
  <2> SUFFICES ASSUME u \notin s PROVE FALSE
    OBVIOUS
  <2>1. PICK y \in s : TRUE
    OBVIOUS
  <2>2. u >= y /\ u # y /\ y >= 1 /\ u \in Nat
    BY <2>1
  <2>3. u - 1 \in T
    BY <2>2
  <2>4. <<u - 1, u>> \in OpToRel(<, Nat)
    BY <2>2, <2>3 DEF OpToRel
  <2>5. QED
    BY <1>2, <2>3, <2>4
<1>4. \E x \in s : \A y \in s : x >= y
  BY <1>3
<1>5. QED
  BY <1>4 DEF Max

\* The greatest of the numbers up to k, and those before it.
LEMMA MaxUpto ==
  ASSUME NEW k \in Nat \ {0}
  PROVE  Max(1 .. k) = k
<1>1. 1 .. k \in SUBSET (1 .. k) /\ k \in 1 .. k
  OBVIOUS
<1>2. Max(1 .. k) \in 1 .. k /\ Max(1 .. k) >= k
  BY <1>1, MaxOfSome
<1>3. QED
  BY <1>2

LEMMA BeforeMax ==
  ASSUME NEW k \in Nat \ {0}
  PROVE  (1 .. k) \ {k} = 1 .. (k - 1)
OBVIOUS

\* The steps of a fold lead from A to A, where it starts; it reads M.
FoldType(A, M, G, base, seq) == G \in [A \X M -> A] /\ base \in A /\ seq \in Seq(M)

\* The equation that FoldLeft solves, with G for the operator, among functions
\* to A.
SolvesFold(it, A, G, base, seq) ==
  /\ it \in [SUBSET (1 .. Len(seq)) -> A]
  /\ \A s \in SUBSET (1 .. Len(seq)) :
       it[s] = IF s = {} THEN base ELSE G[<<it[s \ {Max(s)}], seq[Max(s)]>>]

\* It has a solution.
LEMMA FoldSolvable ==
  ASSUME NEW A, NEW M, NEW G, NEW base, NEW seq, FoldType(A, M, G, base, seq)
  PROVE  \E it : SolvesFold(it, A, G, base, seq)
<1> USE DEF FoldType
<1> DEFINE Solves(it, k) ==
             \A s \in SUBSET (1 .. k) :
               it[s] = IF s = {} THEN base ELSE G[<<it[s \ {Max(s)}], seq[Max(s)]>>]
           S == {k \in 0 .. Len(seq) : \E it \in [SUBSET (1 .. k) -> A] : Solves(it, k)}
<1>1. 0 \in S
  <2> DEFINE it == [s \in SUBSET (1 .. 0) |-> base]
  <2>1. it \in [SUBSET (1 .. 0) -> A]
    OBVIOUS
  <2>2. \A s \in SUBSET (1 .. 0) : s = {}
    OBVIOUS
  <2>3. Solves(it, 0)
    BY <2>2
  <2>4. 0 \in 0 .. Len(seq)
    OBVIOUS
  <2> HIDE DEF it, Solves
  <2>5. QED
    BY <2>1, <2>3, <2>4
<1>2. ASSUME NEW k \in 1 .. Len(seq), k - 1 \in S PROVE k \in S
  <2>1. PICK it \in [SUBSET (1 .. k - 1) -> A] : Solves(it, k - 1)
    BY <1>2
  <2> DEFINE it2 == [s \in SUBSET (1 .. k) |->
                       IF k \in s THEN G[<<it[s \ {k}], seq[k]>>] ELSE it[s]]
  <2>2. ASSUME NEW s \in SUBSET (1 .. k)
        PROVE  s \ {k} \in SUBSET (1 .. k - 1)
    OBVIOUS
  <2>3. ASSUME NEW s \in SUBSET (1 .. k), k \notin s
        PROVE  s \in SUBSET (1 .. k - 1)
    BY <2>3
  <2>4. it2 \in [SUBSET (1 .. k) -> A]
    <3>1. seq[k] \in M
      OBVIOUS
    <3>2. ASSUME NEW s \in SUBSET (1 .. k) PROVE it2[s] \in A
      <4>1. CASE k \in s
        <5>1. it[s \ {k}] \in A
          BY <2>2
        <5>2. G[<<it[s \ {k}], seq[k]>>] \in A
          BY <3>1, <5>1
        <5>3. QED
          BY <4>1, <5>2
      <4>2. CASE k \notin s
        <5>1. it[s] \in A
          BY <2>3, <4>2
        <5>2. QED
          BY <4>2, <5>1
      <4>3. QED
        BY <4>1, <4>2
    <3>3. QED
      BY <3>2
  <2>5. ASSUME NEW s \in SUBSET (1 .. k)
        PROVE  it2[s] = IF s = {} THEN base ELSE G[<<it2[s \ {Max(s)}], seq[Max(s)]>>]
    <3>1. CASE s = {}
      <4>1. k \notin s /\ it[s] = base
        BY <2>1, <3>1
      <4>2. QED
        BY <3>1, <4>1
    <3>2. CASE k \in s
      <4>1. Max(s) = k
        <5>0. k \in Nat /\ s # {}
          BY <3>2
        <5>1. Max(s) \in s /\ Max(s) >= k /\ Max(s) \in 1 .. k
          BY <3>2, <5>0, MaxOfSome
        <5>2. QED
          BY <5>1
      <4>2. s \ {k} \in SUBSET (1 .. k) /\ k \notin s \ {k}
        OBVIOUS
      <4>3. it2[s \ {k}] = it[s \ {k}]
        BY <4>2
      <4>4. it2[s] = G[<<it[s \ {k}], seq[k]>>]
        BY <3>2
      <4>5. QED
        BY <3>2, <4>1, <4>3, <4>4, Zenon
    <3>3. CASE k \notin s /\ s # {}
      <4>1. s \in SUBSET (1 .. k - 1)
        BY <2>3, <3>3
      <4>2. it[s] = G[<<it[s \ {Max(s)}], seq[Max(s)]>>]
        BY <2>1, <3>3, <4>1
      <4>3. s \ {Max(s)} \in SUBSET (1 .. k) /\ k \notin s \ {Max(s)}
        BY <3>3
      <4>4. it2[s] = it[s] /\ it2[s \ {Max(s)}] = it[s \ {Max(s)}]
        BY <3>3, <4>3
      <4>5. QED
        BY <3>3, <4>2, <4>4, Zenon
    <3>4. QED
      BY <3>1, <3>2, <3>3
  <2>6. Solves(it2, k)
    BY <2>5
  <2> HIDE DEF it2, Solves
  <2>7. QED
    BY <2>4, <2>6
<1> HIDE DEF S
<1>3. Len(seq) \in Nat
  OBVIOUS
<1>4. 0 .. Len(seq) \subseteq S
  BY <1>1, <1>2, <1>3, IntervalSet
<1>5. Len(seq) \in S
  BY <1>3, <1>4
<1>6. PICK it \in [SUBSET (1 .. Len(seq)) -> A] : Solves(it, Len(seq))
  BY <1>5 DEF S
<1>7. SolvesFold(it, A, G, base, seq)
  BY <1>6 DEF SolvesFold
<1>8. QED
  BY <1>7

\* What is needed of a solution, as long as it keeps to A.
PassesThrough(it, A, G, base, seq) ==
  /\ it[{}] = base
  /\ \A k \in 1 .. Len(seq) :
       it[1 .. k - 1] \in A => it[1 .. k] = G[<<it[1 .. k - 1], seq[k]>>]

\* A solution passes through the states of the run.
LEMMA SolutionReaches ==
  ASSUME NEW A, NEW M, NEW G, NEW base, NEW seq, FoldType(A, M, G, base, seq),
         NEW it, PassesThrough(it, A, G, base, seq)
  PROVE  it[1 .. Len(seq)] = Reached(G, base, seq)
<1> USE DEF FoldType
<1> DEFINE h == [k \in 0 .. Len(seq) |-> it[1 .. k]]
           S == {k \in 0 .. Len(seq) : it[1 .. k] \in A}
<1>1. Len(seq) \in Nat /\ 1 .. 0 = {}
  OBVIOUS
<1>0. /\ it[{}] = base
      /\ \A k \in 1 .. Len(seq) :
           it[1 .. k - 1] \in A => it[1 .. k] = G[<<it[1 .. k - 1], seq[k]>>]
  BY DEF PassesThrough
<1>2. 0 \in S
  BY <1>0, <1>1
<1>3. ASSUME NEW k \in 1 .. Len(seq), k - 1 \in S PROVE k \in S
  <2>1. it[1 .. k - 1] \in A /\ seq[k] \in M /\ k \in 0 .. Len(seq)
    BY <1>3
  <2>2. G[<<it[1 .. k - 1], seq[k]>>] \in A
    BY <2>1
  <2>3. QED
    BY <1>0, <2>1, <2>2
<1> HIDE DEF S
<1>4. 0 .. Len(seq) \subseteq S
  BY <1>1, <1>2, <1>3, IntervalSet
<1>5. ASSUME NEW k \in 1 .. Len(seq) PROVE h[k] = G[<<h[k - 1], seq[k]>>]
  <2>1. k \in 0 .. Len(seq) /\ k - 1 \in 0 .. Len(seq)
    BY <1>1
  <2>2. it[1 .. k - 1] \in A
    BY <1>4, <2>1 DEF S
  <2>3. QED
    BY <1>0, <2>1, <2>2
<1>6. h[0] = base /\ h = [k \in 0 .. Len(seq) |-> h[k]] /\ h[Len(seq)] = it[1 .. Len(seq)]
  BY <1>0, <1>1
<1> HIDE DEF h
<1>7. IsRun(h, G, base, seq)
  BY <1>5, <1>6 DEF IsRun
<1>8. QED
  BY <1>6, <1>7, RunReaches
=============================================================================
