-------------------------------- MODULE Folding --------------------------------
(***************************************************************************)
(* What FoldLeft makes of a list, for any operator and any start: it takes *)
(* one element after the other.  The modules that fold lists instantiate   *)
(* this one with the operator they fold with, and prove by induction over  *)
(* lists what their folds compute.                                         *)
(***************************************************************************)
EXTENDS Integers, Sequences, SequencesExt, SequenceTheorems, WellFoundedInduction,
        TLAPS

CONSTANTS
    Base,       \* where the fold starts
    Step(_, _)  \* the operator: what there is so far, and the next element

Fold(list) == FoldLeft(Step, Base, list)

\* The recursive function behind the fold of the first n elements.
IsIter(list, n, g) ==
    g = [s \in SUBSET (1 .. n) |->
           IF s = {} THEN Base ELSE Step(g[s \ {Max(s)}], list[Max(s)])]

-----------------------------------------------------------------------------
\* A set of natural numbers has a least one ...
LEMMA LeastNumber ==
  ASSUME NEW T, T \subseteq Nat, T # {}
  PROVE  \E n \in T : \A m \in T : n <= m
<1> DEFINE R == OpToRel(<, Nat)
<1>1. IsWellFoundedOn(R, Nat)
  BY NatLessThanWellFounded
<1>2. \A x, y \in Nat : x < y => <<x, y>> \in R
  BY DEF OpToRel
<1> HIDE DEF R
<1>3. PICK n \in T : \A m \in T : ~(<<m, n>> \in R)
  BY <1>1, WFMin
<1>4. \A m \in T : ~(m < n)
  BY <1>2, <1>3
<1> QED
  BY <1>4

\* ... so that a set of them is an interval if it begins as one and goes on.
LEMMA Induction ==
  ASSUME NEW N \in Nat, NEW T \in SUBSET (0 .. N), 0 \in T,
         \A n \in 0 .. N - 1 : n \in T => n + 1 \in T
  PROVE  T = 0 .. N
<1> SUFFICES ASSUME T # 0 .. N PROVE FALSE
  OBVIOUS
<1> DEFINE U == {m \in 0 .. N : m \notin T}
<1>1. U \subseteq Nat /\ U # {}
  <2>1. \A m \in T : m \in 0 .. N
    OBVIOUS
  <2>2. PICK m \in 0 .. N : m \notin T
    BY <2>1
  <2>3. m \in U
    BY <2>2
  <2>4. \A x \in U : x \in Nat
    OBVIOUS
  <2> HIDE DEF U
  <2> QED
    BY <2>3, <2>4
<1>2. PICK n \in U : \A m \in U : n <= m
  <2> HIDE DEF U
  <2> QED
    BY <1>1, LeastNumber
<1>3. n \in 0 .. N /\ n # 0 /\ n \notin T
  OBVIOUS
<1>4. n - 1 \in 0 .. N - 1 /\ n - 1 \in T
  BY <1>2, <1>3
<1> QED
  BY <1>3, <1>4

\* What Max chooses from some of the first n numbers.
LEMMA MaxOfSome ==
  ASSUME NEW n \in Nat, NEW s \in SUBSET (1 .. n), s # {}
  PROVE  Max(s) \in s /\ \A y \in s : Max(s) >= y
<1> DEFINE U == {n - x : x \in s}
<1>0. \A x \in s : x \in 1 .. n
  OBVIOUS
<1>1. U \subseteq Nat /\ U # {}
  <2>1. PICK x : x \in s
    OBVIOUS
  <2>2. n - x \in U
    BY <2>1
  <2>3. \A u \in U : u \in Nat
    BY <1>0
  <2> HIDE DEF U
  <2> QED
    BY <2>2, <2>3
<1>2. PICK k \in U : \A m \in U : k <= m
  <2> HIDE DEF U
  <2> QED
    BY <1>1, LeastNumber
<1>3. PICK x \in s : k = n - x
  BY <1>2
<1>4. \A y \in s : x >= y
  <2> TAKE y \in s
  <2>1. n - y \in U
    OBVIOUS
  <2>2. n - x <= n - y /\ x \in Int /\ y \in Int
    BY <1>0, <1>2, <1>3, <2>1
  <2> QED
    BY <2>2
<1> QED
  BY <1>4 DEF Max

\* The recursive function exists, since the set shrinks, ...
LEMMA IterExists ==
  ASSUME NEW S, NEW list \in Seq(S)
  PROVE  \A n \in 0 .. Len(list) : \E g : IsIter(list, n, g)
<1> DEFINE T == {n \in 0 .. Len(list) : \E g : IsIter(list, n, g)}
<1>1. 0 \in T
  <2> DEFINE g == [s \in SUBSET (1 .. 0) |-> Base]
  <2>1. \A s \in SUBSET (1 .. 0) : s = {}
    OBVIOUS
  <2>2. IsIter(list, 0, g)
    BY <2>1 DEF IsIter
  <2> QED
    BY <2>2
<1>2. ASSUME NEW n \in 0 .. Len(list) - 1, n \in T PROVE n + 1 \in T
  <2>1. PICK g : IsIter(list, n, g)
    BY <1>2
  <2> DEFINE h == [s \in SUBSET (1 .. n + 1) |->
                     IF s = {} THEN Base ELSE Step(g[s \ {Max(s)}], list[Max(s)])]
  <2>2. ASSUME NEW s \in SUBSET (1 .. n + 1), s # {}
        PROVE  h[s \ {Max(s)}] = g[s \ {Max(s)}]
    <3> DEFINE t == s \ {Max(s)}
    <3>1. Max(s) \in s /\ \A y \in s : Max(s) >= y
      <4>1. n + 1 \in Nat
        OBVIOUS
      <4> QED
        BY <2>2, <4>1, MaxOfSome
    <3>2. t \in SUBSET (1 .. n) /\ t \in SUBSET (1 .. n + 1)
      <4>1. n \in Nat /\ \A y \in s : y \in 1 .. n + 1
        OBVIOUS
      <4>2. \A y \in t : y \in 1 .. n /\ y \in 1 .. n + 1
        <5> TAKE y \in t
        <5> DEFINE x == Max(s)
        <5>1. x >= y /\ y # x /\ x \in 1 .. n + 1 /\ y \in 1 .. n + 1
          BY <3>1, <4>1
        <5> HIDE DEF x, t
        <5> QED
          BY <4>1, <5>1
      <4> HIDE DEF t
      <4> QED
        BY <4>2
    <3>3. g[t] = IF t = {} THEN Base ELSE Step(g[t \ {Max(t)}], list[Max(t)])
      BY <2>1, <3>2 DEF IsIter
    <3>4. h[t] = IF t = {} THEN Base ELSE Step(g[t \ {Max(t)}], list[Max(t)])
      BY <3>2
    <3> QED
      BY <3>3, <3>4
  <2>3. IsIter(list, n + 1, h)
    BY <2>2 DEF IsIter
  <2> QED
    BY <2>3
<1> HIDE DEF T
<1>3. T = 0 .. Len(list)
  <2>1. T \in SUBSET (0 .. Len(list)) /\ Len(list) \in Nat
    BY DEF T
  <2> QED
    BY <1>1, <1>2, <2>1, Induction
<1> QED
  BY <1>3 DEF T

\* ... takes the last of the first numbers first, ...
LEMMA IterTakes ==
  ASSUME NEW list, NEW n \in Nat, NEW g, IsIter(list, n, g)
  PROVE  /\ g[1 .. 0] = Base
         /\ \A k \in 0 .. n - 1 : g[1 .. k + 1] = Step(g[1 .. k], list[k + 1])
<1>1. 1 .. 0 = {} /\ 1 .. 0 \in SUBSET (1 .. n)
  OBVIOUS
<1>2. ASSUME NEW k \in 0 .. n - 1 PROVE g[1 .. k + 1] = Step(g[1 .. k], list[k + 1])
  <2> DEFINE s == 1 .. k + 1
  <2>1. s \in SUBSET (1 .. n) /\ s # {} /\ k + 1 \in s /\ n \in Nat /\ k \in Nat
    BY <1>2
  <2>2. Max(s) \in s /\ \A y \in s : Max(s) >= y
    BY <2>1, MaxOfSome
  <2>3. Max(s) = k + 1
    BY <2>1, <2>2
  <2>4. s \ {k + 1} = 1 .. k
    BY <2>1
  <2>5. g[s] = Step(g[s \ {Max(s)}], list[Max(s)])
    <3> HIDE DEF s
    <3> QED
      BY <2>1 DEF IsIter
  <2> QED
    BY <2>3, <2>4, <2>5
<1> QED
  BY <1>1, <1>2 DEF IsIter

\* ... and depends on the elements it takes only.
LEMMA IterAgrees ==
  ASSUME NEW n \in Nat, NEW m \in Nat, n <= m, NEW p, NEW q, NEW g, NEW h,
         IsIter(p, n, g), IsIter(q, m, h), \A k \in 1 .. n : p[k] = q[k]
  PROVE  g[1 .. n] = h[1 .. n]
<1> DEFINE T == {k \in 0 .. n : g[1 .. k] = h[1 .. k]}
<1>1. 0 \in T
  <2>1. g[1 .. 0] = Base
    BY IterTakes
  <2>2. h[1 .. 0] = Base
    BY IterTakes
  <2> QED
    BY <2>1, <2>2
<1>2. ASSUME NEW k \in 0 .. n - 1, k \in T PROVE k + 1 \in T
  <2>1. g[1 .. k] = h[1 .. k] /\ p[k + 1] = q[k + 1] /\ k \in 0 .. m - 1
    BY <1>2
  <2>2. g[1 .. k + 1] = Step(g[1 .. k], p[k + 1])
    BY <1>2, IterTakes
  <2>3. h[1 .. k + 1] = Step(h[1 .. k], q[k + 1])
    BY <2>1, IterTakes
  <2> QED
    BY <2>1, <2>2, <2>3
<1> HIDE DEF T
<1>3. T = 0 .. n
  <2>1. T \in SUBSET (0 .. n)
    BY DEF T
  <2> QED
    BY <1>1, <1>2, <2>1, Induction
<1> QED
  BY <1>3 DEF T

\* The fold is that function, applied to all places of the list.
LEMMA FoldIsIter ==
  ASSUME NEW S, NEW list \in Seq(S)
  PROVE  \E g : IsIter(list, Len(list), g) /\ Fold(list) = g[1 .. Len(list)]
<1> DEFINE D == DOMAIN list
<1> DEFINE Defines(g) == g = [s \in SUBSET D |->
                     IF s = {} THEN Base ELSE Step(g[s \ {Max(s)}], list[Max(s)])]
<1>1. Fold(list) = (CHOOSE g : Defines(g))[D]
  BY DEF Fold, FoldLeft, MapThenFoldSet
<1>2. D = 1 .. Len(list) /\ Len(list) \in 0 .. Len(list)
  OBVIOUS
<1>3. \E g : Defines(g)
  <2>1. PICK g : IsIter(list, Len(list), g)
    BY <1>2, IterExists
  <2>2. Defines(g)
    BY <1>2, <2>1 DEF IsIter
  <2> QED
    BY <2>2
<1>4. Defines(CHOOSE g : Defines(g))
  BY <1>3
<1>5. IsIter(list, Len(list), CHOOSE g : Defines(g))
  BY <1>2, <1>4 DEF IsIter
<1> HIDE DEF D, Defines
<1> QED
  BY <1>1, <1>2, <1>5

\* So does a set of lists hold all of them, if it holds the empty one and with each
\* the longer ones.
THEOREM ListInduction ==
  ASSUME NEW S, NEW T, <<>> \in T,
         \A list \in Seq(S), e \in S : list \in T => Append(list, e) \in T
  PROVE  Seq(S) \subseteq T
<1> SUFFICES ASSUME NEW list \in Seq(S) PROVE list \in T
  OBVIOUS
<1> DEFINE Prefix(k) == SubSeq(list, 1, k)
<1> DEFINE U == {k \in 0 .. Len(list) : Prefix(k) \in T}
<1>1. 0 \in U
  <2>1. Prefix(0) = <<>> /\ 0 \in 0 .. Len(list)
    OBVIOUS
  <2> HIDE DEF Prefix
  <2> QED
    BY <2>1
<1>2. ASSUME NEW k \in 0 .. Len(list) - 1, k \in U PROVE k + 1 \in U
  <2>1. Prefix(k) \in Seq(S) /\ list[k + 1] \in S /\ k + 1 \in 0 .. Len(list)
    BY <1>2
  <2>2. Prefix(k + 1) = Append(Prefix(k), list[k + 1])
    BY <1>2
  <2>3. Prefix(k) \in T
    BY <1>2
  <2> HIDE DEF Prefix
  <2> QED
    BY <2>1, <2>2, <2>3
<1>3. Prefix(Len(list)) = list /\ Len(list) \in Nat
  OBVIOUS
<1> HIDE DEF U, Prefix
<1>4. U = 0 .. Len(list)
  <2>1. U \in SUBSET (0 .. Len(list))
    BY DEF U
  <2> QED
    BY <1>1, <1>2, <1>3, <2>1, Induction
<1> QED
  BY <1>3, <1>4 DEF U

-----------------------------------------------------------------------------
\* The fold of an empty list is where it starts.
THEOREM FoldEmpty == Fold(<<>>) = Base
<1>1. <<>> \in Seq({}) /\ Len(<<>>) = 0
  OBVIOUS
<1>2. PICK g : IsIter(<<>>, 0, g) /\ Fold(<<>>) = g[1 .. 0]
  BY <1>1, FoldIsIter
<1> QED
  BY <1>2, IterTakes

\* The fold of a list with one more element is one step from that of the list.
THEOREM FoldAppend ==
  ASSUME NEW S, NEW list \in Seq(S), NEW e \in S
  PROVE  Fold(Append(list, e)) = Step(Fold(list), e)
<1> DEFINE n == Len(list)
<1> DEFINE longer == Append(list, e)
<1>1. /\ longer \in Seq(S) /\ Len(longer) = n + 1 /\ n \in Nat
      /\ longer[n + 1] = e /\ \A k \in 1 .. n : list[k] = longer[k]
  OBVIOUS
<1> HIDE DEF n, longer
<1>2. PICK g : IsIter(list, n, g) /\ Fold(list) = g[1 .. n]
  BY FoldIsIter DEF n
<1>3. PICK h : IsIter(longer, n + 1, h) /\ Fold(longer) = h[1 .. n + 1]
  BY <1>1, FoldIsIter
<1>4. g[1 .. n] = h[1 .. n]
  BY <1>1, <1>2, <1>3, IterAgrees
<1>5. h[1 .. n + 1] = Step(h[1 .. n], longer[n + 1])
  BY <1>1, <1>3, IterTakes
<1> QED
  BY <1>1, <1>2, <1>3, <1>4, <1>5 DEF longer

\* The fold of a single element is one step, ...
THEOREM FoldOne ==
  ASSUME NEW a
  PROVE  Fold(<<a>>) = Step(Base, a)
<1> DEFINE S == {a}
<1>1. a \in S
  OBVIOUS
<1> HIDE DEF S
<1>2. <<>> \in Seq(S) /\ Append(<<>>, a) = <<a>>
  BY <1>1
<1>3. Fold(Append(<<>>, a)) = Step(Fold(<<>>), a)
  BY <1>1, <1>2, FoldAppend
<1> QED
  BY <1>2, <1>3, FoldEmpty

\* ... and that of a list of two is two.
THEOREM FoldTwo ==
  ASSUME NEW a, NEW b
  PROVE  Fold(<<a, b>>) = Step(Step(Base, a), b)
<1> DEFINE S == {a, b}
<1>1. a \in S /\ b \in S
  OBVIOUS
<1> HIDE DEF S
<1>2. <<a>> \in Seq(S)
  BY <1>1
<1>3. Append(<<a>>, b) = <<a, b>>
  <2>1. /\ Append(<<a>>, b) \in Seq(S) /\ Len(Append(<<a>>, b)) = 2
        /\ Append(<<a>>, b)[1] = a /\ Append(<<a>>, b)[2] = b
    BY <1>1, <1>2
  <2>2. <<a, b>> \in Seq(S) /\ Len(<<a, b>>) = 2 /\ <<a, b>>[1] = a /\ <<a, b>>[2] = b
    BY <1>1
  <2>3. \A i \in 1 .. 2 : i = 1 \/ i = 2
    OBVIOUS
  <2> HIDE DEF S
  <2> QED
    BY <2>1, <2>2, <2>3, SeqEqual
<1>4. Fold(Append(<<a>>, b)) = Step(Fold(<<a>>), b)
  BY <1>1, <1>2, FoldAppend
<1> QED
  BY <1>3, <1>4, FoldOne

\* What every step preserves holds of the fold.
THEOREM FoldPreserves ==
  ASSUME NEW S, NEW list \in Seq(S), NEW A, Base \in A,
         \A a \in A, e \in S : Step(a, e) \in A
  PROVE  Fold(list) \in A
<1>1. PICK g : IsIter(list, Len(list), g) /\ Fold(list) = g[1 .. Len(list)]
  BY FoldIsIter
<1> DEFINE T == {k \in 0 .. Len(list) : g[1 .. k] \in A}
<1>2. 0 \in T
  BY <1>1, IterTakes
<1>3. ASSUME NEW k \in 0 .. Len(list) - 1, k \in T PROVE k + 1 \in T
  <2>1. list[k + 1] \in S /\ Len(list) \in Nat
    BY <1>3
  <2>2. g[1 .. k + 1] = Step(g[1 .. k], list[k + 1])
    BY <1>1, <1>3, <2>1, IterTakes
  <2> QED
    BY <1>3, <2>1, <2>2
<1> HIDE DEF T
<1>4. T = 0 .. Len(list)
  <2>1. T \in SUBSET (0 .. Len(list)) /\ Len(list) \in Nat
    BY DEF T
  <2> QED
    BY <1>2, <1>3, <2>1, Induction
<1>5. Len(list) \in 0 .. Len(list)
  OBVIOUS
<1> QED
  BY <1>1, <1>4, <1>5 DEF T

\* An element is put at the end of the second of two lists, or of both.
LEMMA ConcatAppend ==
  ASSUME NEW S, NEW p \in Seq(S), NEW q \in Seq(S), NEW e \in S
  PROVE  p \o Append(q, e) = Append(p \o q, e)
  OBVIOUS

\* The fold goes on from what there is so far, whatever list that is the fold of.
THEOREM FoldContinues ==
  ASSUME NEW S, NEW p \in Seq(S), NEW q \in Seq(S), Fold(p) = Fold(q),
         NEW list \in Seq(S)
  PROVE  Fold(p \o list) = Fold(q \o list)
<1> DEFINE Prefix(k) == SubSeq(list, 1, k)
<1> DEFINE T == {k \in 0 .. Len(list) : Fold(p \o Prefix(k)) = Fold(q \o Prefix(k))}
<1>1. 0 \in T
  <2>1. Prefix(0) = <<>> /\ p \o <<>> = p /\ q \o <<>> = q /\ 0 \in 0 .. Len(list)
    OBVIOUS
  <2>2. Fold(p \o Prefix(0)) = Fold(q \o Prefix(0))
    <3> HIDE DEF Prefix
    <3> QED
      BY <2>1
  <2> HIDE DEF Prefix
  <2> QED
    BY <2>1, <2>2
<1>2. ASSUME NEW k \in 0 .. Len(list) - 1, k \in T PROVE k + 1 \in T
  <2>1. Prefix(k) \in Seq(S) /\ list[k + 1] \in S /\ k + 1 \in 0 .. Len(list)
    BY <1>2
  <2>2. Prefix(k + 1) = Append(Prefix(k), list[k + 1])
    BY <1>2
  <2>3. ASSUME NEW r \in Seq(S) PROVE r \o Prefix(k + 1) = Append(r \o Prefix(k), list[k + 1])
    <3> DEFINE f == Prefix(k)
    <3> DEFINE x == list[k + 1]
    <3>1. f \in Seq(S) /\ x \in S
      BY <2>1
    <3>2. Prefix(k + 1) = Append(f, x)
      BY <2>2
    <3> HIDE DEF Prefix
    <3> SUFFICES r \o Append(f, x) = Append(r \o f, x)
      BY <3>2
    <3> HIDE DEF f, x
    <3> QED
      BY <3>1, ConcatAppend, SMTT(30)
  <2>4. p \o Prefix(k) \in Seq(S) /\ q \o Prefix(k) \in Seq(S)
    BY <2>1
  <2>5. Fold(p \o Prefix(k)) = Fold(q \o Prefix(k))
    BY <1>2
  <2> HIDE DEF Prefix
  <2>6. Fold(p \o Prefix(k + 1)) = Step(Fold(p \o Prefix(k)), list[k + 1])
    BY <2>1, <2>3, <2>4, FoldAppend
  <2>7. Fold(q \o Prefix(k + 1)) = Step(Fold(q \o Prefix(k)), list[k + 1])
    BY <2>1, <2>3, <2>4, FoldAppend
  <2> QED
    BY <2>1, <2>5, <2>6, <2>7
<1>3. Prefix(Len(list)) = list /\ Len(list) \in Nat
  OBVIOUS
<1> HIDE DEF T, Prefix
<1>4. T = 0 .. Len(list)
  <2>1. T \in SUBSET (0 .. Len(list))
    BY DEF T
  <2> QED
    BY <1>1, <1>2, <1>3, <2>1, Induction
<1> QED
  BY <1>3, <1>4 DEF T
=============================================================================
