---------------------------- MODULE FoldTheorems ----------------------------
(***************************************************************************)
(* What a fold computes.  The folds of the community modules all iterate a *)
(* function over the subsets of a set, defined by recursion; that such a   *)
(* function exists, and what it keeps, is shown here by induction on the   *)
(* number of elements, for a step that is a function of its element and of *)
(* the value so far.                                                       *)
(***************************************************************************)
EXTENDS Integers, FiniteSets, FiniteSetsExt, TLAPS, WellFoundedInduction, FiniteSetTheorems

(* The order of the natural numbers, as a relation, is well founded.      *)
LEMMA NatIsWellFounded == IsWellFoundedOn({p \in Nat \X Nat : p[1] < p[2]}, Nat)
BY NatLessThanWellFounded DEF OpToRel

(* A set of natural numbers that is not empty has a least one.             *)
LEMMA LeastExists ==
  ASSUME NEW T \in SUBSET Nat, T # {}
  PROVE  \E x \in T : \A y \in T : x <= y
<1> DEFINE R == {p \in Nat \X Nat : p[1] < p[2]}
<1>1. IsWellFoundedOn(R, Nat) BY NatIsWellFounded
<1> HIDE DEF R
<1>2. PICK x \in T : \A y \in T : ~ (<<y, x>> \in R) BY <1>1, WFMin
<1>3. ASSUME NEW y \in T PROVE x <= y
  <2>1. x \in Nat /\ y \in Nat OBVIOUS
  <2>2. ~ (<<y, x>> \in R) BY <1>2
  <2>3. ~ (y < x) BY <2>1, <2>2 DEF R
  <2> QED BY <2>1, <2>3
<1> QED BY <1>3

(* Induction, for a set of natural numbers.                                *)
LEMMA SetInduction ==
  ASSUME NEW S, 0 \in S, \A n \in Nat : n \in S => n + 1 \in S
  PROVE  Nat \subseteq S
<1> DEFINE T == Nat \ S
<1> SUFFICES ASSUME T # {} PROVE FALSE OBVIOUS
<1>1. T \in SUBSET Nat OBVIOUS
<1> HIDE DEF T
<1>2. PICK x \in T : \A y \in T : x <= y BY <1>1, LeastExists
<1>3. x \in Nat /\ x # 0 /\ x \notin S BY DEF T
<1>4. x - 1 \in Nat /\ ~ (x <= x - 1) BY <1>3
<1>5. x - 1 \in S BY <1>2, <1>4 DEF T
<1>6. x - 1 + 1 = x BY <1>3
<1> QED BY <1>3, <1>4, <1>5, <1>6

(* A property of a prefix that one more element keeps holds of the whole.  *)
LEMMA UpToInduction ==
  ASSUME NEW n \in Nat, NEW S, 0 \in S, \A k \in 1..n : k - 1 \in S => k \in S
  PROVE  0..n \subseteq S
<1> DEFINE T == {k \in Nat : k <= n => k \in S}
<1>1. 0 \in T OBVIOUS
<1>2. ASSUME NEW k \in Nat, k \in T PROVE k + 1 \in T
  <2>1. CASE k + 1 <= n
    <3>1. k + 1 \in 1..n /\ (k + 1) - 1 = k /\ k <= n BY <2>1
    <3>2. k \in S BY <1>2, <3>1
    <3> QED BY <3>1, <3>2
  <2> QED BY <2>1
<1> HIDE DEF T
<1>3. Nat \subseteq T BY <1>1, <1>2, SetInduction
<1> QED BY <1>3 DEF T

(* Removing an element makes a finite set smaller.                         *)
LEMMA OneLess ==
  ASSUME NEW S, IsFiniteSet(S), NEW s \in SUBSET S, NEW x \in s
  PROVE  /\ s \ {x} \in SUBSET S
         /\ Cardinality(s) \in Nat /\ Cardinality(s \ {x}) \in Nat
         /\ Cardinality(s \ {x}) = Cardinality(s) - 1
<1>1. IsFiniteSet(s) BY FS_Subset
<1> QED BY <1>1, FS_RemoveElement, FS_CardinalityType

\* pick takes an element of every subset of S that has one.
Picks(pick, S) == \A s \in SUBSET S : s # {} => pick[s] \in s

\* f is what the iteration makes of every subset of S.
Iterates(f, S, base, step, pick) ==
  \A s \in SUBSET S : f[s] = IF s = {} THEN base ELSE step[pick[s]][f[s \ {pick[s]}]]

(* An iteration over a finite set has a value in any set of values that    *)
(* holds the base and that every step stays in.                            *)
LEMMA IterationExists ==
  ASSUME NEW S, IsFiniteSet(S), NEW A, NEW base \in A, NEW step \in [S -> [A -> A]],
         NEW pick, Picks(pick, S)
  PROVE  \E f \in [SUBSET S -> A] : Iterates(f, S, base, step, pick)
<1> USE DEF Picks
<1> DEFINE Small(k) == {s \in SUBSET S : Cardinality(s) <= k}
           Rhs(f, s) == IF s = {} THEN base ELSE step[pick[s]][f[s \ {pick[s]}]]
           Good(f, k) == \A s \in Small(k) : f[s] = Rhs(f, s)
           K == {k \in Nat : \E f \in [Small(k) -> A] : Good(f, k)}
<1>0. \A s \in SUBSET S : Cardinality(s) \in Nat /\ (Cardinality(s) = 0 <=> s = {})
  BY FS_Subset, FS_CardinalityType, FS_EmptySet
<1>1. 0 \in K
  <2> DEFINE f == [s \in Small(0) |-> base]
  <2>1. \A s \in Small(0) : s = {}
    BY <1>0
  <2>2. f \in [Small(0) -> A] /\ Good(f, 0) BY <2>1
  <2> QED BY <2>2
<1>2. ASSUME NEW k \in Nat, k \in K PROVE k + 1 \in K
  <2>1. PICK f \in [Small(k) -> A] : Good(f, k) BY <1>2
  <2> DEFINE g == [s \in Small(k + 1) |-> Rhs(f, s)]
  <2>2. ASSUME NEW s \in Small(k + 1), s # {}
        PROVE  pick[s] \in s /\ pick[s] \in S /\ s \ {pick[s]} \in Small(k)
    <3>1. pick[s] \in s BY <2>2
    <3>2. /\ s \ {pick[s]} \in SUBSET S /\ Cardinality(s) \in Nat
          /\ Cardinality(s \ {pick[s]}) \in Nat
          /\ Cardinality(s \ {pick[s]}) = Cardinality(s) - 1
      BY <3>1, OneLess
    <3> QED BY <3>1, <3>2
  <2>3. g \in [Small(k + 1) -> A]
    <3> SUFFICES ASSUME NEW s \in Small(k + 1) PROVE Rhs(f, s) \in A OBVIOUS
    <3>1. CASE s = {} BY <3>1
    <3>2. CASE s # {}
      <4>1. f[s \ {pick[s]}] \in A /\ step[pick[s]] \in [A -> A] BY <2>2, <3>2
      <4> HIDE DEF Small
      <4> QED BY <3>2, <4>1
    <3> QED BY <3>1, <3>2
  <2>4. \A s \in Small(k) : s \in Small(k + 1) /\ g[s] = f[s]
    <3> SUFFICES ASSUME NEW s \in Small(k) PROVE s \in Small(k + 1) /\ g[s] = f[s] OBVIOUS
    <3>1. s \in Small(k + 1) BY <1>0
    <3>2. f[s] = Rhs(f, s) BY <2>1
    <3> HIDE DEF Small, Rhs
    <3> QED BY <3>1, <3>2
  <2>5. Good(g, k + 1)
    <3> SUFFICES ASSUME NEW s \in Small(k + 1) PROVE g[s] = Rhs(g, s) OBVIOUS
    <3>1. g[s] = Rhs(f, s) OBVIOUS
    <3>2. CASE s = {} BY <3>1, <3>2
    <3>3. CASE s # {}
      <4>1. g[s \ {pick[s]}] = f[s \ {pick[s]}] BY <2>2, <2>4, <3>3
      <4> HIDE DEF g, Small
      <4> QED BY <3>1, <3>3, <4>1
    <3> QED BY <3>2, <3>3
  <2> HIDE DEF g, Good, Small
  <2>6. k + 1 \in Nat OBVIOUS
  <2> QED BY <2>3, <2>5, <2>6
<1>3. Cardinality(S) \in K
  <2> HIDE DEF K
  <2>1. Nat \subseteq K BY <1>1, <1>2, SetInduction
  <2> QED BY <2>1, FS_CardinalityType
<1>4. PICK f \in [Small(Cardinality(S)) -> A] : Good(f, Cardinality(S)) BY <1>3
<1>5. Small(Cardinality(S)) = SUBSET S
  <2>1. \A s \in SUBSET S : Cardinality(s) <= Cardinality(S) BY FS_Subset
  <2> QED BY <2>1
<1>6. f \in [SUBSET S -> A] /\ \A s \in SUBSET S : f[s] = Rhs(f, s) BY <1>4, <1>5
<1> QED BY <1>6 DEF Iterates

(* Whatever an iteration's steps keep, its value has.                      *)
LEMMA IterationKeeps ==
  ASSUME NEW S, IsFiniteSet(S), NEW A, NEW f, NEW pick,
         \A s \in SUBSET S : s # {} => pick[s] \in s,
         f[{}] \in A,
         \A s \in SUBSET S : s # {} /\ f[s \ {pick[s]}] \in A => f[s] \in A
  PROVE  \A s \in SUBSET S : f[s] \in A
<1> DEFINE K == {k \in Nat : \A s \in SUBSET S : Cardinality(s) = k => f[s] \in A}
<1>0. \A s \in SUBSET S : Cardinality(s) \in Nat /\ (Cardinality(s) = 0 <=> s = {})
  BY FS_Subset, FS_CardinalityType, FS_EmptySet
<1>1. 0 \in K BY <1>0
<1>2. ASSUME NEW k \in Nat, k \in K PROVE k + 1 \in K
  <2> SUFFICES ASSUME NEW s \in SUBSET S, Cardinality(s) = k + 1 PROVE f[s] \in A OBVIOUS
  <2>1. s # {} /\ pick[s] \in s BY <1>0
  <2>2. s \ {pick[s]} \in SUBSET S /\ Cardinality(s \ {pick[s]}) = k BY <2>1, OneLess
  <2>3. f[s \ {pick[s]}] \in A BY <1>2, <2>2
  <2> QED BY <2>1, <2>3
<1> HIDE DEF K
<1>3. Nat \subseteq K BY <1>1, <1>2, SetInduction
<1> QED BY <1>0, <1>3 DEF K

(***************************************************************************)
(* A fold over a sequence takes the largest index first off, so that its   *)
(* values at the prefixes 1..k are those of a loop after k rounds.         *)
(***************************************************************************)

(* A set of indices that is not empty has a largest one.                   *)
LEMMA MaxIsMember ==
  ASSUME NEW n \in Nat, NEW s \in SUBSET (1..n), s # {}
  PROVE  Max(s) \in s /\ \A y \in s : Max(s) >= y
<1> DEFINE K == {k \in 0..n : s \cap (1..k) # {} =>
                    \E x \in s \cap (1..k) : \A y \in s \cap (1..k) : x >= y}
<1>1. 0 \in K OBVIOUS
<1>2. ASSUME NEW k \in 1..n, k - 1 \in K PROVE k \in K
  <2>1. CASE k \in s
    <3>1. k \in s \cap (1..k) /\ \A y \in s \cap (1..k) : k >= y BY <2>1
    <3> QED BY <3>1
  <2>2. CASE k \notin s
    <3>1. s \cap (1..k) = s \cap (1..(k - 1)) BY <2>2
    <3> QED BY <1>2, <3>1
  <2> QED BY <2>1, <2>2
<1> HIDE DEF K
<1>3. 0..n \subseteq K BY <1>1, <1>2, UpToInduction
<1>4. n \in K BY <1>3
<1>5. \E x \in s : \A y \in s : x >= y
  <2>1. s \cap (1..n) = s OBVIOUS
  <2> QED BY <1>4, <2>1 DEF K
<1> QED BY <1>5 DEF Max

(* The largest index of a prefix is its last.                              *)
LEMMA MaxOfPrefix ==
  ASSUME NEW n \in Nat, NEW k \in 1..n
  PROVE  Max(1..k) = k /\ (1..k) \ {k} = 1..(k - 1) /\ 1..k # {}
         /\ 1..k \in SUBSET (1..n) /\ 1..(k - 1) \in SUBSET (1..n)
<1>1. k \in 1..k /\ 1..k \in SUBSET (1..n) OBVIOUS
<1>2. Max(1..k) \in 1..k /\ Max(1..k) >= k BY <1>1, MaxIsMember
<1> QED BY <1>1, <1>2

\* f is what FoldLeft makes of every set of indices.
Loops(f, n, base, step) ==
  \A s \in SUBSET (1..n) : f[s] = IF s = {} THEN base ELSE step[Max(s)][f[s \ {Max(s)}]]

(* What FoldLeft iterates over the indices exists.                         *)
LEMMA LoopExists ==
  ASSUME NEW n \in Nat, NEW A, NEW base \in A, NEW step \in [1..n -> [A -> A]]
  PROVE  \E f \in [SUBSET (1..n) -> A] : Loops(f, n, base, step)
<1> DEFINE S == 1..n
           pick == [s \in SUBSET S |-> Max(s)]
<1>1. IsFiniteSet(S) BY FS_Interval
<1>2. Picks(pick, S) BY MaxIsMember DEF Picks
<1>3. \A s \in SUBSET S : pick[s] = Max(s) OBVIOUS
<1>4. step \in [S -> [A -> A]] OBVIOUS
<1> HIDE DEF pick, S
<1>5. PICK f \in [SUBSET S -> A] : Iterates(f, S, base, step, pick)
  BY <1>1, <1>2, <1>4, IterationExists
<1>6. \A s \in SUBSET S : f[s] = IF s = {} THEN base ELSE step[Max(s)][f[s \ {Max(s)}]]
  BY <1>3, <1>5 DEF Iterates
<1> QED BY <1>6 DEF S, Loops

(***************************************************************************)
(* The sum of the values of a function.                                    *)
(***************************************************************************)
\* The element that a sum over s takes first.
Chosen(s) == CHOOSE x \in s : TRUE

\* iter is what a sum of w makes of every subset of S.
SumsUp(iter, S, w) ==
  /\ iter[{}] = 0
  /\ \A s \in SUBSET S : s # {} =>
       Chosen(s) \in s /\ Chosen(s) \in S /\ iter[s] = w[Chosen(s)] + iter[s \ {Chosen(s)}]

(* A sum is computed element by element.                                   *)
LEMMA SumIterates ==
  ASSUME NEW S, IsFiniteSet(S), NEW w \in [S -> Nat]
  PROVE  \E iter \in [SUBSET S -> Nat] :
           SumsUp(iter, S, w) /\ MapThenSumSet(LAMBDA x : w[x], S) = iter[S]
<1> DEFINE Rhs(f, s) == IF s = {} THEN 0 ELSE w[Chosen(s)] + f[s \ {Chosen(s)}]
           iter == CHOOSE f : f = [s \in SUBSET S |-> Rhs(f, s)]
           step == [x \in S |-> [a \in Nat |-> w[x] + a]]
           pick == [s \in SUBSET S |-> Chosen(s)]
<1>1. MapThenSumSet(LAMBDA x : w[x], S) = iter[S]
  BY Zenon DEF MapThenSumSet, MapThenFoldSet, Chosen
<1>2. step \in [S -> [Nat -> Nat]]
  <2>1. \A x \in S : w[x] \in Nat OBVIOUS
  <2> QED BY <2>1
<1>3. \A s \in SUBSET S : s # {} => Chosen(s) \in s BY DEF Chosen
<1>4. Picks(pick, S) /\ \A s \in SUBSET S : pick[s] = Chosen(s) BY <1>3 DEF Picks
<1> HIDE DEF step, pick
<1>5. PICK f \in [SUBSET S -> Nat] : Iterates(f, S, 0, step, pick)
  <2>1. 0 \in Nat OBVIOUS
  <2> QED BY <1>2, <1>4, <2>1, IterationExists, Zenon
<1>6. ASSUME NEW s \in SUBSET S PROVE f[s] = Rhs(f, s)
  <2>1. CASE s = {} BY <1>5, <2>1 DEF Iterates
  <2>2. CASE s # {}
    <3>1. f[s] = step[Chosen(s)][f[s \ {Chosen(s)}]] BY <1>4, <1>5, <2>2 DEF Iterates
    <3>2. Chosen(s) \in S /\ f[s \ {Chosen(s)}] \in Nat BY <1>3, <1>5, <2>2
    <3> QED BY <2>2, <3>1, <3>2 DEF step
  <2> QED BY <2>1, <2>2
<1>7. f = [s \in SUBSET S |-> Rhs(f, s)] BY <1>5, <1>6
<1>8. iter = [s \in SUBSET S |-> Rhs(iter, s)] BY <1>7, Zenon
<1> HIDE DEF iter
<1>9. SumsUp(iter, S, w)
  <2>1. iter[{}] = 0 BY <1>8
  <2>2. ASSUME NEW s \in SUBSET S, s # {}
        PROVE  Chosen(s) \in s /\ Chosen(s) \in S /\ iter[s] = w[Chosen(s)] + iter[s \ {Chosen(s)}]
    <3>1. iter[s] = Rhs(iter, s) BY <1>8, Zenon
    <3> QED BY <1>3, <2>2, <3>1
  <2> QED BY <2>1, <2>2 DEF SumsUp
<1>10. iter \in [SUBSET S -> Nat]
  <2>1. \A s \in SUBSET S : s # {} => pick[s] \in s BY <1>4 DEF Picks
  <2>2. iter[{}] \in Nat BY <1>9 DEF SumsUp
  <2>3. ASSUME NEW s \in SUBSET S, s # {}, iter[s \ {pick[s]}] \in Nat PROVE iter[s] \in Nat
    <3>1. iter[s] = w[Chosen(s)] + iter[s \ {pick[s]}] /\ Chosen(s) \in S
      BY <1>4, <1>9, <2>3 DEF SumsUp
    <3>2. w[Chosen(s)] \in Nat BY <3>1
    <3> QED BY <2>3, <3>1, <3>2
  <2>4. \A s \in SUBSET S : iter[s] \in Nat BY <2>1, <2>2, <2>3, IterationKeeps
  <2>5. iter = [s \in SUBSET S |-> iter[s]] BY <1>8, Zenon
  <2> QED BY <2>4, <2>5
<1> QED BY <1>1, <1>9, <1>10

(* A sum of naturals is a natural, no less than any of them.               *)
LEMMA SumOfNaturals ==
  ASSUME NEW S, IsFiniteSet(S), NEW w \in [S -> Nat]
  PROVE  /\ MapThenSumSet(LAMBDA x : w[x], S) \in Nat
         /\ \A x \in S : w[x] <= MapThenSumSet(LAMBDA y : w[y], S)
<1>1. PICK iter \in [SUBSET S -> Nat] :
        SumsUp(iter, S, w) /\ MapThenSumSet(LAMBDA x : w[x], S) = iter[S]
  BY SumIterates
<1> DEFINE above == [s \in SUBSET S |-> \A x \in s : w[x] <= iter[s]]
           pick  == [s \in SUBSET S |-> Chosen(s)]
<1>2. \A s \in SUBSET S : s # {} => pick[s] \in s BY <1>1 DEF SumsUp
<1>3. above[{}] \in {TRUE} OBVIOUS
<1>4. ASSUME NEW s \in SUBSET S, s # {}, above[s \ {pick[s]}] \in {TRUE}
      PROVE  above[s] \in {TRUE}
  <2> DEFINE x == Chosen(s)  r == s \ {Chosen(s)}
  <2>1. x \in S /\ iter[s] = w[x] + iter[r] BY <1>1, <1>4 DEF SumsUp
  <2>2. \A y \in r : w[y] <= iter[r] BY <1>4
  <2>3. iter[r] \in Nat /\ w[x] \in Nat BY <1>1, <2>1
  <2>4. \A y \in s : y \in S /\ w[y] \in Nat /\ (y = x \/ y \in r) OBVIOUS
  <2> HIDE DEF x, r
  <2>5. \A y \in s : w[y] <= iter[s] BY <2>1, <2>2, <2>3, <2>4
  <2> QED BY <2>5
<1> HIDE DEF above, pick
<1>5. \A s \in SUBSET S : above[s] \in {TRUE} BY <1>2, <1>3, <1>4, IterationKeeps
<1>6. \A x \in S : w[x] <= iter[S] BY <1>5 DEF above
<1>7. iter[S] \in Nat BY <1>1
<1> QED BY <1>1, <1>6, <1>7

(* What bounds every term bounds the sum.                                  *)
LEMMA SumsCompare ==
  ASSUME NEW S, IsFiniteSet(S), NEW w \in [S -> Nat], NEW v \in [S -> Nat], NEW k \in Nat,
         \A x \in S : w[x] <= k * v[x]
  PROVE  MapThenSumSet(LAMBDA x : w[x], S) <= k * MapThenSumSet(LAMBDA x : v[x], S)
<1>1. PICK i \in [SUBSET S -> Nat] :
        SumsUp(i, S, w) /\ MapThenSumSet(LAMBDA x : w[x], S) = i[S]
  BY SumIterates
<1>2. PICK j \in [SUBSET S -> Nat] :
        SumsUp(j, S, v) /\ MapThenSumSet(LAMBDA x : v[x], S) = j[S]
  BY SumIterates
<1> DEFINE below == [s \in SUBSET S |-> i[s] <= k * j[s]]
           pick  == [s \in SUBSET S |-> Chosen(s)]
<1>3. \A s \in SUBSET S : s # {} => pick[s] \in s BY <1>1 DEF SumsUp
<1>4. below[{}] \in {TRUE}
  <2>1. i[{}] = 0 /\ j[{}] = 0 BY <1>1, <1>2 DEF SumsUp
  <2>2. k * 0 = 0 /\ 0 <= 0 OBVIOUS
  <2>3. i[{}] <= k * j[{}] BY <2>1, <2>2
  <2> QED BY <2>3
<1>5. ASSUME NEW s \in SUBSET S, s # {}, below[s \ {pick[s]}] \in {TRUE}
      PROVE  below[s] \in {TRUE}
  <2> DEFINE x == Chosen(s)  r == s \ {Chosen(s)}
  <2>1. x \in S /\ i[s] = w[x] + i[r] /\ j[s] = v[x] + j[r] BY <1>1, <1>2, <1>5 DEF SumsUp
  <2>2. i[r] <= k * j[r] BY <1>5
  <2>3. i[r] \in Nat /\ w[x] \in Nat /\ j[r] \in Nat /\ v[x] \in Nat /\ w[x] <= k * v[x]
    BY <1>1, <1>2, <2>1
  <2> HIDE DEF x, r
  <2>4. k * (v[x] + j[r]) = k * v[x] + k * j[r] BY <2>3
  <2>5. k * v[x] \in Nat /\ k * j[r] \in Nat BY <2>3
  <2>6. w[x] + i[r] <= k * v[x] + k * j[r] BY <2>2, <2>3, <2>5
  <2>7. i[s] <= k * j[s] BY <2>1, <2>4, <2>6
  <2> QED BY <2>7
<1> HIDE DEF below, pick
<1>6. \A s \in SUBSET S : below[s] \in {TRUE} BY <1>3, <1>4, <1>5, IterationKeeps
<1>7. i[S] <= k * j[S] BY <1>6 DEF below
<1> QED BY <1>1, <1>2, <1>7

(* A finite set of naturals that is not empty has a largest one.           *)
LEMMA GreatestExists ==
  ASSUME NEW S \in SUBSET Nat, IsFiniteSet(S), S # {}
  PROVE  \E x \in S : \A y \in S : x >= y
<1> DEFINE w == [x \in S |-> x]
           bound == MapThenSumSet(LAMBDA x : w[x], S)
           T == {bound - x : x \in S}
<1>1. w \in [S -> Nat] OBVIOUS
<1>2. bound \in Nat /\ \A x \in S : x <= bound
  <2>1. \A x \in S : w[x] = x OBVIOUS
  <2> HIDE DEF w
  <2>2. bound \in Nat /\ \A x \in S : w[x] <= bound BY <1>1, SumOfNaturals
  <2> HIDE DEF bound
  <2> QED BY <2>1, <2>2
<1> HIDE DEF bound
<1>3. T \in SUBSET Nat /\ T # {}
  <2>1. ASSUME NEW x \in S PROVE bound - x \in Nat
    <3>1. x \in Nat /\ x <= bound BY <1>2
    <3> QED BY <1>2, <3>1
  <2> QED BY <2>1
<1>4. PICK m \in T : \A y \in T : m <= y
  <2> HIDE DEF T
  <2> QED BY <1>3, LeastExists
<1>5. PICK x \in S : m = bound - x BY <1>4
<1>6. ASSUME NEW y \in S PROVE x >= y
  <2>1. bound - y \in T OBVIOUS
  <2>2. m <= bound - y BY <1>4, <2>1
  <2> QED BY <1>2, <1>5, <2>2
<1> QED BY <1>6

(* As many terms, each of them bounded, bound the sum.                     *)
LEMMA SumIsBounded ==
  ASSUME NEW S, IsFiniteSet(S), NEW b \in Nat, NEW w \in [S -> 0..b]
  PROVE  MapThenSumSet(LAMBDA x : w[x], S) <= b * Cardinality(S)
<1>1. w \in [S -> Nat]
  <2>1. \A x \in S : w[x] \in Nat OBVIOUS
  <2> QED BY <2>1
<1>2. PICK i \in [SUBSET S -> Nat] :
        SumsUp(i, S, w) /\ MapThenSumSet(LAMBDA x : w[x], S) = i[S]
  BY <1>1, SumIterates
<1> DEFINE below == [s \in SUBSET S |-> i[s] <= b * Cardinality(s)]
           pick  == [s \in SUBSET S |-> Chosen(s)]
<1>3. \A s \in SUBSET S : s # {} => pick[s] \in s BY <1>2 DEF SumsUp
<1>4. below[{}] \in {TRUE}
  <2>1. i[{}] = 0 /\ Cardinality({}) = 0 BY <1>2, FS_EmptySet DEF SumsUp
  <2>2. b * 0 = 0 /\ 0 <= 0 OBVIOUS
  <2>3. i[{}] <= b * Cardinality({}) BY <2>1, <2>2
  <2> QED BY <2>3
<1>5. ASSUME NEW s \in SUBSET S, s # {}, below[s \ {pick[s]}] \in {TRUE}
      PROVE  below[s] \in {TRUE}
  <2> DEFINE x == Chosen(s)  r == s \ {Chosen(s)}  m == Cardinality(r)  n == Cardinality(s)
  <2>1. x \in s /\ x \in S /\ i[s] = w[x] + i[r] BY <1>2, <1>5 DEF SumsUp
  <2>2. m \in Nat /\ n \in Nat /\ m = n - 1
    <3> HIDE DEF x
    <3>1. /\ Cardinality(s) \in Nat /\ Cardinality(s \ {x}) \in Nat
          /\ Cardinality(s \ {x}) = Cardinality(s) - 1
      BY <2>1, OneLess
    <3> QED BY <3>1 DEF x
  <2>3. i[r] <= b * m BY <1>5
  <2>4. i[r] \in Nat /\ w[x] \in 0..b BY <1>2, <2>1
  <2> HIDE DEF x, r, m, n
  <2>5. b * n = b * m + b /\ b * m \in Nat
    <3>1. n = m + 1 BY <2>2
    <3> QED BY <2>2, <3>1
  <2>6. i[s] <= b * n BY <2>1, <2>3, <2>4, <2>5
  <2> QED BY <2>6 DEF n
<1> HIDE DEF below, pick
<1>6. \A s \in SUBSET S : below[s] \in {TRUE} BY <1>3, <1>4, <1>5, IterationKeeps
<1>7. i[S] <= b * Cardinality(S) BY <1>6 DEF below
<1> QED BY <1>2, <1>7

(* The image of a finite set is finite.                                    *)
LEMMA ImageIsFinite ==
  ASSUME NEW S, IsFiniteSet(S), NEW f
  PROVE  IsFiniteSet({f[x] : x \in S})
<1> DEFINE T == {f[x] : x \in S}  g == [x \in S |-> f[x]]
<1>1. g \in Surjection(S, T) BY DEF Surjection
<1> QED BY <1>1, FS_Surjection

\* A sum of w over S, and w without its term at x.
Summed(i, S, w) == i \in [SUBSET S -> Nat] /\ SumsUp(i, S, w)
Shortened(v, S, w, x) ==
  /\ IsFiniteSet(S) /\ w \in [S -> Nat] /\ x \in S
  /\ v \in [S \ {x} -> Nat] /\ \A y \in S \ {x} : v[y] = w[y]

(* A sum without one of its terms is less by that term, whichever the sum  *)
(* takes first.                                                            *)
LEMMA SumSplits ==
  ASSUME NEW S, NEW w, NEW x, NEW v, Shortened(v, S, w, x),
         NEW i, Summed(i, S, w), NEW j, Summed(j, S \ {x}, v)
  PROVE  i[S] = w[x] + j[S \ {x}]
<1> USE DEF Summed, Shortened
\* Any term can be taken off.
<1> DEFINE R == S \ {x}
           Splits(s) == \A y \in s : i[s] = w[y] + i[s \ {y}]
           K == {k \in Nat : \A s \in SUBSET S : Cardinality(s) = k => Splits(s)}
<1>3. 0 \in K
  <2>1. \A s \in SUBSET S : Cardinality(s) = 0 => s = {}
    BY FS_Subset, FS_EmptySet
  <2> QED BY <2>1
<1>4. ASSUME NEW k \in Nat, k \in K PROVE k + 1 \in K
  <2> SUFFICES ASSUME NEW s \in SUBSET S, Cardinality(s) = k + 1, NEW y \in s
               PROVE  i[s] = w[y] + i[s \ {y}]
    OBVIOUS
  <2> DEFINE c == Chosen(s)
  <2>1. c \in s /\ c \in S /\ i[s] = w[c] + i[s \ {c}] BY DEF SumsUp
  <2> HIDE DEF c
  <2>2. CASE y = c BY <2>1, <2>2
  <2>3. CASE y # c
    <3> DEFINE a == s \ {c}  b == s \ {y}
    <3>1. a \in SUBSET S /\ Cardinality(a) = k /\ y \in a BY <2>1, <2>3, OneLess
    <3>2. b \in SUBSET S /\ Cardinality(b) = k /\ c \in b BY <2>1, <2>3, OneLess
    <3>3. a \ {y} = b \ {c} /\ a \ {y} \in SUBSET S OBVIOUS
    <3>4. i[a] = w[y] + i[a \ {y}]
      <4> HIDE DEF a
      <4> QED BY <1>4, <3>1
    <3>5. i[b] = w[c] + i[b \ {c}]
      <4> HIDE DEF b
      <4> QED BY <1>4, <3>2
    <3>6. w[y] \in Nat /\ w[c] \in Nat /\ i[a \ {y}] \in Nat BY <2>1, <3>3
    <3> DEFINE z == i[a \ {y}]
    <3>7. i[a] = w[y] + z /\ i[b] = w[c] + z BY <3>3, <3>4, <3>5
    <3>8. i[s] = w[c] + i[a] BY <2>1
    <3> HIDE DEF z, a
    <3>9. i[s] = w[y] + i[b] BY <3>6, <3>7, <3>8 DEF z
    <3> QED BY <3>9
  <2> QED BY <2>2, <2>3
<1> HIDE DEF K
<1>5. Nat \subseteq K BY <1>3, <1>4, SetInduction
<1>6. Splits(S)
  <2>1. Cardinality(S) \in K BY <1>5, FS_CardinalityType
  <2> QED BY <2>1 DEF K
<1>7. i[S] = w[x] + i[R] BY <1>6
\* Where both sums are defined they agree.
<1> DEFINE same == [s \in SUBSET R |-> i[s] = j[s]]
           pick == [s \in SUBSET R |-> Chosen(s)]
<1>8. \A s \in SUBSET R : s # {} => pick[s] \in s BY DEF SumsUp
<1>9. same[{}] \in {TRUE} BY DEF SumsUp
<1>10. ASSUME NEW s \in SUBSET R, s # {}, same[s \ {pick[s]}] \in {TRUE}
       PROVE  same[s] \in {TRUE}
  <2>1. s \in SUBSET S /\ s \ {Chosen(s)} \in SUBSET R OBVIOUS
  <2>2. i[s] = w[Chosen(s)] + i[s \ {Chosen(s)}] BY <1>10, <2>1 DEF SumsUp
  <2>3. Chosen(s) \in R /\ j[s] = v[Chosen(s)] + j[s \ {Chosen(s)}]
    BY <1>10 DEF SumsUp
  <2>4. i[s \ {Chosen(s)}] = j[s \ {Chosen(s)}] BY <1>10, <2>1
  <2>5. v[Chosen(s)] = w[Chosen(s)] BY <2>3
  <2>6. i[s] = j[s] BY <2>2, <2>3, <2>4, <2>5
  <2> QED BY <2>6
<1>11. IsFiniteSet(R) BY FS_Subset
<1> HIDE DEF same, pick, R
<1>12. \A s \in SUBSET R : same[s] \in {TRUE} BY <1>8, <1>9, <1>10, <1>11, IterationKeeps
<1>13. i[R] = j[R] BY <1>12 DEF same
<1> QED BY <1>7, <1>13 DEF R

(* A sum over nothing is 0.                                                *)
LEMMA EmptySum ==
  ASSUME NEW w \in [{} -> Nat]
  PROVE  MapThenSumSet(LAMBDA y : w[y], {}) = 0
<1>1. IsFiniteSet({}) BY FS_EmptySet
<1>2. PICK i \in [SUBSET {} -> Nat] :
        SumsUp(i, {}, w) /\ MapThenSumSet(LAMBDA y : w[y], {}) = i[{}]
  BY <1>1, SumIterates
<1> QED BY <1>2 DEF SumsUp

(* Every "first of the best" exists: the least second key among the least  *)
(* first ones.                                                             *)
LEMMA FirstOfTheBest ==
  ASSUME NEW S, S # {}, NEW f \in [S -> Nat], NEW g \in [S -> Nat]
  PROVE  \E x \in S : \A y \in S : f[x] < f[y] \/ (f[x] = f[y] /\ g[x] <= g[y])
<1>1. PICK m \in {f[x] : x \in S} : \A k \in {f[x] : x \in S} : m <= k
  <2>1. {f[x] : x \in S} \in SUBSET Nat /\ {f[x] : x \in S} # {} OBVIOUS
  <2> QED BY <2>1, LeastExists
<1> DEFINE B == {x \in S : f[x] = m}
<1>2. PICK n \in {g[x] : x \in B} : \A k \in {g[x] : x \in B} : n <= k
  <2>1. {g[x] : x \in B} \in SUBSET Nat /\ {g[x] : x \in B} # {} BY <1>1
  <2> HIDE DEF B
  <2> QED BY <2>1, LeastExists
<1>3. PICK x \in B : g[x] = n BY <1>2
<1>4. \A y \in S : m <= f[y] BY <1>1
<1>5. \A y \in S : f[y] = m => n <= g[y] BY <1>2
<1> QED BY <1>3, <1>4, <1>5
=============================================================================
