---------------------------- MODULE DataInduction ----------------------------
(***************************************************************************)
(* Induction over data, for the proofs of the other modules: on the natural *)
(* numbers, on finite sets, and what the sum over a finite set is that the  *)
(* community modules define by a fold.  The statements are about sets, not  *)
(* predicates: an induction names the set of the values that have its       *)
(* property.                                                                *)
(***************************************************************************)
EXTENDS Integers, FiniteSets, FiniteSetsExt, FiniteSetTheorems, WellFoundedInduction, TLAPS

\* Every set of natural numbers that is not empty has a least member.
LEMMA LeastNat ==
    ASSUME NEW T \in SUBSET Nat, T # {}
    PROVE  \E x \in T : \A y \in T : x <= y
<1> DEFINE R == OpToRel(<, Nat)
<1>1. IsWellFoundedOn(R, Nat)  BY NatLessThanWellFounded
<1>2. \A y \in Nat, x \in Nat : y < x => <<y, x>> \in R  BY DEF OpToRel
<1> HIDE DEF R
<1>3. PICK x \in T : \A y \in T : ~ (<<y, x>> \in R)  BY <1>1, WFMin
<1>4. \A y \in T : ~ (y < x)  BY <1>2, <1>3, Zenon
<1>5. \A y \in T : x <= y  BY <1>4, SMT
<1> QED  BY <1>5

LEMMA NatSetInduction ==
    ASSUME NEW T \in SUBSET Nat, 0 \in T, \A n \in T : n + 1 \in T
    PROVE  T = Nat
<1> SUFFICES ASSUME Nat \ T # {} PROVE FALSE  OBVIOUS
<1>1. PICK x \in Nat \ T : \A y \in Nat \ T : x <= y  BY LeastNat, Nat \ T \in SUBSET Nat
<1>2. x - 1 \in T  BY <1>1
<1> QED  BY <1>1, <1>2

-----------------------------------------------------------------------------
(* Folds.                                                                   *)

\* The function on the subsets of a finite set that a fold takes its value from
\* exists, whatever member each subset gives up first.
IsFold(f, base, step, pick, S) ==
    \A s \in SUBSET S : f[s] = IF s = {} THEN base ELSE step[pick[s]][f[s \ {pick[s]}]]

FoldInput(S, A, base, step, pick) ==
    /\ IsFiniteSet(S) /\ base \in A /\ step \in [S -> [A -> A]]
    /\ \A s \in SUBSET S : s # {} => pick[s] \in s

LEMMA FoldExists ==
    ASSUME NEW S, NEW A, NEW base, NEW step, NEW pick, FoldInput(S, A, base, step, pick)
    PROVE  \E f \in [SUBSET S -> A] : IsFold(f, base, step, pick, S)
<1> DEFINE Body(f, s) == IF s = {} THEN base ELSE step[pick[s]][f[s \ {pick[s]}]]
           Good(f, n) == \A s \in SUBSET S : Cardinality(s) <= n => f[s] = Body(f, s)
           N == {n \in Nat : \E f \in [SUBSET S -> A] : Good(f, n)}
<1> IsFiniteSet(S) /\ base \in A /\ step \in [S -> [A -> A]]  BY DEF FoldInput
<1> \A s \in SUBSET S : s # {} => pick[s] \in s  BY DEF FoldInput
<1>1. \A s \in SUBSET S : IsFiniteSet(s) /\ Cardinality(s) \in Nat  BY FS_Subset, FS_CardinalityType
<1>2. \A s \in SUBSET S : s # {} =>
        /\ pick[s] \in S /\ s \ {pick[s]} \in SUBSET S
        /\ Cardinality(s \ {pick[s]}) = Cardinality(s) - 1
 <2> SUFFICES ASSUME NEW s \in SUBSET S, s # {}
              PROVE  /\ pick[s] \in S /\ s \ {pick[s]} \in SUBSET S
                     /\ Cardinality(s \ {pick[s]}) = Cardinality(s) - 1
   OBVIOUS
 <2>1. pick[s] \in s  OBVIOUS
 <2>2. Cardinality(s \ {pick[s]}) = Cardinality(s) - 1  BY <1>1, <2>1, FS_RemoveElement
 <2> QED  BY <2>1, <2>2
<1>3. ASSUME NEW f \in [SUBSET S -> A], NEW s \in SUBSET S
      PROVE  Body(f, s) \in A
 <2>1. CASE s = {}  BY <2>1
 <2>2. CASE s # {}
  <3>1. pick[s] \in S /\ f[s \ {pick[s]}] \in A  BY <1>2, <2>2
  <3> QED  BY <2>2, <3>1
 <2> QED  BY <2>1, <2>2
<1>4. 0 \in N
 <2>1. \A s \in SUBSET S : Cardinality(s) <= 0 => s = {}  BY <1>1, FS_EmptySet
 <2> DEFINE z == [s \in SUBSET S |-> base]
 <2>2. z \in [SUBSET S -> A] /\ Good(z, 0)  BY <2>1
 <2> QED  BY <2>2
<1>5. ASSUME NEW n \in N PROVE n + 1 \in N
 <2>1. PICK f \in [SUBSET S -> A] : Good(f, n)  OBVIOUS
 <2> DEFINE g == [s \in SUBSET S |-> Body(f, s)]
 <2>2. g \in [SUBSET S -> A]  BY <1>3
 <2>3. ASSUME NEW s \in SUBSET S, Cardinality(s) <= n + 1
       PROVE  g[s] = Body(g, s)
  <3>1. CASE s = {}  BY <3>1
  <3>2. CASE s # {}
   <4> DEFINE r == s \ {pick[s]}
   <4>1. r \in SUBSET S /\ Cardinality(r) <= n  BY <1>1, <1>2, <2>3, <3>2
   <4>2. g[r] = f[r]  BY <2>1, <4>1
   <4> HIDE DEF g
   <4>3. Body(g, s) = step[pick[s]][g[r]]  BY <3>2
   <4>4. Body(f, s) = step[pick[s]][f[r]]  BY <3>2
   <4> QED  BY <4>2, <4>3, <4>4 DEF g
  <3> QED  BY <3>1, <3>2
 <2> HIDE DEF g
 <2>4. Good(g, n + 1)  BY <2>3
 <2>5. n + 1 \in Nat  OBVIOUS
 <2> HIDE DEF Good
 <2> QED  BY <2>2, <2>4, <2>5
<1>9. N \in SUBSET Nat  OBVIOUS
<1> HIDE DEF N
<1>6. Cardinality(S) \in N
 <2>1. N = Nat  BY <1>4, <1>5, <1>9, NatSetInduction
 <2> QED  BY <1>1, <2>1
<1>7. PICK f \in [SUBSET S -> A] : Good(f, Cardinality(S))  BY <1>6 DEF N
<1>8. \A s \in SUBSET S : f[s] = Body(f, s)  BY <1>1, <1>7, FS_Subset
<1> QED  BY <1>7, <1>8 DEF IsFold

-----------------------------------------------------------------------------
(* Places 1 .. n, one after the other.                                      *)

LEMMA MaxIsLast ==
    ASSUME NEW n \in Nat, NEW t \in SUBSET (1 .. n), t # {}
    PROVE  Max(t) \in t /\ \A x \in t : x <= Max(t)
<1> DEFINE Rest == {y \in Nat : n - y \in t}
<1>0. \A x \in t : x \in Int /\ n - x \in Nat /\ n - (n - x) = x  OBVIOUS
<1>1. Rest \in SUBSET Nat /\ Rest # {}  BY <1>0
<1>2. PICK y \in Rest : \A z \in Rest : y <= z  BY <1>1, LeastNat
<1>3. PICK x \in t : x = n - y  OBVIOUS
<1>4. \A z \in t : x >= z
 <2> SUFFICES ASSUME NEW z \in t PROVE x >= z  OBVIOUS
 <2>1. n - z \in Rest  BY <1>0
 <2>2. y <= n - z  BY <1>2, <2>1
 <2> QED  BY <1>0, <1>3, <2>2
<1> QED  BY <1>3, <1>4 DEF Max

LEMMA MaxOfInterval ==
    ASSUME NEW n \in Nat, NEW k \in 1 .. n
    PROVE  /\ (1 .. k) \in SUBSET (1 .. n) /\ (1 .. k) # {}
           /\ Max(1 .. k) = k /\ (1 .. k) \ {k} = 1 .. (k - 1)
<1> DEFINE t == 1 .. k
<1>1. t \in SUBSET (1 .. n) /\ t # {} /\ k \in t /\ \A x \in t : x <= k  OBVIOUS
<1>2. Max(t) \in t /\ k <= Max(t)  BY <1>1, MaxIsLast
<1>3. Max(t) = k  BY <1>1, <1>2
<1>4. (1 .. k) \ {k} = 1 .. (k - 1)  OBVIOUS
<1> QED  BY <1>1, <1>3, <1>4

\* A function on 0 .. N that is defined from its value at 0 by one step after the
\* other exists.
IsRecursion(h, N, base, step) ==
    h[0] = base /\ \A n \in 1 .. N : h[n] = step[n][h[n - 1]]

RecursionInput(N, A, base, step) ==
    N \in Nat /\ base \in A /\ step \in [1 .. N -> [A -> A]]

LEMMA RecursionExists ==
    ASSUME NEW N, NEW A, NEW base, NEW step, RecursionInput(N, A, base, step)
    PROVE  \E h \in [0 .. N -> A] : IsRecursion(h, N, base, step)
<1> N \in Nat /\ base \in A /\ step \in [1 .. N -> [A -> A]]  BY DEF RecursionInput
<1> DEFINE pick == [t \in SUBSET (1 .. N) |-> Max(t)]
<1>1. \A t \in SUBSET (1 .. N) : t # {} => pick[t] = Max(t) /\ Max(t) \in t  BY MaxIsLast
<1>2. IsFiniteSet(1 .. N)  BY FS_Interval
<1> HIDE DEF pick
<1>3. FoldInput(1 .. N, A, base, step, pick)  BY <1>1, <1>2 DEF FoldInput
<1>4. PICK f \in [SUBSET (1 .. N) -> A] : IsFold(f, base, step, pick, 1 .. N)  BY <1>3, FoldExists
<1> DEFINE h == [n \in 0 .. N |-> f[1 .. n]]
<1>5. h \in [0 .. N -> A]
 <2>1. \A n \in 0 .. N : (1 .. n) \in SUBSET (1 .. N)  OBVIOUS
 <2> QED  BY <2>1
<1>6. h[0] = base
 <2>1. 1 .. 0 = {} /\ 0 \in 0 .. N  OBVIOUS
 <2>2. f[{}] = base  BY <1>4 DEF IsFold
 <2> QED  BY <2>1, <2>2
<1>7. ASSUME NEW n \in 1 .. N
      PROVE  h[n] = step[n][h[n - 1]]
 <2>1. /\ (1 .. n) \in SUBSET (1 .. N) /\ (1 .. n) # {}
       /\ Max(1 .. n) = n /\ (1 .. n) \ {n} = 1 .. (n - 1)
   BY MaxOfInterval
 <2>2. h[n] = f[1 .. n] /\ h[n - 1] = f[1 .. (n - 1)]  OBVIOUS
 <2> DEFINE t == 1 .. n
 <2>3. t \in SUBSET (1 .. N) /\ t # {} /\ Max(t) = n /\ t \ {n} = 1 .. (n - 1)  BY <2>1
 <2>4. h[n] = f[t]  BY <2>2
 <2> HIDE DEF t, h
 <2>5. f[t] = step[pick[t]][f[t \ {pick[t]}]]  BY <1>4, <2>3 DEF IsFold
 <2>6. pick[t] = n  BY <1>1, <2>3
 <2> QED  BY <2>2, <2>3, <2>4, <2>5, <2>6
<1> QED  BY <1>5, <1>6, <1>7 DEF IsRecursion

-----------------------------------------------------------------------------
(* Sums.                                                                    *)

SumOver(t, S) == MapThenSumSet(LAMBDA p : t[p], S)

Choice(s) == CHOOSE x \in s : TRUE

\* The equation of the fold, for a function of the subsets.
IsSum(f, t, S) ==
    f = [s \in SUBSET S |-> IF s = {} THEN 0 ELSE t[Choice(s)] + f[s \ {Choice(s)}]]

LEMMA SumOverIsSum ==
    ASSUME NEW t, NEW S
    PROVE  SumOver(t, S) = (CHOOSE f : IsSum(f, t, S))[S]
  BY DEF SumOver, MapThenSumSet, MapThenFoldSet, IsSum, Choice

LEMMA ChoiceIn ==
    ASSUME NEW s, s # {}
    PROVE  Choice(s) \in s
  BY DEF Choice

\* A family of sets that has {}, and has s when it has s without its chosen member,
\* has every subset of a finite set.
LEMMA ChoiceInduction ==
    ASSUME NEW S, IsFiniteSet(S), NEW F, {} \in F,
           \A s \in SUBSET S : s # {} /\ s \ {Choice(s)} \in F => s \in F
    PROVE  \A s \in SUBSET S : s \in F
<1> DEFINE N == {n \in Nat : \A s \in SUBSET S : Cardinality(s) = n => s \in F}
<1>1. \A s \in SUBSET S : IsFiniteSet(s) /\ Cardinality(s) \in Nat  BY FS_Subset, FS_CardinalityType
<1>2. 0 \in N  BY <1>1, FS_EmptySet
<1>3. ASSUME NEW n \in N, NEW s \in SUBSET S, Cardinality(s) = n + 1
      PROVE  s \in F
 <2>1. n \in Nat  OBVIOUS
 <2>2. s # {}  BY <1>3, <2>1, FS_EmptySet
 <2>3. Choice(s) \in s  BY <2>2, ChoiceIn
 <2>4. Cardinality(s \ {Choice(s)}) = Cardinality(s) - 1  BY <1>1, <2>3, FS_RemoveElement
 <2>5. Cardinality(s \ {Choice(s)}) = n  BY <1>3, <2>1, <2>4
 <2>6. s \ {Choice(s)} \in F  BY <2>5
 <2> QED  BY <2>2, <2>6
<1>4. \A n \in N : n + 1 \in N  BY <1>3
<1> HIDE DEF N
<1>5. N = Nat  BY <1>2, <1>4, NatSetInduction DEF N
<1> QED  BY <1>1, <1>5 DEF N

LEMMA SumExists ==
    ASSUME NEW S, IsFiniteSet(S), NEW t \in [S -> Int]
    PROVE  \E f \in [SUBSET S -> Int] : IsSum(f, t, S)
<1> DEFINE step == [x \in S |-> [a \in Int |-> t[x] + a]]
           pick == [s \in (SUBSET S) \ {{}} |-> Choice(s)]
<1>1. step \in [S -> [Int -> Int]] /\ \A x \in S, a \in Int : step[x][a] = t[x] + a  OBVIOUS
<1>3. \A s \in SUBSET S : s # {} => pick[s] \in s  BY ChoiceIn
<1>4. \A s \in SUBSET S : s # {} => pick[s] = Choice(s) /\ Choice(s) \in S  BY ChoiceIn
<1> HIDE DEF step, pick
<1>8. FoldInput(S, Int, 0, step, pick)  BY <1>1, <1>3 DEF FoldInput
<1>5. PICK f \in [SUBSET S -> Int] : IsFold(f, 0, step, pick, S)  BY <1>8, FoldExists
<1>6. ASSUME NEW s \in SUBSET S, s # {}
      PROVE  f[s] = t[Choice(s)] + f[s \ {Choice(s)}]
 <2>1. f[s] = step[pick[s]][f[s \ {pick[s]}]]  BY <1>5, <1>6 DEF IsFold
 <2> QED  BY <1>1, <1>4, <1>6, <2>1
<1>7. f = [s \in SUBSET S |-> IF s = {} THEN 0 ELSE t[Choice(s)] + f[s \ {Choice(s)}]]
  BY <1>5, <1>6 DEF IsFold
<1> QED  BY <1>7 DEF IsSum

\* The function the fold takes its value from, and its equation.
Summed(t, S) == CHOOSE f : IsSum(f, t, S)

LEMMA SummedEquation ==
    ASSUME NEW S, IsFiniteSet(S), NEW t \in [S -> Int]
    PROVE  /\ Summed(t, S)[{}] = 0
           /\ \A s \in SUBSET S : s # {} =>
                 Summed(t, S)[s] = t[Choice(s)] + Summed(t, S)[s \ {Choice(s)}]
<1> DEFINE f == Summed(t, S)
<1>1. IsSum(f, t, S)  BY SumExists DEF Summed
<1> HIDE DEF f
<1>2. \A s \in SUBSET S :
        f[s] = IF s = {} THEN 0 ELSE t[Choice(s)] + f[s \ {Choice(s)}]
  BY <1>1 DEF IsSum
<1>3. f[{}] = 0 /\ \A s \in SUBSET S : s # {} => f[s] = t[Choice(s)] + f[s \ {Choice(s)}]  BY <1>2
<1> QED  BY <1>3 DEF f

LEMMA SumOverType ==
    ASSUME NEW S, IsFiniteSet(S), NEW t \in [S -> Nat]
    PROVE  SumOver(t, S) \in Nat
<1> DEFINE f == Summed(t, S)
           F == {s \in SUBSET S : f[s] \in Nat}
<1>1. /\ f[{}] = 0
      /\ \A s \in SUBSET S : s # {} => f[s] = t[Choice(s)] + f[s \ {Choice(s)}]
  BY SummedEquation
<1> HIDE DEF f
<1>2. {} \in F  BY <1>1
<1>3. ASSUME NEW s \in SUBSET S, s # {}, s \ {Choice(s)} \in F
      PROVE  s \in F
 <2>1. t[Choice(s)] \in Nat  BY <1>3, ChoiceIn
 <2>2. f[s] = t[Choice(s)] + f[s \ {Choice(s)}] /\ f[s \ {Choice(s)}] \in Nat  BY <1>1, <1>3
 <2>3. f[s] \in Nat  BY <2>1, <2>2
 <2> QED  BY <2>3
<1> HIDE DEF F
<1>4. S \in F  BY <1>2, <1>3, ChoiceInduction
<1> QED  BY <1>4, SumOverIsSum DEF F, f, Summed

\* The sum of a function that differs at one place.
LEMMA SumOverUpdate ==
    ASSUME NEW S, IsFiniteSet(S), NEW t \in [S -> Int], NEW u \in [S -> Int],
           NEW p \in S, \A x \in S \ {p} : u[x] = t[x]
    PROVE  SumOver(u, S) = SumOver(t, S) + u[p] - t[p]
<1> DEFINE f == Summed(t, S)
           g == Summed(u, S)
           Differ(s) == IF p \in s THEN u[p] - t[p] ELSE 0
           F == {s \in SUBSET S : f[s] \in Int /\ g[s] = f[s] + Differ(s)}
<1>1. \A x \in S \ {p} : u[x] = t[x]  OBVIOUS
<1>2. /\ f[{}] = 0
      /\ \A s \in SUBSET S : s # {} => f[s] = t[Choice(s)] + f[s \ {Choice(s)}]
  BY SummedEquation
<1>3. /\ g[{}] = 0
      /\ \A s \in SUBSET S : s # {} => g[s] = u[Choice(s)] + g[s \ {Choice(s)}]
  BY SummedEquation
<1> HIDE DEF f, g
<1>4. {} \in F  BY <1>2, <1>3
<1>5. ASSUME NEW s \in SUBSET S, s # {}, s \ {Choice(s)} \in F
      PROVE  s \in F
 <2> DEFINE c == Choice(s)
            r == s \ {c}
 <2>1. c \in s /\ c \in S /\ t[c] \in Int /\ t[p] \in Int /\ u[p] \in Int  BY <1>5, ChoiceIn
 <2>2. f[r] \in Int /\ g[r] = f[r] + Differ(r)  BY <1>5
 <2>3. f[s] = t[c] + f[r] /\ g[s] = u[c] + g[r]  BY <1>2, <1>3, <1>5
 <2>4. CASE c = p
  <3>1. Differ(r) = 0 /\ Differ(s) = u[p] - t[p]  BY <2>1, <2>4
  <3> QED  BY <1>1, <2>1, <2>2, <2>3, <2>4, <3>1
 <2>5. CASE c # p
  <3>1. Differ(r) = Differ(s) /\ Differ(s) \in Int  BY <2>1, <2>5
  <3> QED  BY <1>1, <2>1, <2>2, <2>3, <2>5, <3>1
 <2> QED  BY <2>4, <2>5
<1> HIDE DEF F
<1>6. S \in F  BY <1>4, <1>5, ChoiceInduction
<1>7. f[S] \in Int /\ g[S] = f[S] + (u[p] - t[p])  BY <1>6 DEF F
<1>8. SumOver(t, S) = f[S] /\ SumOver(u, S) = g[S]  BY SumOverIsSum DEF f, g, Summed
<1>9. u[p] \in Int /\ t[p] \in Int  OBVIOUS
<1> QED  BY <1>7, <1>8, <1>9

LEMMA SumOverZero ==
    ASSUME NEW S, IsFiniteSet(S)
    PROVE  SumOver([p \in S |-> 0], S) = 0
<1> DEFINE t == [p \in S |-> 0]
           f == Summed(t, S)
           F == {s \in SUBSET S : f[s] = 0}
<1>1. t \in [S -> Int] /\ \A x \in S : t[x] = 0  OBVIOUS
<1> HIDE DEF t
<1>2. /\ f[{}] = 0
      /\ \A s \in SUBSET S : s # {} => f[s] = t[Choice(s)] + f[s \ {Choice(s)}]
  BY <1>1, SummedEquation
<1> HIDE DEF f
<1>3. {} \in F  BY <1>2
<1>4. ASSUME NEW s \in SUBSET S, s # {}, s \ {Choice(s)} \in F
      PROVE  s \in F
 <2>1. t[Choice(s)] = 0  BY <1>1, <1>4, ChoiceIn
 <2>2. f[s] = t[Choice(s)] + f[s \ {Choice(s)}] /\ f[s \ {Choice(s)}] = 0  BY <1>2, <1>4
 <2>3. f[s] = 0  BY <2>1, <2>2
 <2> QED  BY <2>3
<1> HIDE DEF F
<1>5. S \in F  BY <1>3, <1>4, ChoiceInduction
<1> QED  BY <1>5, SumOverIsSum DEF F, f, t, Summed
=============================================================================
