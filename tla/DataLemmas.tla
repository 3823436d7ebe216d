----------------------------- MODULE DataLemmas -----------------------------
(***************************************************************************)
(* Lemmas about data for the proofs of this project: induction over the    *)
(* natural numbers and over finite sets, functions defined by recursion,   *)
(* sums over finite sets, and lists, sequences that hold nothing twice.    *)
(*                                                                         *)
(* The induction theorems of the library take an operator as a parameter,  *)
(* which no prover here instantiates.  That a well-founded relation has    *)
(* minimal elements is a theorem about sets, and induction follows from it *)
(* in the form "a set with 0 that is closed under successor holds Nat".    *)
(***************************************************************************)
EXTENDS Integers, Sequences, SequencesExt, FiniteSetsExt, Functions,
        SequenceTheorems, FiniteSetTheorems, WellFoundedInduction, TLAPS

-----------------------------------------------------------------------------
(* Induction.                                                              *)

\* A set that holds 0 and with n also n + 1 holds all natural numbers.
LEMMA NatSetInduction ==
    ASSUME NEW S, 0 \in S, \A n \in Nat : n \in S => n + 1 \in S
    PROVE  Nat \subseteq S
<1> SUFFICES ASSUME Nat \ S # {} PROVE FALSE
    OBVIOUS
<1>1. PICK x \in Nat \ S : \A y \in Nat \ S : ~(<<y, x>> \in OpToRel(<, Nat))
    BY NatLessThanWellFounded, WFMin
<1>2. \A y \in Nat \ S : ~(y < x)
    BY <1>1 DEF OpToRel
<1> QED BY <1>2

\* A set of natural numbers that is not empty has a least element.
LEMMA LeastNumber ==
    ASSUME NEW S \in SUBSET Nat, S # {}
    PROVE  Min(S) \in S /\ \A y \in S : Min(S) <= y
<1>1. PICK x \in S : \A y \in S : ~(<<y, x>> \in OpToRel(<, Nat))
    BY NatLessThanWellFounded, WFMin
<1>2. \A y \in S : x <= y
    <2> SUFFICES ASSUME NEW y \in S PROVE x <= y
        OBVIOUS
    <2>1. x \in Nat /\ y \in Nat
        OBVIOUS
    <2>2. ~(y < x)
        BY <1>1, <2>1 DEF OpToRel
    <2> QED BY <2>1, <2>2
<1> QED BY <1>2 DEF Min

\* A set of numbers up to n that is not empty has a greatest element.
LEMMA GreatestNumber ==
    ASSUME NEW n \in Nat, NEW S \in SUBSET (1..n), S # {}
    PROVE  Max(S) \in S /\ \A y \in S : y <= Max(S)
<1> DEFINE T == {n - x : x \in S}
<1>1. T \in SUBSET Nat /\ T # {}
    <2>1. \A x \in S : x \in 1..n
        OBVIOUS
    <2>2. \A x \in S : n - x \in Nat
        BY <2>1
    <2> QED BY <2>2
<1>2. Min(T) \in T /\ \A y \in T : Min(T) <= y
    BY <1>1, LeastNumber
<1>3. PICK x \in S : Min(T) = n - x
    BY <1>2
<1>4. \A y \in S : y <= x
    <2> SUFFICES ASSUME NEW y \in S PROVE y <= x
        OBVIOUS
    <2>1. n - y \in T /\ x \in Nat /\ y \in Nat
        OBVIOUS
    <2>2. n - x <= n - y
        BY <1>2, <1>3, <2>1
    <2> QED BY <2>1, <2>2
<1>5. \E z \in S : \A y \in S : z >= y
    BY <1>4
<1> QED BY <1>5 DEF Max

\* A collection with every subset of a finite set all whose proper subsets are
\* in it holds all subsets.
LEMMA SubsetInduction ==
    ASSUME NEW S, IsFiniteSet(S), NEW C,
           \A T \in SUBSET S : (\A U \in SUBSET T : U # T => U \in C) => T \in C
    PROVE  SUBSET S \subseteq C
<1> DEFINE Bad == {T \in SUBSET S : T \notin C}
<1> SUFFICES ASSUME Bad # {} PROVE FALSE
    OBVIOUS
<1>1. Bad \subseteq FiniteSubsetsOf(S)
    BY FS_Subset DEF FiniteSubsetsOf
<1>2. PICK T \in Bad : \A U \in Bad : ~(<<U, T>> \in StrictSubsetOrdering(S))
    <2>1. IsWellFoundedOn(StrictSubsetOrdering(S), FiniteSubsetsOf(S))
        BY FS_StrictSubsetOrderingWellFounded
    <2> HIDE DEF Bad
    <2> QED BY <1>1, <2>1, WFMin
<1>3. \A U \in SUBSET T : U # T => U \notin Bad
    BY <1>2 DEF StrictSubsetOrdering
<1> QED BY <1>3

\* A collection that holds {} and is closed under adding an element holds every
\* finite set.
LEMMA FiniteSetInduction ==
    ASSUME NEW S, IsFiniteSet(S), NEW C, {} \in C,
           \A T \in SUBSET S : \A x \in S \ T : T \in C => T \cup {x} \in C
    PROVE  S \in C
<1> SUFFICES ASSUME NEW T \in SUBSET S, \A U \in SUBSET T : U # T => U \in C
             PROVE  T \in C
    BY SubsetInduction
<1>1. CASE T = {}
    BY <1>1
<1>2. CASE T # {}
    <2>1. PICK x \in T : TRUE
        BY <1>2
    <2>2. T \ {x} \in SUBSET S /\ x \in S \ (T \ {x}) /\ T \ {x} \in C
        BY <2>1
    <2>3. T = (T \ {x}) \cup {x}
        BY <2>1
    <2> QED BY <2>2, <2>3
<1> QED BY <1>1, <1>2

-----------------------------------------------------------------------------
(* Recursion over the subsets of a finite set.                             *)

\* it is the function on the subsets of S that starts with base and takes the
\* element pick[s] of s in each step.
IsFold(it, S, base, step, pick) ==
    it = [s \in SUBSET S |->
             IF s = {} THEN base ELSE step[<<pick[s], it[s \ {pick[s]}]>>]]

\* Two such functions, for S and for a part of it, agree where both are defined.
LEMMA FoldUnique ==
    ASSUME NEW S, IsFiniteSet(S), NEW T \in SUBSET S, NEW base, NEW step, NEW pick,
           \A s \in SUBSET S : s # {} => pick[s] \in s,
           NEW g, IsFold(g, T, base, step, pick),
           NEW h, IsFold(h, S, base, step, pick)
    PROVE  \A s \in SUBSET T : g[s] = h[s]
<1> DEFINE C == {s \in SUBSET T : g[s] = h[s]}
<1> SUFFICES ASSUME NEW s \in SUBSET T, \A u \in SUBSET s : u # s => u \in C
             PROVE  s \in C
    <2>1. IsFiniteSet(T)
        BY FS_Subset
    <2> HIDE DEF C
    <2>2. SUBSET T \subseteq C
        BY <2>1, SubsetInduction
    <2> QED BY <2>2 DEF C
<1>1. s # {} => s \ {pick[s]} \in C
    OBVIOUS
<1>2. /\ g[s] = IF s = {} THEN base ELSE step[<<pick[s], g[s \ {pick[s]}]>>]
      /\ h[s] = IF s = {} THEN base ELSE step[<<pick[s], h[s \ {pick[s]}]>>]
    BY Zenon DEF IsFold
<1> QED BY <1>1, <1>2

\* There is such a function.
LEMMA FoldExists ==
    ASSUME NEW S, IsFiniteSet(S), NEW base, NEW step, NEW pick,
           \A s \in SUBSET S : s # {} => pick[s] \in s
    PROVE  \E it : IsFold(it, S, base, step, pick)
<1> DEFINE Has(T) == \E it : IsFold(it, T, base, step, pick)
           C == {T \in SUBSET S : Has(T)}
           F(T) == CHOOSE it : IsFold(it, T, base, step, pick)
<1> SUFFICES ASSUME NEW T \in SUBSET S, \A U \in SUBSET T : U # T => U \in C
             PROVE  Has(T)
    <2> HIDE DEF Has
    <2>1. \A T \in SUBSET S : (\A U \in SUBSET T : U # T => U \in C) => T \in C
        BY Zenon
    <2> HIDE DEF C
    <2>2. SUBSET S \subseteq C
        BY <2>1, SubsetInduction
    <2>3. S \in C
        BY <2>2
    <2> QED BY <2>3 DEF C, Has
<1> DEFINE h == [s \in SUBSET T |->
                    IF s = {} THEN base
                    ELSE step[<<pick[s], F(s \ {pick[s]})[s \ {pick[s]}]>>]]
<1>1. ASSUME NEW u \in SUBSET T, u # T PROVE h[u] = F(u)[u]
    <2>1. IsFold(F(u), u, base, step, pick)
        BY <1>1, Zenon
    <2>2. F(u)[u] = IF u = {} THEN base ELSE step[<<pick[u], F(u)[u \ {pick[u]}]>>]
        BY <2>1, Zenon DEF IsFold
    <2>3. ASSUME u # {} PROVE F(u)[u \ {pick[u]}] = F(u \ {pick[u]})[u \ {pick[u]}]
        <3> DEFINE v == u \ {pick[u]}
        <3>1. v \in SUBSET u /\ v \in SUBSET T /\ v # T /\ IsFiniteSet(u)
            BY <1>1, FS_Subset
        <3>2. IsFold(F(v), v, base, step, pick)
            BY <3>1, Zenon
        <3>3. \A s \in SUBSET u : s # {} => pick[s] \in s
            OBVIOUS
        <3> HIDE DEF v, F
        <3>4. \A s \in SUBSET v : F(v)[s] = F(u)[s]
            BY <2>1, <3>1, <3>2, <3>3, FoldUnique
        <3> QED BY <3>4 DEF v
    <2>4. h[u] = IF u = {} THEN base ELSE step[<<pick[u], F(u \ {pick[u]})[u \ {pick[u]}]>>]
        BY Zenon
    <2> HIDE DEF h, F
    <2> QED BY <2>2, <2>3, <2>4
<1>2. ASSUME NEW s \in SUBSET T, s # {}
      PROVE  h[s \ {pick[s]}] = F(s \ {pick[s]})[s \ {pick[s]}]
    <2>1. s \ {pick[s]} \in SUBSET T /\ s \ {pick[s]} # T
        BY <1>2
    <2> QED BY <1>1, <2>1
<1>3. h = [s \in SUBSET T |-> IF s = {} THEN base ELSE step[<<pick[s], h[s \ {pick[s]}]>>]]
    <2> HIDE DEF F
    <2>1. \A s \in SUBSET T : h[s] = IF s = {} THEN base ELSE step[<<pick[s], h[s \ {pick[s]}]>>]
        <3> SUFFICES ASSUME NEW s \in SUBSET T
                     PROVE  h[s] = IF s = {} THEN base ELSE step[<<pick[s], h[s \ {pick[s]}]>>]
            OBVIOUS
        <3>1. h[s] = IF s = {} THEN base ELSE step[<<pick[s], F(s \ {pick[s]})[s \ {pick[s]}]>>]
            BY Zenon
        <3> HIDE DEF h
        <3> QED BY <1>2, <3>1
    <2>2. DOMAIN h = SUBSET T /\ h = [s \in SUBSET T |-> h[s]]
        BY Zenon
    <2> HIDE DEF h
    <2> QED BY <2>1, <2>2, Zenon
<1> HIDE DEF h
<1> QED BY <1>3 DEF IsFold

\* If every step leads from X to X, all its values are in X.
LEMMA FoldExistsIn ==
    ASSUME NEW S, IsFiniteSet(S), NEW X, NEW base \in X, NEW step \in [S \X X -> X], NEW pick,
           \A s \in SUBSET S : s # {} => pick[s] \in s
    PROVE  \E it \in [SUBSET S -> X] : IsFold(it, S, base, step, pick)
<1>1. PICK it : IsFold(it, S, base, step, pick)
    BY FoldExists
<1>2. ASSUME NEW s \in SUBSET S
      PROVE  it[s] = IF s = {} THEN base ELSE step[<<pick[s], it[s \ {pick[s]}]>>]
    BY <1>1, Zenon DEF IsFold
<1> DEFINE C == {s \in SUBSET S : it[s] \in X}
<1>3. SUBSET S \subseteq C
    <2>1. ASSUME NEW T \in SUBSET S, \A U \in SUBSET T : U # T => U \in C
          PROVE  T \in C
        <3>1. CASE T = {}
            <4>1. it[T] = base
                BY <1>2, <3>1, Zenon
            <4> QED BY <4>1
        <3>2. CASE T # {}
            <4> DEFINE x == pick[T]
                       U == T \ {x}
            <4>1. x \in T /\ x \in S /\ U \in SUBSET T /\ U # T
                BY <3>2
            <4>2. it[U] \in X
                BY <2>1, <4>1
            <4>3. it[T] = step[<<x, it[U]>>]
                BY <1>2, <3>2, Zenon
            <4> HIDE DEF x, U
            <4>4. step[<<x, it[U]>>] \in X
                BY <4>1, <4>2
            <4> QED BY <4>3, <4>4
        <3> QED BY <3>1, <3>2
    <2> HIDE DEF C
    <2> QED BY <2>1, SubsetInduction
<1>4. DOMAIN it = SUBSET S /\ it = [s \in SUBSET S |-> it[s]]
    BY <1>1 DEF IsFold
<1>5. it \in [SUBSET S -> X]
    BY <1>3, <1>4
<1> QED BY <1>1, <1>5

-----------------------------------------------------------------------------
(* Sums over finite sets.                                                  *)

\* it is the recursive function that SumFunctionOnSet(g, S) applies to S.
IsSum(it, g, S) ==
    it = [s \in SUBSET S |-> IF s = {} THEN 0
                             ELSE LET x == CHOOSE x \in s : TRUE IN g[x] + it[s \ {x}]]

\* The element that function takes next.
Pick(S) == [s \in SUBSET S |-> CHOOSE x \in s : TRUE]

\* It is one of the set.
LEMMA PickPicks ==
    ASSUME NEW S
    PROVE  \A s \in SUBSET S : s # {} => Pick(S)[s] \in s
<1> SUFFICES ASSUME NEW s \in SUBSET S, s # {}
             PROVE  (CHOOSE x \in s : TRUE) \in s
    BY DEF Pick
<1> QED OBVIOUS

\* A sum is a fold.
LEMMA SumIsFold ==
    ASSUME NEW S, NEW g, NEW Y, NEW T \in SUBSET S, NEW it, IsSum(it, g, T),
           \A s \in SUBSET T : it[s] \in Y
    PROVE  IsFold(it, T, 0, [z \in S \X Y |-> g[z[1]] + z[2]], Pick(S))
<1> DEFINE step == [z \in S \X Y |-> g[z[1]] + z[2]]
<1>1. ASSUME NEW s \in SUBSET T, s # {}
      PROVE  step[<<Pick(S)[s], it[s \ {Pick(S)[s]}]>>] = g[Pick(S)[s]] + it[s \ {Pick(S)[s]}]
    <2>1. Pick(S)[s] \in s
        BY <1>1, PickPicks
    <2>2. Pick(S)[s] \in S /\ it[s \ {Pick(S)[s]}] \in Y
        BY <2>1
    <2> QED BY <2>2
<1>2. \A s \in SUBSET T : Pick(S)[s] = CHOOSE x \in s : TRUE
    BY DEF Pick
<1> HIDE DEF step
<1>3. \A s \in SUBSET T : it[s] = IF s = {} THEN 0 ELSE step[<<Pick(S)[s], it[s \ {Pick(S)[s]}]>>]
    <2> SUFFICES ASSUME NEW s \in SUBSET T
                 PROVE  it[s] = IF s = {} THEN 0 ELSE step[<<Pick(S)[s], it[s \ {Pick(S)[s]}]>>]
        OBVIOUS
    <2>1. it[s] = IF s = {} THEN 0 ELSE LET x == CHOOSE x \in s : TRUE IN g[x] + it[s \ {x}]
        BY Zenon DEF IsSum
    <2>2. it[s] = IF s = {} THEN 0 ELSE g[Pick(S)[s]] + it[s \ {Pick(S)[s]}]
        BY <1>2, <2>1, Zenon
    <2> QED BY <1>1, <2>2, Zenon
<1>4. it = [s \in SUBSET T |-> it[s]]
    BY DEF IsSum
<1>5. it = [s \in SUBSET T |-> IF s = {} THEN 0 ELSE step[<<Pick(S)[s], it[s \ {Pick(S)[s]}]>>]]
    BY <1>3, <1>4, Zenon
<1> QED BY <1>5 DEF IsFold, step

\* The sums over the parts of T are the same in all sets with the part T.
LEMMA SumsAgree ==
    ASSUME NEW S, IsFiniteSet(S), NEW g, NEW T \in SUBSET S,
           NEW it, IsSum(it, g, S), NEW h, IsSum(h, g, T)
    PROVE  \A s \in SUBSET T : h[s] = it[s]
<1> DEFINE Y == {it[s] : s \in SUBSET S} \cup {h[s] : s \in SUBSET T}
           step == [z \in S \X Y |-> g[z[1]] + z[2]]
<1>1. /\ \A s \in SUBSET S : it[s] \in Y
      /\ \A s \in SUBSET T : h[s] \in Y
    OBVIOUS
<1> HIDE DEF Y
<1>2. IsFold(it, S, 0, step, Pick(S)) /\ IsFold(h, T, 0, step, Pick(S))
    BY <1>1, SumIsFold
<1> HIDE DEF step
<1> QED BY <1>2, PickPicks, FoldUnique

\* Integers can be summed up.
LEMMA SumExists ==
    ASSUME NEW S, IsFiniteSet(S), NEW g, \A x \in S : g[x] \in Int
    PROVE  \E it \in [SUBSET S -> Int] : IsSum(it, g, S)
<1> DEFINE step == [z \in S \X Int |-> g[z[1]] + z[2]]
<1> HIDE DEF step
<1>1. PICK it : IsFold(it, S, 0, step, Pick(S))
    BY PickPicks, FoldExists
<1>2. ASSUME NEW s \in SUBSET S
      PROVE  it[s] = IF s = {} THEN 0 ELSE step[<<Pick(S)[s], it[s \ {Pick(S)[s]}]>>]
    BY <1>1 DEF IsFold
<1>3. ASSUME NEW s \in SUBSET S, s # {}, it[s \ {Pick(S)[s]}] \in Int
      PROVE  /\ step[<<Pick(S)[s], it[s \ {Pick(S)[s]}]>>] = g[Pick(S)[s]] + it[s \ {Pick(S)[s]}]
             /\ g[Pick(S)[s]] \in Int
    <2>1. Pick(S)[s] \in S
        BY <1>3, PickPicks
    <2> QED BY <1>3, <2>1 DEF step
<1> DEFINE C == {s \in SUBSET S : it[s] \in Int}
<1>4. SUBSET S \subseteq C
    <2>1. ASSUME NEW T \in SUBSET S, \A U \in SUBSET T : U # T => U \in C
          PROVE  T \in C
        <3> SUFFICES it[T] \in Int
            OBVIOUS
        <3>1. CASE T = {}
            <4>1. it[T] = 0
                BY <1>2, <3>1, Zenon
            <4> QED BY <4>1
        <3>2. CASE T # {}
            <4>1. it[T \ {Pick(S)[T]}] \in Int
                BY <2>1, <3>2, PickPicks
            <4>2. it[T] = g[Pick(S)[T]] + it[T \ {Pick(S)[T]}]
                BY <1>2, <1>3, <3>2, <4>1, Zenon
            <4>3. g[Pick(S)[T]] \in Int
                BY <1>3, <3>2, <4>1
            <4> HIDE DEF C
            <4> QED BY <4>1, <4>2, <4>3
        <3> QED BY <3>1, <3>2
    <2> HIDE DEF C
    <2> QED BY <2>1, SubsetInduction
<1>5. \A s \in SUBSET S : Pick(S)[s] = CHOOSE x \in s : TRUE
    BY DEF Pick
<1>6. \A s \in SUBSET S : it[s] = IF s = {} THEN 0
                              ELSE (g[CHOOSE x \in s : TRUE] + it[s \ {CHOOSE x \in s : TRUE}])
    <2> SUFFICES ASSUME NEW s \in SUBSET S
                 PROVE  it[s] = IF s = {} THEN 0
                              ELSE (g[Pick(S)[s]] + it[s \ {Pick(S)[s]}])
        BY <1>5
    <2>1. s # {} => it[s \ {Pick(S)[s]}] \in Int
        BY <1>4, PickPicks
    <2> QED BY <2>1, <1>2, <1>3
<1>7. DOMAIN it = SUBSET S /\ it = [s \in SUBSET S |-> it[s]]
    BY <1>1 DEF IsFold
<1>8. IsSum(it, g, S)
    BY <1>6, <1>7, Zenon DEF IsSum
<1>9. it \in [SUBSET S -> Int]
    BY <1>4, <1>7
<1> QED BY <1>8, <1>9

\* What SumFunctionOnSet() is by its definition.
LEMMA SumUnfolds ==
    ASSUME NEW g, NEW S
    PROVE  SumFunctionOnSet(g, S) = (CHOOSE it : IsSum(it, g, S))[S]
BY DEF SumFunctionOnSet, FoldFunctionOnSet, MapThenFoldSet, IsSum

\* The sum over a set is that of some element and the others.
LEMMA SumPicks ==
    ASSUME NEW S, IsFiniteSet(S), NEW g, \A x \in S : g[x] \in Int
    PROVE  /\ SumFunctionOnSet(g, S) \in Int
           /\ S = {} => SumFunctionOnSet(g, S) = 0
           /\ S # {} => \E x \in S : SumFunctionOnSet(g, S) = g[x] + SumFunctionOnSet(g, S \ {x})
<1> DEFINE F(T) == CHOOSE it : IsSum(it, g, T)
<1>1. PICK it \in [SUBSET S -> Int] : IsSum(it, g, S)
    BY SumExists
<1>2. ASSUME NEW T \in SUBSET S
      PROVE  SumFunctionOnSet(g, T) = it[T]
    <2>1. IsFiniteSet(T) /\ \A x \in T : g[x] \in Int
        BY FS_Subset
    <2>2. \E h : IsSum(h, g, T)
        BY <2>1, SumExists
    <2>3. IsSum(F(T), g, T)
        BY <2>2, Zenon
    <2>4. SumFunctionOnSet(g, T) = F(T)[T]
        BY SumUnfolds
    <2> HIDE DEF F
    <2>5. \A s \in SUBSET T : F(T)[s] = it[s]
        BY <1>1, <2>3, SumsAgree
    <2> QED BY <2>4, <2>5
<1>3. it[S] = IF S = {} THEN 0 ELSE (g[CHOOSE x \in S : TRUE] + it[S \ {CHOOSE x \in S : TRUE}])
    BY <1>1, Zenon DEF IsSum
<1>4. SumFunctionOnSet(g, S) = it[S]
    BY <1>2
<1>5. S # {} => /\ (CHOOSE x \in S : TRUE) \in S
                /\ SumFunctionOnSet(g, S \ {CHOOSE x \in S : TRUE}) = it[S \ {CHOOSE x \in S : TRUE}]
    BY <1>2
<1> QED BY <1>1, <1>3, <1>4, <1>5

\* Any element can be taken out of a sum.
LEMMA SumRemove ==
    ASSUME NEW S, IsFiniteSet(S), NEW g, \A x \in S : g[x] \in Int, NEW x \in S
    PROVE  SumFunctionOnSet(g, S) = g[x] + SumFunctionOnSet(g, S \ {x})
<1> DEFINE Sum(T) == SumFunctionOnSet(g, T)
           C == {T \in SUBSET S : \A y \in T : Sum(T) = g[y] + Sum(T \ {y})}
<1>1. ASSUME NEW T \in SUBSET S
      PROVE  /\ Sum(T) \in Int
             /\ T # {} => \E y \in T : Sum(T) = g[y] + Sum(T \ {y})
    <2>1. IsFiniteSet(T) /\ \A y \in T : g[y] \in Int
        BY FS_Subset
    <2> QED BY <2>1, SumPicks
<1> HIDE DEF Sum
<1>2. ASSUME NEW T \in SUBSET S, \A U \in SUBSET T : U # T => U \in C
      PROVE  T \in C
    <2> SUFFICES ASSUME NEW y \in T PROVE Sum(T) = g[y] + Sum(T \ {y})
        OBVIOUS
    <2>1. PICK c \in T : Sum(T) = g[c] + Sum(T \ {c})
        BY <1>1
    <2>2. CASE c = y
        BY <2>1, <2>2
    <2>3. CASE c # y
        <3>1. T \ {c} \in C /\ y \in T \ {c} /\ T \ {y} \in C /\ c \in T \ {y}
            BY <1>2, <2>3
        <3>2. Sum(T \ {c}) = g[y] + Sum((T \ {c}) \ {y}) /\ Sum(T \ {y}) = g[c] + Sum((T \ {y}) \ {c})
            BY <3>1
        <3>3. (T \ {c}) \ {y} = (T \ {y}) \ {c}
            OBVIOUS
        <3>4. Sum((T \ {y}) \ {c}) \in Int /\ g[c] \in Int /\ g[y] \in Int
            BY <1>1
        <3> DEFINE r == Sum((T \ {y}) \ {c})
        <3>5. Sum(T \ {c}) = g[y] + r /\ Sum(T \ {y}) = g[c] + r /\ r \in Int
            BY <3>2, <3>3, <3>4
        <3> HIDE DEF C, r
        <3>6. Sum(T) = g[c] + (g[y] + r) /\ Sum(T \ {y}) = g[c] + r
            BY <2>1, <3>5, Zenon
        <3> QED BY <3>4, <3>5, <3>6
    <2> QED BY <2>2, <2>3
<1>3. SUBSET S \subseteq C
    <2> HIDE DEF C
    <2> QED BY <1>2, SubsetInduction
<1>4. Sum(S) = g[x] + Sum(S \ {x})
    BY <1>3
<1> QED BY <1>4 DEF Sum

\* Another element adds its number.
LEMMA SumAdd ==
    ASSUME NEW S, IsFiniteSet(S), NEW x, x \notin S,
           NEW g, \A y \in S \cup {x} : g[y] \in Int
    PROVE  /\ SumFunctionOnSet(g, S \cup {x}) = SumFunctionOnSet(g, S) + g[x]
           /\ SumFunctionOnSet(g, S) \in Int
<1>1. IsFiniteSet(S \cup {x}) /\ x \in S \cup {x} /\ (S \cup {x}) \ {x} = S
    BY FS_AddElement
<1>2. SumFunctionOnSet(g, S \cup {x}) = g[x] + SumFunctionOnSet(g, (S \cup {x}) \ {x})
    BY <1>1, SumRemove
<1>3. SumFunctionOnSet(g, S) \in Int /\ g[x] \in Int
    BY SumPicks
<1>4. SumFunctionOnSet(g, S \cup {x}) = g[x] + SumFunctionOnSet(g, S)
    BY <1>1, <1>2, Zenon
<1> QED BY <1>3, <1>4

\* A sum of natural numbers is one.
LEMMA SumNat ==
    ASSUME NEW S, IsFiniteSet(S), NEW g, \A x \in S : g[x] \in Nat
    PROVE  SumFunctionOnSet(g, S) \in Nat
<1> DEFINE C == {T \in SUBSET S : SumFunctionOnSet(g, T) \in Nat}
<1>1. {} \in C
    BY SumPicks, FS_EmptySet
<1>2. ASSUME NEW T \in SUBSET S, NEW x \in S \ T, T \in C
      PROVE  T \cup {x} \in C
    <2>1. IsFiniteSet(T) /\ \A y \in T \cup {x} : g[y] \in Nat /\ g[y] \in Int
        BY FS_Subset
    <2>2. SumFunctionOnSet(g, T \cup {x}) = SumFunctionOnSet(g, T) + g[x]
        BY <2>1, SumAdd
    <2> QED BY <1>2, <2>1, <2>2
<1> HIDE DEF C
<1>3. S \in C
    BY <1>1, <1>2, FiniteSetInduction
<1> QED BY <1>3 DEF C

\* Smaller numbers have a smaller sum.
LEMMA SumLeq ==
    ASSUME NEW S, IsFiniteSet(S), NEW f, NEW g,
           \A x \in S : f[x] \in Int /\ g[x] \in Int /\ f[x] <= g[x]
    PROVE  SumFunctionOnSet(f, S) <= SumFunctionOnSet(g, S)
<1> DEFINE C == {T \in SUBSET S : SumFunctionOnSet(f, T) <= SumFunctionOnSet(g, T)}
<1>1. {} \in C
    <2>1. SumFunctionOnSet(f, {}) = 0 /\ SumFunctionOnSet(g, {}) = 0
        BY SumPicks, FS_EmptySet
    <2> QED BY <2>1
<1>2. ASSUME NEW T \in SUBSET S, NEW x \in S \ T, T \in C
      PROVE  T \cup {x} \in C
    <2>1. IsFiniteSet(T) /\ \A y \in T \cup {x} : f[y] \in Int /\ g[y] \in Int
        BY FS_Subset
    <2>2. /\ SumFunctionOnSet(f, T \cup {x}) = SumFunctionOnSet(f, T) + f[x]
          /\ SumFunctionOnSet(f, T) \in Int
        BY <2>1, SumAdd
    <2>3. /\ SumFunctionOnSet(g, T \cup {x}) = SumFunctionOnSet(g, T) + g[x]
          /\ SumFunctionOnSet(g, T) \in Int
        BY <2>1, SumAdd
    <2>4. SumFunctionOnSet(f, T) + f[x] <= SumFunctionOnSet(g, T) + g[x]
        BY <1>2, <2>1, <2>2, <2>3
    <2> QED BY <2>2, <2>3, <2>4
<1> HIDE DEF C
<1>3. S \in C
    BY <1>1, <1>2, FiniteSetInduction
<1> QED BY <1>3 DEF C

\* The same numbers have the same sum.
LEMMA SumSame ==
    ASSUME NEW S, IsFiniteSet(S), NEW f, NEW g,
           \A x \in S : f[x] \in Int /\ f[x] = g[x]
    PROVE  SumFunctionOnSet(f, S) = SumFunctionOnSet(g, S)
<1>1. SumFunctionOnSet(f, S) <= SumFunctionOnSet(g, S)
    BY SumLeq
<1>2. SumFunctionOnSet(g, S) <= SumFunctionOnSet(f, S)
    BY SumLeq
<1>3. SumFunctionOnSet(f, S) \in Int /\ SumFunctionOnSet(g, S) \in Int
    BY SumPicks
<1> QED BY <1>1, <1>2, <1>3

\* Sums over disjoint sets add up.
LEMMA SumUnion ==
    ASSUME NEW S, IsFiniteSet(S), NEW R, IsFiniteSet(R), S \cap R = {},
           NEW g, \A x \in S \cup R : g[x] \in Int
    PROVE  /\ SumFunctionOnSet(g, S \cup R) = SumFunctionOnSet(g, S) + SumFunctionOnSet(g, R)
           /\ SumFunctionOnSet(g, S) \in Int /\ SumFunctionOnSet(g, R) \in Int
<1> DEFINE C == {T \in SUBSET S : SumFunctionOnSet(g, T \cup R) = SumFunctionOnSet(g, T) + SumFunctionOnSet(g, R)}
<1>0. SumFunctionOnSet(g, S) \in Int /\ SumFunctionOnSet(g, R) \in Int
    BY SumPicks
<1>1. {} \in C
    <2>1. SumFunctionOnSet(g, {}) = 0 /\ {} \cup R = R
        BY SumPicks, FS_EmptySet
    <2> QED BY <2>1, <1>0
<1>2. ASSUME NEW T \in SUBSET S, NEW x \in S \ T, T \in C
      PROVE  T \cup {x} \in C
    <2>1. IsFiniteSet(T) /\ \A y \in T \cup {x} : g[y] \in Int
        BY FS_Subset
    <2>2. /\ SumFunctionOnSet(g, T \cup {x}) = SumFunctionOnSet(g, T) + g[x]
          /\ SumFunctionOnSet(g, T) \in Int
        BY <2>1, SumAdd
    <2>3. IsFiniteSet(T \cup R) /\ x \notin T \cup R /\ \A y \in (T \cup R) \cup {x} : g[y] \in Int
        BY <2>1, FS_Union
    <2>4. SumFunctionOnSet(g, (T \cup R) \cup {x}) = SumFunctionOnSet(g, T \cup R) + g[x]
        BY <2>3, SumAdd
    <2>5. (T \cup R) \cup {x} = (T \cup {x}) \cup R
        OBVIOUS
    <2>6. SumFunctionOnSet(g, T \cup R) = SumFunctionOnSet(g, T) + SumFunctionOnSet(g, R)
        BY <1>2
    <2>7. SumFunctionOnSet(g, (T \cup {x}) \cup R)
            = (SumFunctionOnSet(g, T) + SumFunctionOnSet(g, R)) + g[x]
        BY <2>4, <2>5, <2>6, Zenon
    <2>8. g[x] \in Int
        BY <2>1
    <2>9. SumFunctionOnSet(g, (T \cup {x}) \cup R)
            = SumFunctionOnSet(g, T \cup {x}) + SumFunctionOnSet(g, R)
        BY <1>0, <2>2, <2>7, <2>8
    <2> QED BY <2>9
<1> HIDE DEF C
<1>3. S \in C
    BY <1>1, <1>2, FiniteSetInduction
<1> QED BY <1>0, <1>3 DEF C

\* A part can be taken out of a sum.
LEMMA SumSplit ==
    ASSUME NEW S, IsFiniteSet(S), NEW T \in SUBSET S, NEW g, \A x \in S : g[x] \in Int
    PROVE  /\ SumFunctionOnSet(g, S) = SumFunctionOnSet(g, S \ T) + SumFunctionOnSet(g, T)
           /\ SumFunctionOnSet(g, S \ T) \in Int /\ SumFunctionOnSet(g, T) \in Int
<1>1. IsFiniteSet(T) /\ IsFiniteSet(S \ T) /\ (S \ T) \cap T = {} /\ (S \ T) \cup T = S
    BY FS_Subset
<1>2. \A x \in (S \ T) \cup T : g[x] \in Int
    OBVIOUS
<1>3. /\ SumFunctionOnSet(g, (S \ T) \cup T) = SumFunctionOnSet(g, S \ T) + SumFunctionOnSet(g, T)
      /\ SumFunctionOnSet(g, S \ T) \in Int /\ SumFunctionOnSet(g, T) \in Int
    BY <1>1, <1>2, SumUnion
<1> QED BY <1>1, <1>3

\* A part has no larger sum.
LEMMA SumSubset ==
    ASSUME NEW S, IsFiniteSet(S), NEW T \in SUBSET S, NEW g, \A x \in S : g[x] \in Nat
    PROVE  SumFunctionOnSet(g, T) <= SumFunctionOnSet(g, S)
<1>1. /\ SumFunctionOnSet(g, S) = SumFunctionOnSet(g, S \ T) + SumFunctionOnSet(g, T)
      /\ SumFunctionOnSet(g, S \ T) \in Int /\ SumFunctionOnSet(g, T) \in Int
    BY SumSplit
<1>2. SumFunctionOnSet(g, S \ T) \in Nat
    BY SumNat, FS_Subset
<1> QED BY <1>1, <1>2

\* Summing over other names for the same things.
LEMMA SumImage ==
    ASSUME NEW S, IsFiniteSet(S), NEW b, \A x, y \in S : b[x] = b[y] => x = y,
           NEW f, NEW g, \A x \in S : f[x] \in Int /\ f[x] = g[b[x]]
    PROVE  SumFunctionOnSet(f, S) = SumFunctionOnSet(g, {b[x] : x \in S})
<1> DEFINE Im(T) == {b[x] : x \in T}
           C == {T \in SUBSET S : IsFiniteSet(Im(T)) /\ SumFunctionOnSet(f, T) = SumFunctionOnSet(g, Im(T))}
<1>1. {} \in C
    <2>1. SumFunctionOnSet(f, {}) = 0 /\ SumFunctionOnSet(g, {}) = 0 /\ Im({}) = {} /\ IsFiniteSet({})
        BY SumPicks, FS_EmptySet
    <2> HIDE DEF Im
    <2> QED BY <2>1
<1>2. ASSUME NEW T \in SUBSET S, NEW x \in S \ T, T \in C
      PROVE  T \cup {x} \in C
    <2>1. IsFiniteSet(T) /\ \A y \in T \cup {x} : f[y] \in Int
        BY FS_Subset
    <2>2. /\ SumFunctionOnSet(f, T \cup {x}) = SumFunctionOnSet(f, T) + f[x]
        BY <2>1, SumAdd
    <2>3. b[x] \notin Im(T) /\ IsFiniteSet(Im(T)) /\ \A y \in Im(T) \cup {b[x]} : g[y] \in Int
        BY <1>2
    <2>4. Im(T \cup {x}) = Im(T) \cup {b[x]}
        OBVIOUS
    <2>5. IsFiniteSet(Im(T) \cup {b[x]})
        BY <2>3, FS_AddElement
    <2> DEFINE R == Im(T)
               z == b[x]
    <2>6. SumFunctionOnSet(g, Im(T) \cup {b[x]}) = SumFunctionOnSet(g, Im(T)) + g[b[x]]
        <3>1. z \notin R /\ IsFiniteSet(R) /\ \A y \in R \cup {z} : g[y] \in Int
            BY <2>3
        <3> HIDE DEF R, z
        <3>2. SumFunctionOnSet(g, R \cup {z}) = SumFunctionOnSet(g, R) + g[z]
            BY <3>1, SumAdd
        <3> QED BY <3>2 DEF R, z
    <2> HIDE DEF Im, R, z
    <2>7. f[x] = g[b[x]] /\ SumFunctionOnSet(f, T) = SumFunctionOnSet(g, Im(T))
        BY <1>2
    <2>8. SumFunctionOnSet(f, T \cup {x}) = SumFunctionOnSet(g, Im(T \cup {x}))
        BY <2>2, <2>4, <2>6, <2>7, Zenon
    <2> QED BY <2>8, <2>4, <2>5
<1> HIDE DEF C
<1>3. S \in C
    BY <1>1, <1>2, FiniteSetInduction
<1> QED BY <1>3 DEF C

\* A sum of numbers that are at least c.
LEMMA SumAtLeast ==
    ASSUME NEW S, IsFiniteSet(S), NEW c \in Int, NEW g,
           \A x \in S : g[x] \in Int /\ c <= g[x]
    PROVE  c * Cardinality(S) <= SumFunctionOnSet(g, S)
<1> DEFINE C == {T \in SUBSET S : c * Cardinality(T) <= SumFunctionOnSet(g, T)}
<1>1. {} \in C
    <2>1. SumFunctionOnSet(g, {}) = 0 /\ Cardinality({}) = 0
        BY SumPicks, FS_EmptySet
    <2> QED BY <2>1
<1>2. ASSUME NEW T \in SUBSET S, NEW x \in S \ T, T \in C
      PROVE  T \cup {x} \in C
    <2>1. IsFiniteSet(T) /\ \A y \in T \cup {x} : g[y] \in Int
        BY FS_Subset
    <2>2. /\ SumFunctionOnSet(g, T \cup {x}) = SumFunctionOnSet(g, T) + g[x]
          /\ SumFunctionOnSet(g, T) \in Int
        BY <2>1, SumAdd
    <2>3. Cardinality(T \cup {x}) = Cardinality(T) + 1 /\ Cardinality(T) \in Nat
        BY <2>1, FS_AddElement, FS_CardinalityType
    <2>4. ASSUME NEW n \in Nat PROVE c * (n + 1) = c * n + c
        OBVIOUS
    <2>5. c * Cardinality(T \cup {x}) = c * Cardinality(T) + c
        BY <2>3, <2>4, Zenon
    <2>6. c * Cardinality(T) <= SumFunctionOnSet(g, T)
        BY <1>2
    <2>7. c <= g[x] /\ g[x] \in Int
        OBVIOUS
    <2>8. c * Cardinality(T) \in Int
        BY <2>3
    <2>9. c * Cardinality(T) + c <= SumFunctionOnSet(g, T) + g[x]
        BY <2>2, <2>6, <2>7, <2>8
    <2> QED BY <2>2, <2>5, <2>9
<1> HIDE DEF C
<1>3. S \in C
    BY <1>1, <1>2, FiniteSetInduction
<1> QED BY <1>3 DEF C

\* The sum of sums.
LEMMA SumPlus ==
    ASSUME NEW S, IsFiniteSet(S), NEW f, NEW g, NEW h,
           \A x \in S : f[x] \in Int /\ g[x] \in Int /\ h[x] = f[x] + g[x]
    PROVE  SumFunctionOnSet(h, S) = SumFunctionOnSet(f, S) + SumFunctionOnSet(g, S)
<1> DEFINE C == {T \in SUBSET S : SumFunctionOnSet(h, T) = SumFunctionOnSet(f, T) + SumFunctionOnSet(g, T)}
<1>1. {} \in C
    <2>1. SumFunctionOnSet(f, {}) = 0 /\ SumFunctionOnSet(g, {}) = 0 /\ SumFunctionOnSet(h, {}) = 0
        BY SumPicks, FS_EmptySet
    <2> QED BY <2>1
<1>2. ASSUME NEW T \in SUBSET S, NEW x \in S \ T, T \in C
      PROVE  T \cup {x} \in C
    <2>1. IsFiniteSet(T) /\ \A y \in T \cup {x} : f[y] \in Int /\ g[y] \in Int /\ h[y] \in Int
        BY FS_Subset
    <2>2. /\ SumFunctionOnSet(f, T \cup {x}) = SumFunctionOnSet(f, T) + f[x]
          /\ SumFunctionOnSet(f, T) \in Int
        BY <2>1, SumAdd
    <2>3. /\ SumFunctionOnSet(g, T \cup {x}) = SumFunctionOnSet(g, T) + g[x]
          /\ SumFunctionOnSet(g, T) \in Int
        BY <2>1, SumAdd
    <2>4. SumFunctionOnSet(h, T \cup {x}) = SumFunctionOnSet(h, T) + h[x]
        BY <2>1, SumAdd
    <2>5. SumFunctionOnSet(h, T) = SumFunctionOnSet(f, T) + SumFunctionOnSet(g, T)
        BY <1>2
    <2>6. h[x] = f[x] + g[x] /\ f[x] \in Int /\ g[x] \in Int
        OBVIOUS
    <2>7. SumFunctionOnSet(h, T \cup {x}) = (SumFunctionOnSet(f, T) + SumFunctionOnSet(g, T)) + (f[x] + g[x])
        BY <2>4, <2>5, <2>6, Zenon
    <2>8. SumFunctionOnSet(h, T \cup {x}) = SumFunctionOnSet(f, T \cup {x}) + SumFunctionOnSet(g, T \cup {x})
        BY <2>2, <2>3, <2>6, <2>7
    <2> QED BY <2>8
<1> HIDE DEF C
<1>3. S \in C
    BY <1>1, <1>2, FiniteSetInduction
<1> QED BY <1>3 DEF C

-----------------------------------------------------------------------------
(* Recursion over the natural numbers up to n.                             *)

\* f starts with base and makes its next value with step.
IsRecursion(f, n, base, step) ==
    f = [i \in 0..n |-> IF i = 0 THEN base ELSE step[<<i, f[i - 1]>>]]

\* There is such a function.
LEMMA RecursionExists ==
    ASSUME NEW n \in Nat, NEW X, NEW base \in X, NEW step \in [(1..n) \X X -> X]
    PROVE  \E f \in [0..n -> X] : IsRecursion(f, n, base, step)
<1> DEFINE Has(m) == \E f \in [0..m -> X] :
                        /\ f[0] = base
                        /\ \A i \in 1..m : f[i] = step[<<i, f[i - 1]>>]
           C == {m \in Nat : m <= n => Has(m)}
<1>1. 0 \in C
    <2> DEFINE f == [i \in 0..0 |-> base]
    <2>1. f \in [0..0 -> X] /\ f[0] = base /\ \A i \in 1..0 : f[i] = step[<<i, f[i - 1]>>]
        OBVIOUS
    <2> HIDE DEF f
    <2> QED BY <2>1
<1>2. ASSUME NEW m \in Nat, m \in C PROVE m + 1 \in C
    <2>0. SUFFICES ASSUME m + 1 <= n PROVE Has(m + 1)
        <3> HIDE DEF Has
        <3> QED OBVIOUS
    <2>1. PICK f \in [0..m -> X] : /\ f[0] = base
                                   /\ \A i \in 1..m : f[i] = step[<<i, f[i - 1]>>]
        BY <1>2, <2>0
    <2> DEFINE v == step[<<m + 1, f[m]>>]
               g == [i \in 0..(m + 1) |-> IF i = m + 1 THEN v ELSE f[i]]
    <2>2. f[m] \in X /\ m + 1 \in 1..n /\ v \in X
        BY <2>0
    <2> HIDE DEF v
    <2>3. g \in [0..(m + 1) -> X] /\ g[0] = base /\ g[m + 1] = v /\ \A i \in 0..m : g[i] = f[i]
        BY <2>1, <2>2
    <2> HIDE DEF g
    <2>4. ASSUME NEW i \in 1..(m + 1) PROVE g[i] = step[<<i, g[i - 1]>>]
        <3>1. CASE i = m + 1
            <4>1. g[i - 1] = f[m] /\ i - 1 = m
                BY <2>3, <3>1
            <4> QED BY <2>3, <3>1, <4>1 DEF v
        <3>2. CASE i # m + 1
            <4>1. i \in 1..m /\ i - 1 \in 0..m /\ i \in 0..m
                BY <3>2
            <4> QED BY <2>1, <2>3, <4>1
        <3> QED BY <3>1, <3>2
    <2> QED BY <2>3, <2>4
<1> HIDE DEF C
<1>3. n \in C
    BY <1>1, <1>2, NatSetInduction
<1>4. PICK f \in [0..n -> X] : /\ f[0] = base
                               /\ \A i \in 1..n : f[i] = step[<<i, f[i - 1]>>]
    BY <1>3 DEF C
<1>5. \A i \in 0..n : f[i] = IF i = 0 THEN base ELSE step[<<i, f[i - 1]>>]
    BY <1>4
<1>6. f = [i \in 0..n |-> f[i]]
    OBVIOUS
<1>7. IsRecursion(f, n, base, step)
    BY <1>5, <1>6, Zenon DEF IsRecursion
<1> QED BY <1>7

-----------------------------------------------------------------------------
(* Lists.                                                                  *)

\* A function on 1 .. n is a sequence.
LEMMA FunctionIsSeq ==
    ASSUME NEW S, NEW n \in Nat, NEW x \in [1 .. n -> S]
    PROVE  x \in Seq(S) /\ Len(x) = n
<1>1. x \in Seq(S)
    BY SeqDef
<1>2. Len(x) \in Nat /\ DOMAIN x = 1 .. Len(x)
    BY <1>1, LenProperties
<1>3. 1 .. n = 1 .. Len(x)
    BY <1>2
<1> QED BY <1>1, <1>2, <1>3

\* The m elements of t are those of s, of length n, at the positions at[1] to at[m].
TakenFrom(t, m, s, n, at, R) ==
    /\ m \in Nat /\ Len(t) = m /\ n \in Nat /\ Len(s) = n
    /\ \A i \in 1..m : at[i] \in 1..n /\ t[i] = s[at[i]]
    /\ \A i, j \in 1..m : at[i] = at[j] => i = j
    /\ R = {at[i] : i \in 1..m}

\* Taking elements out of a list makes a list.
LEMMA Reindexed ==
    ASSUME NEW s, NEW t, NEW m, NEW n, NEW at, NEW R, TakenFrom(t, m, s, n, at, R),
           NEW S, s \in Seq(S), t \in Seq(S), IsInjective(s)
    PROVE  IsInjective(t) /\ \A x : x \in ToSet(t) <=> \E j \in R : x = s[j]
<1> USE DEF TakenFrom
<1>1. DOMAIN s = 1..n /\ DOMAIN t = 1..m
    BY LenProperties
<1>2. IsInjective(t)
    <2> SUFFICES ASSUME NEW i \in 1..m, NEW j \in 1..m, t[i] = t[j]
                 PROVE  i = j
        BY <1>1 DEF IsInjective
    <2>1. s[at[i]] = s[at[j]] /\ at[i] \in DOMAIN s /\ at[j] \in DOMAIN s
        BY <1>1
    <2>2. at[i] = at[j]
        BY <2>1, Zenon DEF IsInjective
    <2> QED BY <2>2
<1>3. ToSet(t) = {t[i] : i \in 1..m}
    BY <1>1 DEF ToSet
<1>4. \A i \in 1..m : t[i] = s[at[i]]
    OBVIOUS
<1>5. \A x : x \in {t[i] : i \in 1..m} <=> \E j \in R : x = s[j]
    BY <1>4
<1> QED BY <1>2, <1>3, <1>5

\* t is what follows the first n elements of s.
IsTail(t, s, n) ==
    /\ n \in 0..Len(s) /\ Len(t) = Len(s) - n
    /\ \A i \in 1..(Len(s) - n) : t[i] = s[n + i]

\* A list without its first elements.
LEMMA TailOfList ==
    ASSUME NEW S, NEW s \in Seq(S), NEW t \in Seq(S), IsInjective(s),
           NEW n, IsTail(t, s, n)
    PROVE  IsInjective(t) /\ ToSet(t) = ToSet(s) \ {s[i] : i \in 1..n}
<1>1. PICK m \in Nat : m = Len(s) /\ DOMAIN s = 1..m
    BY LenProperties
<1>2. n \in 0..m /\ Len(t) = m - n /\ \A i \in 1..(m - n) : t[i] = s[n + i]
    BY <1>1 DEF IsTail
<1> DEFINE at == [i \in 1..(m - n) |-> n + i]
<1>3. /\ \A i \in 1..(m - n) : at[i] \in 1..m /\ t[i] = s[at[i]]
      /\ \A i, j \in 1..(m - n) : at[i] = at[j] => i = j
    BY <1>2
<1>4. {at[i] : i \in 1..(m - n)} = (n + 1)..m
    <2>1. ASSUME NEW j \in (n + 1)..m PROVE j - n \in 1..(m - n) /\ at[j - n] = j
        BY <1>2
    <2>2. ASSUME NEW i \in 1..(m - n) PROVE at[i] \in (n + 1)..m
        BY <1>2
    <2> HIDE DEF at
    <2> QED BY <2>1, <2>2
<1> HIDE DEF at
<1>5. IsInjective(t) /\ \A x : x \in ToSet(t) <=> \E j \in (n + 1)..m : x = s[j]
    <2> DEFINE k == m - n
               R == (n + 1)..m
    <2>1. TakenFrom(t, k, s, m, at, R)
        BY <1>1, <1>2, <1>3, <1>4 DEF TakenFrom
    <2> HIDE DEF k, R
    <2>2. IsInjective(t) /\ \A x : x \in ToSet(t) <=> \E j \in R : x = s[j]
        BY <2>1, Reindexed
    <2> QED BY <2>2 DEF R
<1>6. ToSet(s) = {s[j] : j \in 1..m}
    BY <1>1 DEF ToSet
<1>7. \A i \in 1..n, j \in (n + 1)..m : s[i] # s[j]
    <2> SUFFICES ASSUME NEW i \in 1..n, NEW j \in (n + 1)..m, s[i] = s[j] PROVE FALSE
        OBVIOUS
    <2>1. i \in DOMAIN s /\ j \in DOMAIN s /\ i # j
        BY <1>1, <1>2
    <2> QED BY <2>1, Zenon DEF IsInjective
<1>8. 1..m = (1..n) \cup ((n + 1)..m)
    BY <1>2
<1> QED BY <1>5, <1>6, <1>7, <1>8

\* What SubSeq() leaves of a sequence.
LEMMA Dropped ==
    ASSUME NEW S, NEW s \in Seq(S), NEW n \in 0..Len(s), NEW t,
           t = SubSeq(s, n + 1, Len(s))
    PROVE  t \in Seq(S) /\ IsTail(t, s, n)
<1>1. PICK m \in Nat : m = Len(s) /\ n \in 0..m /\ \A i \in 1..m : s[i] \in S
    BY LenProperties, ElementOfSeq
<1>2. \A i \in (n + 1)..m : s[i] \in S
    BY <1>1
<1>3. t \in Seq(S)
    BY <1>1, <1>2, SubSeqProperties
<1>4. Len(t) = m - n
    BY <1>1, <1>2, SubSeqProperties
<1>5. \A i \in 1..(m - n) : t[i] = s[n + i]
    BY <1>1, <1>2, SubSeqProperties
<1> QED BY <1>1, <1>3, <1>4, <1>5 DEF IsTail

\* t is s without its p-th element.
IsWithout(t, s, p) ==
    /\ p \in 1..Len(s) /\ Len(t) = Len(s) - 1
    /\ \A i \in 1..(p - 1) : t[i] = s[i]
    /\ \A i \in p..(Len(s) - 1) : t[i] = s[i + 1]

\* What RemoveAt() makes of a sequence ...
LEMMA CutOut ==
    ASSUME NEW S, NEW s \in Seq(S), NEW p \in 1..Len(s), NEW t, t = RemoveAt(s, p)
    PROVE  t \in Seq(S) /\ IsWithout(t, s, p)
<1>1. PICK n \in Nat : n = Len(s) /\ DOMAIN s = 1..n /\ p \in 1..n /\ \A i \in 1..n : s[i] \in S
    BY LenProperties, ElementOfSeq
<1> DEFINE a == SubSeq(s, 1, p - 1)
           b == SubSeq(s, p + 1, n)
<1>2. /\ a \in Seq(S) /\ Len(a) = p - 1
      /\ \A i \in 1..(p - 1) : a[i] = s[i]
    <2>1. \A i \in 1..(p - 1) : s[i] \in S
        BY <1>1
    <2>2. a \in Seq(S)
        BY <1>1, <2>1, SubSeqProperties
    <2>3. Len(a) = p - 1
        BY <1>1, <2>1, SubSeqProperties
    <2>4. \A i \in 1..(p - 1) : a[i] = s[i]
        BY <1>1, <2>1, SubSeqProperties
    <2> QED BY <2>2, <2>3, <2>4
<1>3. /\ b \in Seq(S) /\ Len(b) = n - p
      /\ \A i \in 1..(n - p) : b[i] = s[p + i]
    <2>1. \A i \in (p + 1)..n : s[i] \in S
        BY <1>1
    <2>2. b \in Seq(S)
        BY <1>1, <2>1, SubSeqProperties
    <2>3. Len(b) = n - p
        BY <1>1, <2>1, SubSeqProperties
    <2>4. \A i \in 1..(n - p) : b[i] = s[p + i]
        BY <1>1, <2>1, SubSeqProperties
    <2> QED BY <2>2, <2>3, <2>4
<1>4. t = a \o b
    BY <1>1 DEF RemoveAt
<1> HIDE DEF a, b
<1>5. /\ a \o b \in Seq(S)
      /\ Len(a \o b) = Len(a) + Len(b)
      /\ \A i \in 1 .. Len(a) + Len(b) : (a \o b)[i] =
                  IF i <= Len(a) THEN a[i] ELSE b[i - Len(a)]
    BY <1>2, <1>3, ConcatProperties, Zenon
<1>6. Len(a) + Len(b) = n - 1 /\ n - 1 \in Nat
    BY <1>1, <1>2, <1>3
<1>7. /\ t \in Seq(S) /\ Len(t) = n - 1
      /\ \A i \in 1..(n - 1) : t[i] = IF i <= p - 1 THEN a[i] ELSE b[i - (p - 1)]
    BY <1>2, <1>4, <1>5, <1>6, Zenon
<1>8. ASSUME NEW i \in 1..(p - 1) PROVE t[i] = s[i]
    <2>1. i \in 1..(n - 1) /\ i <= p - 1
        BY <1>1
    <2> QED BY <1>2, <1>7, <2>1, Zenon
<1>9. ASSUME NEW i \in p..(n - 1) PROVE t[i] = s[i + 1]
    <2>1. i \in 1..(n - 1) /\ ~(i <= p - 1)
        BY <1>1
    <2>2. i - (p - 1) \in 1..(n - p) /\ p + (i - (p - 1)) = i + 1
        BY <1>1
    <2>3. t[i] = b[i - (p - 1)]
        BY <1>7, <2>1, Zenon
    <2> QED BY <1>3, <2>2, <2>3, Zenon
<1> QED BY <1>1, <1>7, <1>8, <1>9 DEF IsWithout

\* ... and of a list.
LEMMA CutFromList ==
    ASSUME NEW S, NEW s \in Seq(S), IsInjective(s), NEW t \in Seq(S), NEW p, IsWithout(t, s, p)
    PROVE  IsInjective(t) /\ ToSet(t) = ToSet(s) \ {s[p]}
<1>1. PICK n \in Nat : n = Len(s) /\ DOMAIN s = 1..n /\ p \in 1..n
    BY LenProperties DEF IsWithout
<1>2. /\ t \in Seq(S) /\ Len(t) = n - 1
      /\ \A i \in 1..(p - 1) : t[i] = s[i]
      /\ \A i \in p..(n - 1) : t[i] = s[i + 1]
    BY <1>1 DEF IsWithout
<1> DEFINE at == [i \in 1..(n - 1) |-> IF i < p THEN i ELSE i + 1]
<1>3. \A i \in 1..(n - 1) : at[i] \in 1..n /\ t[i] = s[at[i]]
    BY <1>1, <1>2
<1>4. \A i, j \in 1..(n - 1) : at[i] = at[j] => i = j
    BY <1>1
<1>6. {at[i] : i \in 1..(n - 1)} = (1..n) \ {p}
    <2>1. \A i \in 1..(n - 1) : at[i] \in (1..n) \ {p}
        BY <1>1
    <2>2. ASSUME NEW j \in 1..n, j # p PROVE \E i \in 1..(n - 1) : at[i] = j
        <3>1. CASE j < p
            <4>1. j \in 1..(n - 1) /\ at[j] = j
                BY <1>1, <3>1
            <4> QED BY <4>1
        <3>2. CASE j > p
            <4>1. j - 1 \in 1..(n - 1) /\ at[j - 1] = j
                BY <1>1, <3>2
            <4> QED BY <4>1
        <3> QED BY <1>1, <2>2, <3>1, <3>2
    <2> HIDE DEF at
    <2> QED BY <2>1, <2>2
<1> HIDE DEF at
<1>7. IsInjective(t) /\ ToSet(t) = {s[j] : j \in (1..n) \ {p}}
    <2>1. n - 1 \in Nat
        BY <1>1
    <2>2. TakenFrom(t, n - 1, s, n, at, (1..n) \ {p})
        BY <1>1, <1>2, <1>3, <1>4, <1>6, <2>1 DEF TakenFrom
    <2>3. IsInjective(t) /\ \A x : x \in ToSet(t) <=> \E j \in (1..n) \ {p} : x = s[j]
        BY <1>2, <2>2, Reindexed
    <2> QED BY <2>3
<1>9. ToSet(s) = {s[j] : j \in 1..n} /\ \A j \in (1..n) \ {p} : s[j] # s[p]
    BY <1>1 DEF ToSet, IsInjective
<1>10. {s[j] : j \in (1..n) \ {p}} = {s[j] : j \in 1..n} \ {s[p]}
    BY <1>9
<1> QED BY <1>7, <1>9, <1>10

\* t is s with e added at its end.
IsAppended(t, s, e) ==
    /\ Len(t) = Len(s) + 1
    /\ \A i \in 1..Len(s) : t[i] = s[i]
    /\ t[Len(s) + 1] = e

\* What Append() makes of a sequence ...
LEMMA AppendedTo ==
    ASSUME NEW S, NEW s \in Seq(S), NEW e \in S, NEW t, t = Append(s, e)
    PROVE  t \in Seq(S) /\ IsAppended(t, s, e)
BY AppendProperties DEF IsAppended

\* ... and of a list.
LEMMA AppendedToList ==
    ASSUME NEW S, NEW s \in Seq(S), IsInjective(s), NEW e, e \notin ToSet(s),
           NEW t \in Seq(S), IsAppended(t, s, e)
    PROVE  IsInjective(t) /\ ToSet(t) = ToSet(s) \cup {e}
<1>1. PICK n \in Nat : n = Len(s) /\ DOMAIN s = 1..n
    BY LenProperties
<1>2. /\ Len(t) = n + 1
      /\ \A i \in 1..n : t[i] = s[i]
      /\ t[n + 1] = e
    BY <1>1 DEF IsAppended
<1>3. DOMAIN t = (1..n) \cup {n + 1} /\ n + 1 \notin 1..n
    BY <1>2, LenProperties
<1>4. \A i \in 1..n : s[i] # e
    BY <1>1 DEF ToSet
<1>5. IsInjective(t)
    BY <1>1, <1>2, <1>3, <1>4 DEF IsInjective
<1>6. ToSet(t) = ToSet(s) \cup {e}
    BY <1>1, <1>2, <1>3 DEF ToSet
<1> QED BY <1>5, <1>6

\* What RemoveFirst() makes of a list.
LEMMA RemovedFromList ==
    ASSUME NEW S, NEW s \in Seq(S), IsInjective(s), NEW c, NEW t, t = RemoveFirst(s, c)
    PROVE  t \in Seq(S) /\ IsInjective(t) /\ ToSet(t) = ToSet(s) \ {c}
<1>1. DOMAIN s = 1..Len(s) /\ ToSet(s) = {s[i] : i \in 1..Len(s)}
    BY LenProperties DEF ToSet
<1>2. CASE \A i \in 1..Len(s) : s[i] # c
    <2>1. t = s
        BY <1>2 DEF RemoveFirst
    <2> QED BY <1>1, <1>2, <2>1
<1>3. CASE \E i \in 1..Len(s) : s[i] = c
    <2>1. PICK p \in 1..Len(s) : s[p] = c
        BY <1>3
    <2>2. {i \in 1..Len(s) : s[i] = c} = {p}
        BY <1>1, <2>1 DEF IsInjective
    <2>3. p \in Nat /\ p <= p
        BY LenProperties
    <2>4. Min({p}) = p
        BY <2>3 DEF Min
    <2>5. SelectInSeq(s, LAMBDA v : v = c) = p
        BY <2>2, <2>4 DEF SelectInSeq
    <2>6. t = RemoveAt(s, p)
        BY <1>3, <2>5 DEF RemoveFirst
    <2>7. t \in Seq(S) /\ IsWithout(t, s, p)
        BY <2>6, CutOut
    <2>8. IsInjective(t) /\ ToSet(t) = ToSet(s) \ {s[p]}
        BY <2>7, CutFromList
    <2> QED BY <2>1, <2>7, <2>8
<1> QED BY <1>2, <1>3

\* t is s with e put in as its p-th element.
IsInserted(t, s, p, e) ==
    /\ p \in 1..(Len(s) + 1) /\ Len(t) = Len(s) + 1
    /\ \A i \in 1..(p - 1) : t[i] = s[i]
    /\ t[p] = e
    /\ \A i \in (p + 1)..(Len(s) + 1) : t[i] = s[i - 1]

\* What InsertAt() makes of a sequence ...
LEMMA InsertedAt ==
    ASSUME NEW S, NEW s \in Seq(S), NEW e \in S, NEW p \in 1..(Len(s) + 1), NEW t, t = InsertAt(s, p, e)
    PROVE  t \in Seq(S) /\ IsInserted(t, s, p, e)
<1>1. PICK n \in Nat : n = Len(s) /\ DOMAIN s = 1..n /\ p \in 1..(n + 1) /\ \A i \in 1..n : s[i] \in S
    BY LenProperties, ElementOfSeq
<1> DEFINE a == SubSeq(s, 1, p - 1)
           b == SubSeq(s, p, n)
           c == a \o <<e>>
<1>2. /\ a \in Seq(S) /\ Len(a) = p - 1
      /\ \A i \in 1..(p - 1) : a[i] = s[i]
    <2>1. \A i \in 1..(p - 1) : s[i] \in S
        BY <1>1
    <2>2. a \in Seq(S)
        BY <1>1, <2>1, SubSeqProperties
    <2>3. Len(a) = p - 1
        BY <1>1, <2>1, SubSeqProperties
    <2>4. \A i \in 1..(p - 1) : a[i] = s[i]
        BY <1>1, <2>1, SubSeqProperties
    <2> QED BY <2>2, <2>3, <2>4
<1>3. /\ b \in Seq(S) /\ Len(b) = n - p + 1
      /\ \A i \in 1..(n - p + 1) : b[i] = s[p + i - 1]
    <2>1. \A i \in p..n : s[i] \in S
        BY <1>1
    <2>2. b \in Seq(S)
        BY <1>1, <2>1, SubSeqProperties
    <2>3. Len(b) = n - p + 1
        BY <1>1, <2>1, SubSeqProperties
    <2>4. \A i \in 1..(n - p + 1) : b[i] = s[p + i - 1]
        BY <1>1, <2>1, SubSeqProperties
    <2> QED BY <2>2, <2>3, <2>4
<1>4. t = c \o b
    BY <1>1 DEF InsertAt
<1> HIDE DEF a, b
<1>5. c \in Seq(S) /\ Len(c) = p /\ c[p] = e /\ \A i \in 1..(p - 1) : c[i] = a[i]
    <2> DEFINE d == <<e>>
    <2>1. d \in Seq(S) /\ Len(d) = 1 /\ d[1] = e
        OBVIOUS
    <2> HIDE DEF d
    <2>2. /\ a \o d \in Seq(S)
          /\ Len(a \o d) = Len(a) + Len(d)
          /\ \A i \in 1 .. Len(a) + Len(d) : (a \o d)[i] =
                  IF i <= Len(a) THEN a[i] ELSE d[i - Len(a)]
        BY <1>2, <2>1, ConcatProperties, Zenon
    <2>3. p \in Int
        BY <1>1
    <2>4. c = a \o d
        BY DEF d
    <2> HIDE DEF c
    <2>5. c \in Seq(S) /\ Len(c) = (p - 1) + 1
        BY <1>2, <2>1, <2>2, <2>4, Zenon
    <2>6. \A i \in 1..((p - 1) + 1) : c[i] = IF i <= p - 1 THEN a[i] ELSE d[i - (p - 1)]
        BY <1>2, <2>1, <2>2, <2>4, Zenon
    <2>7. (p - 1) + 1 = p /\ p - (p - 1) = 1 /\ p \in 1..p /\ ~(p <= p - 1)
        BY <1>1
    <2>8. c[p] = e
        BY <2>1, <2>6, <2>7, Zenon
    <2>9. \A i \in 1..(p - 1) : c[i] = a[i]
        <3>1. \A i \in 1..(p - 1) : i \in 1..((p - 1) + 1) /\ i <= p - 1
            BY <1>1
        <3> QED BY <2>6, <3>1, Zenon
    <2> QED BY <2>5, <2>7, <2>8, <2>9
<1> HIDE DEF c
<1>6. /\ c \o b \in Seq(S)
      /\ Len(c \o b) = Len(c) + Len(b)
      /\ \A i \in 1 .. Len(c) + Len(b) : (c \o b)[i] =
                  IF i <= Len(c) THEN c[i] ELSE b[i - Len(c)]
    BY <1>3, <1>5, ConcatProperties, Zenon
<1>7. Len(c) + Len(b) = n + 1
    BY <1>1, <1>3, <1>5
<1>8. /\ t \in Seq(S) /\ Len(t) = n + 1
      /\ \A i \in 1..(n + 1) : t[i] = IF i <= p THEN c[i] ELSE b[i - p]
    BY <1>4, <1>5, <1>6, <1>7, Zenon
<1>9. ASSUME NEW i \in 1..(p - 1) PROVE t[i] = s[i]
    <2>1. i \in 1..(n + 1) /\ i <= p
        BY <1>1
    <2> QED BY <1>2, <1>5, <1>8, <2>1, Zenon
<1>10. t[p] = e
    <2>1. p \in 1..(n + 1) /\ p <= p
        BY <1>1
    <2> QED BY <1>5, <1>8, <2>1, Zenon
<1>11. ASSUME NEW i \in (p + 1)..(n + 1) PROVE t[i] = s[i - 1]
    <2>1. i \in 1..(n + 1) /\ ~(i <= p)
        BY <1>1
    <2>2. i - p \in 1..(n - p + 1) /\ p + (i - p) - 1 = i - 1
        BY <1>1
    <2>3. t[i] = b[i - p]
        BY <1>8, <2>1, Zenon
    <2>4. b[i - p] = s[p + (i - p) - 1]
        BY <1>3, <2>2, Zenon
    <2> QED BY <2>2, <2>3, <2>4, Zenon
<1> QED BY <1>1, <1>8, <1>9, <1>10, <1>11 DEF IsInserted

\* ... and of a list.
LEMMA InsertedIntoList ==
    ASSUME NEW S, NEW s \in Seq(S), IsInjective(s), NEW e \in S, e \notin ToSet(s),
           NEW t \in Seq(S), NEW p, IsInserted(t, s, p, e)
    PROVE  IsInjective(t) /\ ToSet(t) = ToSet(s) \cup {e}
<1>1. PICK n \in Nat : n = Len(s) /\ DOMAIN s = 1..n /\ p \in 1..(n + 1)
    BY LenProperties DEF IsInserted
<1>2. /\ t \in Seq(S) /\ Len(t) = n + 1
      /\ \A i \in 1..(p - 1) : t[i] = s[i]
      /\ t[p] = e
      /\ \A i \in (p + 1)..(n + 1) : t[i] = s[i - 1]
    BY <1>1 DEF IsInserted
<1>3. DOMAIN t = 1..(n + 1)
    BY <1>2, LenProperties
<1> DEFINE at(i) == IF i < p THEN i ELSE i - 1
<1>4. \A i \in (1..(n + 1)) \ {p} : at(i) \in 1..n /\ t[i] = s[at(i)]
    BY <1>1, <1>2
<1>5. \A i, j \in (1..(n + 1)) \ {p} : at(i) = at(j) => i = j
    BY <1>1
<1>6. \A j \in 1..n : \E i \in (1..(n + 1)) \ {p} : at(i) = j
    <2> SUFFICES ASSUME NEW j \in 1..n PROVE \E i \in (1..(n + 1)) \ {p} : at(i) = j
        OBVIOUS
    <2>1. CASE j < p
        <3>1. j \in (1..(n + 1)) \ {p} /\ at(j) = j
            BY <1>1, <2>1
        <3> QED BY <3>1
    <2>2. CASE ~(j < p)
        <3>1. j + 1 \in (1..(n + 1)) \ {p} /\ at(j + 1) = j
            BY <1>1, <2>2
        <3> QED BY <3>1
    <2> QED BY <2>1, <2>2
<1> HIDE DEF at
<1>7. \A j \in 1..n : s[j] # e
    BY <1>1 DEF ToSet
<1>8. \A i, j \in 1..n : s[i] = s[j] => i = j
    BY <1>1 DEF IsInjective
<1>9. IsInjective(t)
    <2> SUFFICES ASSUME NEW i \in 1..(n + 1), NEW j \in 1..(n + 1), t[i] = t[j]
                 PROVE  i = j
        BY <1>3 DEF IsInjective
    <2>1. i = p <=> j = p
        <3>1. \A k \in (1..(n + 1)) \ {p} : t[k] # t[p]
            <4> SUFFICES ASSUME NEW k \in (1..(n + 1)) \ {p} PROVE t[k] # t[p]
                OBVIOUS
            <4>1. t[k] = s[at(k)] /\ at(k) \in 1..n
                BY <1>4
            <4>2. s[at(k)] # e /\ t[p] = e
                BY <1>2, <1>7, <4>1
            <4> QED BY <4>1, <4>2, Zenon
        <3> QED BY <3>1
    <2>2. CASE i # p
        <3>1. at(i) \in 1..n /\ at(j) \in 1..n /\ s[at(i)] = s[at(j)]
            BY <1>4, <2>1, <2>2
        <3> QED BY <1>5, <1>8, <2>1, <2>2, <3>1
    <2> QED BY <2>1, <2>2
<1>10. ToSet(t) = ToSet(s) \cup {e}
    <2>1. ToSet(t) = {t[i] : i \in 1..(n + 1)} /\ ToSet(s) = {s[j] : j \in 1..n} /\ p \in 1..(n + 1)
        BY <1>1, <1>3 DEF ToSet
    <2>2. \A x \in ToSet(t) : x \in ToSet(s) \cup {e}
        <3> SUFFICES ASSUME NEW i \in 1..(n + 1) PROVE t[i] \in ToSet(s) \cup {e}
            BY <2>1
        <3>1. CASE i = p
            <4>1. t[p] = e
                BY <1>2
            <4> QED BY <3>1, <4>1, Zenon
        <3>2. CASE i # p
            BY <1>4, <2>1, <3>2
        <3> QED BY <3>1, <3>2
    <2>3. \A x \in ToSet(s) : x \in ToSet(t)
        BY <1>4, <1>6, <2>1
    <2>4. e \in ToSet(t)
        BY <1>2, <2>1
    <2> QED BY <2>2, <2>3, <2>4
<1> QED BY <1>9, <1>10
=============================================================================
