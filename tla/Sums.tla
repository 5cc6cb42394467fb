-------------------------------- MODULE Sums --------------------------------
(***************************************************************************)
(* Lemmas about SumFunctionOnSet, the sum of a function over a finite set, *)
(* that the proofs of what is sold, held and won keep needing.  The fold   *)
(* that defines the sum is a CHOOSE of a recursive function, and the       *)
(* induction theorems that take a predicate are out of the provers' reach: *)
(* what a set of naturals contains is counted up instead, from the         *)
(* well-foundedness of the naturals.                                       *)
(***************************************************************************)
EXTENDS Integers, FiniteSets, FiniteSetsExt, FiniteSetTheorems, WellFoundedInduction, TLAPS

-----------------------------------------------------------------------------
(* A set that has zero and the successor of each of its numbers has all.    *)
LEMMA CountUp ==
    ASSUME NEW P \in SUBSET Nat, 0 \in P, \A n \in P : n + 1 \in P
    PROVE  P = Nat
<1> DEFINE R == OpToRel(<, Nat)
           T == Nat \ P
<1> SUFFICES ASSUME T # {} PROVE FALSE
    BY DEF T
<1>1. \A x, y \in Nat : x < y => <<x, y>> \in R
    BY DEF OpToRel
<1>2. IsWellFoundedOn(R, Nat)
    BY NatLessThanWellFounded
<1> HIDE DEF R
<1>3. PICK m \in T : \A y \in T : ~(<<y, m>> \in R)
    BY <1>2, WFMin DEF T
<1>4. m \in Nat /\ m - 1 \in Nat /\ m # 0
    BY <1>3 DEF T
<1>5. m - 1 \notin T
    <2>1. <<m - 1, m>> \in R
        BY <1>1, <1>4
    <2> QED BY <2>1, <1>3
<1>6. m - 1 \in P
    BY <1>4, <1>5 DEF T
<1>7. (m - 1) + 1 \in P
    BY <1>6
<1>8. m \in P
    BY <1>4, <1>7
<1> QED BY <1>3, <1>8 DEF T

Pick(s) == CHOOSE x \in s : TRUE

(* g adds up F over the sets in D, taking out one element after another.     *)
Adds(g, F, D) ==
    g = [s \in D |-> IF s = {} THEN 0 ELSE F[Pick(s)] + g[s \ {Pick(s)}]]

LEMMA SumIs ==
    ASSUME NEW F, NEW S
    PROVE  SumFunctionOnSet(F, S) = (CHOOSE g : Adds(g, F, SUBSET S))[S]
BY DEF SumFunctionOnSet, FoldFunctionOnSet, MapThenFoldSet, Adds, Pick

(* A finite set's elements can be taken out one after another.               *)
LEMMA TakeOne ==
    ASSUME NEW s, IsFiniteSet(s), s # {}, NEW x \in s
    PROVE  /\ IsFiniteSet(s \ {x}) /\ Cardinality(s \ {x}) \in Nat
           /\ Cardinality(s \ {x}) = Cardinality(s) - 1 /\ Cardinality(s) \in Nat
           /\ s \ {x} \subseteq s
BY FS_RemoveElement, FS_CardinalityType

LEMMA PickIn == ASSUME NEW s, s # {} PROVE Pick(s) \in s
BY DEF Pick

Small(S, n) == {s \in SUBSET S : Cardinality(s) <= n}

LEMMA AddsExist ==
    ASSUME NEW F, NEW S, IsFiniteSet(S)
    PROVE  \E g : Adds(g, F, SUBSET S)
<1>0. \A s \in SUBSET S : IsFiniteSet(s) /\ Cardinality(s) \in Nat
    BY FS_Subset, FS_CardinalityType
<1> DEFINE P == {n \in Nat : \E g : Adds(g, F, Small(S, n))}
<1>1. 0 \in P
    <2> DEFINE g == [s \in Small(S, 0) |-> 0]
    <2>1. \A s \in Small(S, 0) : s = {}
        BY <1>0, FS_EmptySet DEF Small
    <2>2. Adds(g, F, Small(S, 0))
        BY <2>1 DEF Adds
    <2> QED BY <2>2
<1>2. ASSUME NEW n \in P PROVE n + 1 \in P
    <2>1. PICK g : Adds(g, F, Small(S, n))
        OBVIOUS
    <2> DEFINE h == [s \in Small(S, n + 1) |-> IF s = {} THEN 0 ELSE F[Pick(s)] + g[s \ {Pick(s)}]]
    <2>2. ASSUME NEW s \in Small(S, n), s # {}
          PROVE  s \ {Pick(s)} \in Small(S, n)
        BY <1>0, <2>2, PickIn, TakeOne DEF Small
    <2>3. ASSUME NEW s \in Small(S, n + 1), s # {}
          PROVE  s \ {Pick(s)} \in Small(S, n)
        <3>1. Pick(s) \in s /\ IsFiniteSet(s) /\ Cardinality(s) <= n + 1 /\ s \subseteq S
            BY <1>0, <2>3, PickIn DEF Small
        <3> HIDE DEF Pick
        <3>2. Cardinality(s \ {Pick(s)}) <= n /\ s \ {Pick(s)} \subseteq S
            BY <3>1, TakeOne, <1>2
        <3> QED BY <3>2 DEF Small
    <2>4. Small(S, n) \subseteq Small(S, n + 1)
        BY <1>0 DEF Small
    <2>5. ASSUME NEW s \in Small(S, n) PROVE h[s] = g[s]
        BY <2>1, <2>4 DEF Adds
    <2>6. \A s \in Small(S, n + 1) : s # {} => h[s] = F[Pick(s)] + h[s \ {Pick(s)}]
        BY <2>3, <2>5
    <2>7. \A s \in Small(S, n + 1) : s = {} => h[s] = 0
        OBVIOUS
    <2>8. h = [s \in Small(S, n + 1) |-> h[s]]
        OBVIOUS
    <2> HIDE DEF h
    <2>9. Adds(h, F, Small(S, n + 1))
        BY <2>6, <2>7, <2>8 DEF Adds
    <2> QED BY <2>9
<1>3. P = Nat
    <2> HIDE DEF P
    <2>1. P \in SUBSET Nat
        BY DEF P
    <2> QED BY <1>1, <1>2, <2>1, CountUp
<1>4. PICK g : Adds(g, F, Small(S, Cardinality(S)))
    BY <1>0, <1>3
<1>5. Small(S, Cardinality(S)) = SUBSET S
    BY FS_Subset DEF Small
<1> QED BY <1>4, <1>5

(* Whatever larger sets are added up besides, a set has one sum.             *)
LEMMA AddsAgree ==
    ASSUME NEW F, NEW S, IsFiniteSet(S), NEW D, NEW E, SUBSET S \subseteq D, SUBSET S \subseteq E,
           NEW g, NEW h, Adds(g, F, D), Adds(h, F, E)
    PROVE  g[S] = h[S]
<1>0. \A s \in SUBSET S : IsFiniteSet(s) /\ Cardinality(s) \in Nat
    BY FS_Subset, FS_CardinalityType
<1> DEFINE P == {n \in Nat : \A s \in Small(S, n) : g[s] = h[s]}
<1>a. \A s \in SUBSET S : g[s] = IF s = {} THEN 0 ELSE F[Pick(s)] + g[s \ {Pick(s)}]
    BY DEF Adds
<1>b. \A s \in SUBSET S : h[s] = IF s = {} THEN 0 ELSE F[Pick(s)] + h[s \ {Pick(s)}]
    BY DEF Adds
<1>1. 0 \in P
    <2>1. \A s \in Small(S, 0) : s = {} /\ s \in SUBSET S
        BY <1>0, FS_EmptySet DEF Small
    <2> QED BY <2>1, <1>a, <1>b
<1>2. ASSUME NEW n \in P PROVE n + 1 \in P
    <2>1. ASSUME NEW s \in Small(S, n + 1) PROVE g[s] = h[s]
        <3>0. s \in SUBSET S
            BY DEF Small
        <3>1. CASE s = {}
            BY <3>0, <3>1, <1>a, <1>b
        <3>2. CASE s # {}
            <4>1. Pick(s) \in s /\ IsFiniteSet(s) /\ Cardinality(s) <= n + 1
                BY <1>0, <3>2, PickIn DEF Small
            <4>2. Cardinality(s \ {Pick(s)}) <= n /\ s \ {Pick(s)} \subseteq S
                <5>1. /\ Cardinality(s \ {Pick(s)}) = Cardinality(s) - 1 /\ Cardinality(s) \in Nat
                      /\ s \ {Pick(s)} \subseteq s
                    BY <3>2, <4>1, TakeOne
                <5>2. n \in Nat
                    BY <1>2
                <5> QED BY <3>0, <4>1, <5>1, <5>2
            <4>3. g[s \ {Pick(s)}] = h[s \ {Pick(s)}]
                BY <4>2, <1>2 DEF Small
            <4> QED BY <3>0, <3>2, <4>3, <1>a, <1>b
        <3> QED BY <3>1, <3>2
    <2> QED BY <2>1
<1>3. P = Nat
    <2> HIDE DEF P
    <2>1. P \in SUBSET Nat
        BY DEF P
    <2> QED BY <1>1, <1>2, <2>1, CountUp
<1> QED BY <1>0, <1>3 DEF Small

LEMMA SumEmpty == ASSUME NEW F PROVE SumFunctionOnSet(F, {}) = 0
<1>1. IsFiniteSet({})
    BY FS_EmptySet
<1>2. PICK g : Adds(g, F, SUBSET {})
    BY <1>1, AddsExist
<1>3. Adds(CHOOSE f : Adds(f, F, SUBSET {}), F, SUBSET {})
    BY <1>2
<1> QED BY <1>3, SumIs DEF Adds

LEMMA SumPick ==
    ASSUME NEW F, NEW S, IsFiniteSet(S), S # {}
    PROVE  SumFunctionOnSet(F, S) = F[Pick(S)] + SumFunctionOnSet(F, S \ {Pick(S)})
<1> DEFINE T == S \ {Pick(S)}
<1>0. Pick(S) \in S /\ IsFiniteSet(T) /\ T \subseteq S
    BY PickIn, TakeOne
<1> DEFINE g == CHOOSE f : Adds(f, F, SUBSET S)
           h == CHOOSE f : Adds(f, F, SUBSET T)
<1>1. Adds(g, F, SUBSET S)
    BY AddsExist
<1>2. Adds(h, F, SUBSET T)
    BY <1>0, AddsExist
<1>3. SumFunctionOnSet(F, S) = g[S] /\ SumFunctionOnSet(F, T) = h[T]
    BY SumIs
<1> HIDE DEF g, h
<1>4. g[T] = h[T]
    BY <1>0, <1>1, <1>2, AddsAgree
<1>5. g[S] = F[Pick(S)] + g[T]
    BY <1>1, S \in SUBSET S DEF Adds
<1> QED BY <1>3, <1>4, <1>5

LEMMA Regrouped ==
    ASSUME NEW a \in Int, NEW b \in Int, NEW c \in Int, NEW ac, NEW bc, NEW abc,
           abc = a + bc, bc = b + c, ac = a + c
    PROVE  abc = b + ac
OBVIOUS

(* Integers have an integer as their sum, and any of them can be taken out   *)
(* first.                                                                    *)
LEMMA SumTypedAndTaken ==
    ASSUME NEW F, NEW S, IsFiniteSet(S), \A x \in S : F[x] \in Int
    PROVE  /\ SumFunctionOnSet(F, S) \in Int
           /\ \A x \in S : SumFunctionOnSet(F, S) = F[x] + SumFunctionOnSet(F, S \ {x})
<1> DEFINE Good(s) == /\ SumFunctionOnSet(F, s) \in Int
                      /\ \A x \in s : SumFunctionOnSet(F, s) = F[x] + SumFunctionOnSet(F, s \ {x})
           P == {n \in Nat : \A s \in Small(S, n) : Good(s)}
<1>0. \A s \in SUBSET S : IsFiniteSet(s) /\ Cardinality(s) \in Nat
    BY FS_Subset, FS_CardinalityType
<1>1. 0 \in P
    <2>1. \A s \in Small(S, 0) : s = {}
        BY <1>0, FS_EmptySet DEF Small
    <2>2. ASSUME NEW s \in Small(S, 0) PROVE Good(s)
        <3>1. s = {} /\ SumFunctionOnSet(F, {}) = 0
            BY <2>1, SumEmpty
        <3>2. SumFunctionOnSet(F, s) = 0
            BY <3>1
        <3> QED BY <3>1, <3>2
    <2> HIDE DEF Good
    <2> QED BY <2>2
<1>2. ASSUME NEW n \in P PROVE n + 1 \in P
    <2>1. ASSUME NEW s \in Small(S, n + 1) PROVE Good(s)
        <3>0. s \in SUBSET S /\ IsFiniteSet(s) /\ Cardinality(s) <= n + 1
            BY <1>0 DEF Small
        <3>1. CASE s = {}
            BY <3>1, SumEmpty
        <3>2. CASE s # {}
            <4> DEFINE p == Pick(s)
            <4>1. p \in s
                BY <3>2, PickIn
            <4>2. SumFunctionOnSet(F, s) = F[p] + SumFunctionOnSet(F, s \ {p})
                BY <3>0, <3>2, SumPick
            <4> HIDE DEF p
            <4>3. ASSUME NEW x \in s PROVE s \ {x} \in Small(S, n)
                BY <1>2, <3>0, <3>2, TakeOne DEF Small
            <4>4. ASSUME NEW x \in s PROVE Good(s \ {x})
                BY <4>3, <1>2
            <4>5. SumFunctionOnSet(F, s) \in Int
                BY <3>0, <4>1, <4>2, <4>4
            <4>6. ASSUME NEW x \in s PROVE SumFunctionOnSet(F, s) = F[x] + SumFunctionOnSet(F, s \ {x})
                <5>1. CASE x = p
                    BY <4>2, <5>1
                <5>2. CASE x # p
                    <6>0. (s \ {p}) \ {x} = (s \ {x}) \ {p}
                        OBVIOUS
                    <6>1. SumFunctionOnSet(F, s \ {p}) = F[x] + SumFunctionOnSet(F, (s \ {p}) \ {x})
                        BY <4>1, <4>4, <5>2
                    <6>2. SumFunctionOnSet(F, s \ {x}) = F[p] + SumFunctionOnSet(F, (s \ {x}) \ {p})
                        BY <4>1, <4>4, <5>2
                    <6>3. /\ SumFunctionOnSet(F, s \ {p}) \in Int /\ SumFunctionOnSet(F, s \ {x}) \in Int
                          /\ F[x] \in Int /\ F[p] \in Int
                        BY <4>1, <4>4, <3>0
                    <6>4. SumFunctionOnSet(F, (s \ {x}) \ {p}) \in Int
                        <7>1. (s \ {x}) \ {p} \in Small(S, n)
                            <8>1. IsFiniteSet(s \ {x}) /\ p \in s \ {x}
                                BY <3>0, <4>1, <5>2, TakeOne
                            <8>2. /\ Cardinality((s \ {x}) \ {p}) = Cardinality(s \ {x}) - 1
                                  /\ Cardinality(s \ {x}) \in Nat
                                BY <8>1, TakeOne
                            <8>3. s \ {x} \in Small(S, n) /\ n \in Nat
                                BY <4>3, <1>2
                            <8>4. (s \ {x}) \ {p} \subseteq S /\ Cardinality(s \ {x}) <= n
                                BY <8>3 DEF Small
                            <8>5. Cardinality((s \ {x}) \ {p}) <= n
                                BY <8>2, <8>3, <8>4
                            <8> QED BY <8>4, <8>5 DEF Small
                        <7>2. \A t \in Small(S, n) : SumFunctionOnSet(F, t) \in Int
                            BY <1>2
                        <7> QED BY <7>1, <7>2
                    <6>5. SumFunctionOnSet(F, s \ {p}) = F[x] + SumFunctionOnSet(F, (s \ {x}) \ {p})
                        BY <6>0, <6>1
                    <6> QED BY <4>2, <6>2, <6>3, <6>4, <6>5, Regrouped
                <5> QED BY <5>1, <5>2
            <4> QED BY <4>5, <4>6
        <3> QED BY <3>1, <3>2
    <2> HIDE DEF Good
    <2> QED BY <2>1
<1>3. P = Nat
    <2> HIDE DEF P
    <2>1. P \in SUBSET Nat
        BY DEF P
    <2> QED BY <1>1, <1>2, <2>1, CountUp
<1>4. S \in Small(S, Cardinality(S)) /\ Cardinality(S) \in Nat
    BY <1>0 DEF Small
<1> HIDE DEF Good
<1>5. Good(S)
    BY <1>3, <1>4
<1> QED BY <1>5 DEF Good

(* The sum depends on nothing but the values added.                          *)
LEMMA SumSame ==
    ASSUME NEW F, NEW G, NEW S, IsFiniteSet(S), \A x \in S : F[x] = G[x]
    PROVE  SumFunctionOnSet(F, S) = SumFunctionOnSet(G, S)
<1> DEFINE P == {n \in Nat : \A s \in Small(S, n) : SumFunctionOnSet(F, s) = SumFunctionOnSet(G, s)}
<1>0. \A s \in SUBSET S : IsFiniteSet(s) /\ Cardinality(s) \in Nat
    BY FS_Subset, FS_CardinalityType
<1>1. 0 \in P
    <2>1. \A s \in Small(S, 0) : s = {}
        BY <1>0, FS_EmptySet DEF Small
    <2> QED BY <2>1, SumEmpty
<1>2. ASSUME NEW n \in P PROVE n + 1 \in P
    <2>1. ASSUME NEW s \in Small(S, n + 1) PROVE SumFunctionOnSet(F, s) = SumFunctionOnSet(G, s)
        <3>0. s \in SUBSET S /\ IsFiniteSet(s) /\ Cardinality(s) <= n + 1
            BY <1>0 DEF Small
        <3>1. CASE s = {}
            BY <3>1, SumEmpty
        <3>2. CASE s # {}
            <4>1. Pick(s) \in s
                BY <3>2, PickIn
            <4>2. s \ {Pick(s)} \in Small(S, n)
                BY <1>2, <3>0, <3>2, <4>1, TakeOne DEF Small
            <4>3. SumFunctionOnSet(F, s \ {Pick(s)}) = SumFunctionOnSet(G, s \ {Pick(s)})
                BY <4>2, <1>2
            <4> QED BY <3>0, <3>2, <4>1, <4>3, SumPick
        <3> QED BY <3>1, <3>2
    <2> QED BY <2>1
<1>3. P = Nat
    <2> HIDE DEF P
    <2>1. P \in SUBSET Nat
        BY DEF P
    <2> QED BY <1>1, <1>2, <2>1, CountUp
<1>4. S \in Small(S, Cardinality(S)) /\ Cardinality(S) \in Nat
    BY <1>0 DEF Small
<1> QED BY <1>3, <1>4

(* Nothings add up to nothing.                                               *)
LEMMA SumZero ==
    ASSUME NEW F, NEW S, IsFiniteSet(S), \A x \in S : F[x] = 0
    PROVE  SumFunctionOnSet(F, S) = 0
<1> DEFINE P == {n \in Nat : \A s \in Small(S, n) : SumFunctionOnSet(F, s) = 0}
<1>0. \A s \in SUBSET S : IsFiniteSet(s) /\ Cardinality(s) \in Nat
    BY FS_Subset, FS_CardinalityType
<1>1. 0 \in P
    <2>1. \A s \in Small(S, 0) : s = {}
        BY <1>0, FS_EmptySet DEF Small
    <2> QED BY <2>1, SumEmpty
<1>2. ASSUME NEW n \in P PROVE n + 1 \in P
    <2>1. ASSUME NEW s \in Small(S, n + 1) PROVE SumFunctionOnSet(F, s) = 0
        <3>0. s \in SUBSET S /\ IsFiniteSet(s) /\ Cardinality(s) <= n + 1
            BY <1>0 DEF Small
        <3>1. CASE s = {}
            BY <3>1, SumEmpty
        <3>2. CASE s # {}
            <4>1. Pick(s) \in s
                BY <3>2, PickIn
            <4>2. s \ {Pick(s)} \in Small(S, n)
                BY <1>2, <3>0, <3>2, <4>1, TakeOne DEF Small
            <4>3. SumFunctionOnSet(F, s \ {Pick(s)}) = 0 /\ F[Pick(s)] = 0
                BY <3>0, <4>1, <4>2, <1>2
            <4> QED BY <3>0, <3>2, <4>1, <4>3, SumPick
        <3> QED BY <3>1, <3>2
    <2> QED BY <2>1
<1>3. P = Nat
    <2> HIDE DEF P
    <2>1. P \in SUBSET Nat
        BY DEF P
    <2> QED BY <1>1, <1>2, <2>1, CountUp
<1>4. S \in Small(S, Cardinality(S)) /\ Cardinality(S) \in Nat
    BY <1>0 DEF Small
<1> QED BY <1>3, <1>4

(* Naturals add up to a natural.                                             *)
LEMMA SumNat ==
    ASSUME NEW F, NEW S, IsFiniteSet(S), \A x \in S : F[x] \in Nat
    PROVE  SumFunctionOnSet(F, S) \in Nat
<1> DEFINE P == {n \in Nat : \A s \in Small(S, n) : SumFunctionOnSet(F, s) \in Nat}
<1>0. \A s \in SUBSET S : IsFiniteSet(s) /\ Cardinality(s) \in Nat
    BY FS_Subset, FS_CardinalityType
<1>1. 0 \in P
    <2>1. \A s \in Small(S, 0) : s = {}
        BY <1>0, FS_EmptySet DEF Small
    <2> QED BY <2>1, SumEmpty
<1>2. ASSUME NEW n \in P PROVE n + 1 \in P
    <2>1. ASSUME NEW s \in Small(S, n + 1) PROVE SumFunctionOnSet(F, s) \in Nat
        <3>0. s \in SUBSET S /\ IsFiniteSet(s) /\ Cardinality(s) <= n + 1
            BY <1>0 DEF Small
        <3>1. CASE s = {}
            BY <3>1, SumEmpty
        <3>2. CASE s # {}
            <4>1. Pick(s) \in s
                BY <3>2, PickIn
            <4>2. s \ {Pick(s)} \in Small(S, n)
                <5>1. n \in Nat
                    OBVIOUS
                <5>2. /\ Cardinality(s \ {Pick(s)}) = Cardinality(s) - 1 /\ Cardinality(s) \in Nat
                      /\ s \ {Pick(s)} \subseteq s
                    BY <3>0, <3>2, <4>1, TakeOne
                <5> HIDE DEF P
                <5> QED BY <3>0, <5>1, <5>2 DEF Small
            <4>3. SumFunctionOnSet(F, s \ {Pick(s)}) \in Nat /\ F[Pick(s)] \in Nat
                BY <3>0, <4>1, <4>2, <1>2
            <4>4. SumFunctionOnSet(F, s) = F[Pick(s)] + SumFunctionOnSet(F, s \ {Pick(s)})
                BY <3>0, <3>2, SumPick
            <4> QED BY <4>3, <4>4
        <3> QED BY <3>1, <3>2
    <2> QED BY <2>1
<1>3. P = Nat
    <2> HIDE DEF P
    <2>1. P \in SUBSET Nat
        BY DEF P
    <2> QED BY <1>1, <1>2, <2>1, CountUp
<1>4. S \in Small(S, Cardinality(S)) /\ Cardinality(S) \in Nat
    BY <1>0 DEF Small
<1> QED BY <1>3, <1>4

(* One value more or another value in one place adds what it adds.           *)
LEMMA SumAdd ==
    ASSUME NEW F, NEW S, IsFiniteSet(S), NEW x, x \notin S, \A y \in S \cup {x} : F[y] \in Int
    PROVE  SumFunctionOnSet(F, S \cup {x}) = SumFunctionOnSet(F, S) + F[x]
<1>1. IsFiniteSet(S \cup {x}) /\ (S \cup {x}) \ {x} = S
    BY FS_AddElement
<1>2. SumFunctionOnSet(F, S \cup {x}) = F[x] + SumFunctionOnSet(F, (S \cup {x}) \ {x})
    BY <1>1, SumTypedAndTaken
<1>3. SumFunctionOnSet(F, S) \in Int /\ F[x] \in Int
    BY SumTypedAndTaken
<1>4. SumFunctionOnSet(F, S \cup {x}) = F[x] + SumFunctionOnSet(F, S)
    BY <1>1, <1>2
<1> HIDE DEF SumFunctionOnSet
<1> QED BY <1>3, <1>4

LEMMA SumChange ==
    ASSUME NEW F, NEW G, NEW S, IsFiniteSet(S), NEW x \in S,
           \A y \in S : F[y] \in Int /\ G[y] \in Int, \A y \in S \ {x} : G[y] = F[y]
    PROVE  SumFunctionOnSet(G, S) = SumFunctionOnSet(F, S) + (G[x] - F[x])
<1>1. IsFiniteSet(S \ {x})
    BY FS_RemoveElement
<1>2. SumFunctionOnSet(G, S \ {x}) = SumFunctionOnSet(F, S \ {x})
    BY <1>1, SumSame
<1>3. /\ SumFunctionOnSet(F, S) = F[x] + SumFunctionOnSet(F, S \ {x})
      /\ SumFunctionOnSet(G, S) = G[x] + SumFunctionOnSet(G, S \ {x})
      /\ SumFunctionOnSet(F, S \ {x}) \in Int
    BY <1>1, SumTypedAndTaken
<1> QED BY <1>2, <1>3
=============================================================================
