----------------------------- MODULE SumProofs -----------------------------
(***************************************************************************)
(* Sums over finite sets, as the community modules define them: what a     *)
(* balance, a reservation or a total does when one row of a table is       *)
(* added, removed or changed.                                              *)
(*                                                                         *)
(* SumFunctionOnSet is a fold, that is, a recursive function on the        *)
(* subsets of the set.  The induction over these subsets takes a smallest  *)
(* counterexample, which theorem WFMin provides.                           *)
(***************************************************************************)
EXTENDS Integers, Functions, FiniteSetTheorems, WellFoundedInduction, TLAPS

\* A set of finite sets that is not empty has a member with no smaller one.
LEMMA Smallest ==
    ASSUME NEW S, IsFiniteSet(S), NEW Bad, Bad \subseteq SUBSET S, Bad # {}
    PROVE  \E T \in Bad : \A U \in Bad : U \subseteq T => U = T
<1>1. IsWellFoundedOn(StrictSubsetOrdering(S), FiniteSubsetsOf(S))
    BY FS_StrictSubsetOrderingWellFounded
<1>2. FiniteSubsetsOf(S) = SUBSET S
    BY FS_FiniteSubsetsOfFinite
<1>3. PICK T \in Bad : \A U \in Bad : ~(<<U, T>> \in StrictSubsetOrdering(S))
    BY <1>1, <1>2, WFMin
<1>4. ASSUME NEW U \in Bad, U \subseteq T PROVE U = T
    BY <1>3, <1>4 DEF StrictSubsetOrdering
<1>5. QED
    BY <1>4

\* A set of numbers that is not empty has a least one.
LEMMA LeastNumber ==
    ASSUME NEW Bad, Bad \subseteq Nat, Bad # {}
    PROVE  \E k \in Bad : \A j \in Bad : k <= j
<1>1. PICK b \in Bad : TRUE
    OBVIOUS
<1> DEFINE all   == 0 .. b
           Heads == {0 .. j : j \in Bad \cap 0 .. b}
<1>2. IsFiniteSet(all)
    BY FS_Interval
<1>3. Heads \subseteq SUBSET all /\ Heads # {}
    <2>1. b \in Bad \cap 0 .. b
        BY <1>1
    <2>2. \A j \in Bad \cap 0 .. b : 0 .. j \subseteq 0 .. b
        OBVIOUS
    <2>3. QED
        BY <2>1, <2>2
<1>4. PICK T \in Heads : \A U \in Heads : U \subseteq T => U = T
    <2> HIDE DEF Heads, all
    <2>1. QED
        BY <1>2, <1>3, Smallest
<1>5. PICK k \in Bad \cap 0 .. b : T = 0 .. k
    OBVIOUS
<1>6. ASSUME NEW j \in Bad, j < k PROVE FALSE
    <2>1. j \in Bad \cap 0 .. b /\ 0 .. j \subseteq T
        BY <1>5, <1>6
    <2>2. 0 .. j = 0 .. k
        BY <1>4, <1>5, <2>1
    <2>3. QED
        BY <1>5, <1>6, <2>2
<1>7. QED
    BY <1>5, <1>6

-----------------------------------------------------------------------------
(***************************************************************************)
(* The recursion of the fold has a solution: approximations to it are      *)
(* built for the subsets of at most n elements.                            *)
(***************************************************************************)
Picked(T) == CHOOSE x \in T : TRUE

Unfolded(f, g, T) == IF T = {} THEN 0 ELSE f[Picked(T)] + g[T \ {Picked(T)}]

LEMMA PickedFact == \A T : T # {} => Picked(T) \in T
BY DEF Picked

\* The subsets of S that do not reach beyond T satisfy the recursion.
Approximates(g, f, U) ==
    \A T \in SUBSET U : g[T] = Unfolded(f, g, T)

LEMMA ApproximationsAgree ==
    ASSUME NEW f, NEW U, IsFiniteSet(U), NEW g, NEW h,
           Approximates(g, f, U), Approximates(h, f, U)
    PROVE  g[U] = h[U]
<1> DEFINE Bad == {T \in SUBSET U : g[T] # h[T]}
<1>1. SUFFICES ASSUME g[U] # h[U] PROVE FALSE
    OBVIOUS
<1>2. Bad \subseteq SUBSET U /\ Bad # {}
    BY <1>1
<1>3. PICK T \in Bad : \A V \in Bad : V \subseteq T => V = T
    <2> HIDE DEF Bad
    <2>1. QED
        BY <1>2, Smallest
<1>4. T # {}
    BY DEF Approximates, Unfolded
<1>5. T \ {Picked(T)} \in SUBSET U /\ T \ {Picked(T)} \notin Bad
    BY <1>3, <1>4, PickedFact
<1>6. QED
    BY <1>4, <1>5 DEF Approximates, Unfolded

LEMMA Approximation ==
    ASSUME NEW f, NEW S, IsFiniteSet(S)
    PROVE  \E g : g = [T \in SUBSET S |-> Unfolded(f, g, T)]
<1> DEFINE Good(U) == \E g : g = [T \in SUBSET U |-> Unfolded(f, g, T)]
           Bad == {U \in SUBSET S : ~Good(U)}
<1>1. SUFFICES ASSUME Bad # {} PROVE FALSE
    OBVIOUS
<1>2. PICK U \in Bad : \A V \in Bad : V \subseteq U => V = U
    <2> HIDE DEF Bad
    <2>1. Bad \subseteq SUBSET S
        BY DEF Bad
    <2>2. QED
        BY <1>1, <2>1, Smallest
<1>3. \A V \in SUBSET U : V # U => Good(V)
    BY <1>2
<1> DEFINE at(V) == CHOOSE g : g = [T \in SUBSET V |-> Unfolded(f, g, T)]
           value(V) == at(V)[V]
           h == [V \in SUBSET U |-> IF V = {} THEN 0 ELSE f[Picked(V)] + value(V \ {Picked(V)})]
<1>4. \A V \in SUBSET U : V # U => at(V) = [T \in SUBSET V |-> Unfolded(f, at(V), T)]
    BY <1>3
<1> HIDE DEF at
<1>5. \A V \in SUBSET U : V # U => Approximates(at(V), f, V)
    BY <1>4 DEF Approximates
<1>5a. \A V \in SUBSET U : V # U => \A W \in SUBSET V : Approximates(at(V), f, W) 
    BY <1>5 DEF Approximates
<1>5b. \A V \in SUBSET U : IsFiniteSet(V)
    BY FS_Subset
<1>6. \A V \in SUBSET U : V # U => \A W \in SUBSET V : at(V)[W] = value(W)
    <2>1. SUFFICES ASSUME NEW V \in SUBSET U, V # U, NEW W \in SUBSET V PROVE at(V)[W] = at(W)[W]
        OBVIOUS
    <2>2. W \in SUBSET U /\ W # U /\ IsFiniteSet(W)
        BY <2>1, <1>5b
    <2>3. Approximates(at(V), f, W) /\ Approximates(at(W), f, W)
        BY <2>1, <2>2, <1>5a
    <2>4. QED
        BY <2>2, <2>3, ApproximationsAgree
<1>7. \A V \in SUBSET U : V # U => value(V) = h[V]
    <2>1. SUFFICES ASSUME NEW V \in SUBSET U, V # U PROVE at(V)[V] = h[V]
        OBVIOUS
    <2>2. at(V)[V] = Unfolded(f, at(V), V)
        BY <2>1, <1>5 DEF Approximates
    <2>3. V # {} => V \ {Picked(V)} \in SUBSET V
        OBVIOUS
    <2>4. V # {} => at(V)[V \ {Picked(V)}] = value(V \ {Picked(V)})
        BY <2>1, <2>3, <1>6
    <2>5. QED
        BY <2>2, <2>4 DEF Unfolded
<1>8. ASSUME NEW V \in SUBSET U PROVE h[V] = Unfolded(f, h, V)
    <2>1. CASE V = {}
        BY <2>1 DEF Unfolded
    <2>2. CASE V # {}
        <3>1. V \ {Picked(V)} \in SUBSET U /\ V \ {Picked(V)} # U
            BY <2>2, PickedFact
        <3>2. value(V \ {Picked(V)}) = h[V \ {Picked(V)}]
            BY <3>1, <1>7
        <3>3. h[V] = f[Picked(V)] + value(V \ {Picked(V)})
            BY <2>2
        <3>4. QED
            BY <2>2, <3>2, <3>3 DEF Unfolded
    <2>3. QED
        BY <2>1, <2>2
<1>9. h = [V \in SUBSET U |-> Unfolded(f, h, V)]
    <2> DEFINE k == [V \in SUBSET U |-> Unfolded(f, h, V)]
    <2>1. DOMAIN h = SUBSET U /\ DOMAIN k = SUBSET U
        OBVIOUS
    <2>2. \A V \in SUBSET U : h[V] = k[V]
        BY <1>8
    <2>3. h = [V \in SUBSET U |-> h[V]] /\ k = [V \in SUBSET U |-> k[V]]
        OBVIOUS
    <2> HIDE DEF h, k
    <2>4. h = k
        BY <2>1, <2>2, <2>3
    <2>5. QED
        BY <2>4 DEF k
<1>10. Good(U)
    <2> HIDE DEF h
    <2>1. QED
        BY <1>9
<1>11. QED
    BY <1>2, <1>10

-----------------------------------------------------------------------------
(***************************************************************************)
(* What the sum of a set is made of, one element at a time.                *)
(***************************************************************************)
LEMMA SumUnfolds ==
    ASSUME NEW f, NEW S, IsFiniteSet(S)
    PROVE  \E g : Approximates(g, f, S) /\ SumFunctionOnSet(f, S) = g[S]
<1> DEFINE iter == CHOOSE g : g = [T \in SUBSET S |-> Unfolded(f, g, T)]
<1>1. iter = [T \in SUBSET S |-> Unfolded(f, iter, T)]
    BY Approximation
<1>2. SumFunctionOnSet(f, S) = iter[S]
    BY DEF SumFunctionOnSet, FoldFunctionOnSet, MapThenFoldSet, Unfolded, Picked
<1> HIDE DEF iter
<1>3. Approximates(iter, f, S)
    BY <1>1 DEF Approximates
<1>4. QED
    BY <1>2, <1>3

LEMMA SumStep ==
    ASSUME NEW f, NEW S, IsFiniteSet(S)
    PROVE  /\ S = {} => SumFunctionOnSet(f, S) = 0
           /\ S # {} => SumFunctionOnSet(f, S)
                          = f[Picked(S)] + SumFunctionOnSet(f, S \ {Picked(S)})
<1>1. PICK g : Approximates(g, f, S) /\ SumFunctionOnSet(f, S) = g[S]
    BY SumUnfolds
<1>2. S = {} => SumFunctionOnSet(f, S) = 0
    BY <1>1 DEF Approximates, Unfolded
<1>3. ASSUME S # {}
      PROVE  SumFunctionOnSet(f, S) = f[Picked(S)] + SumFunctionOnSet(f, S \ {Picked(S)})
    <2> DEFINE rest == S \ {Picked(S)}
    <2>1. IsFiniteSet(rest)
        BY FS_Subset
    <2>2. PICK h : Approximates(h, f, rest) /\ SumFunctionOnSet(f, rest) = h[rest]
        BY <2>1, SumUnfolds
    <2>3. Approximates(g, f, rest)
        BY <1>1 DEF Approximates
    <2>4. g[rest] = h[rest]
        BY <2>1, <2>2, <2>3, ApproximationsAgree
    <2>5. QED
        BY <1>1, <1>3, <2>2, <2>4 DEF Approximates, Unfolded
<1>4. QED
    BY <1>2, <1>3

LEMMA SumEmpty == \A f : SumFunctionOnSet(f, {}) = 0
BY SumStep, FS_EmptySet

LEMMA SumType ==
    ASSUME NEW f, NEW S, IsFiniteSet(S), \A x \in S : f[x] \in Int
    PROVE  SumFunctionOnSet(f, S) \in Int
<1> DEFINE Bad == {T \in SUBSET S : SumFunctionOnSet(f, T) \notin Int}
<1>1. SUFFICES ASSUME Bad # {} PROVE FALSE
    OBVIOUS
<1>2. PICK T \in Bad : \A V \in Bad : V \subseteq T => V = T
    <2> HIDE DEF Bad
    <2>1. Bad \subseteq SUBSET S
        BY DEF Bad
    <2>2. QED
        BY <1>1, <2>1, Smallest
<1>3. IsFiniteSet(T)
    BY FS_Subset
<1>4. T # {}
    <2>1. SumFunctionOnSet(f, {}) \in Int
        BY SumEmpty
    <2>2. QED
        BY <1>2, <2>1
<1>5. Picked(T) \in T /\ T \ {Picked(T)} \notin Bad
    BY <1>2, <1>4, PickedFact
<1>6. QED
    BY <1>3, <1>4, <1>5, SumStep

\* The order in which elements are taken does not matter.
LEMMA SumRemove ==
    ASSUME NEW f, NEW S, IsFiniteSet(S), \A y \in S : f[y] \in Int
    PROVE  \A x \in S : SumFunctionOnSet(f, S) = f[x] + SumFunctionOnSet(f, S \ {x})
<1> DEFINE Sum(T) == SumFunctionOnSet(f, T)
           Bad == {T \in SUBSET S : \E x \in T : Sum(T) # f[x] + Sum(T \ {x})}
<1>1. SUFFICES ASSUME Bad # {} PROVE FALSE
    OBVIOUS
<1>2. PICK T \in Bad : \A V \in Bad : V \subseteq T => V = T
    <2> HIDE DEF Bad
    <2>1. Bad \subseteq SUBSET S
        BY DEF Bad
    <2>2. QED
        BY <1>1, <2>1, Smallest
<1>3. PICK x \in T : Sum(T) # f[x] + Sum(T \ {x})
    BY <1>2
<1> DEFINE c == Picked(T)
<1> HIDE DEF Sum
<1>4. \A V \in SUBSET S : IsFiniteSet(V) /\ Sum(V) \in Int
    <2>1. \A V \in SUBSET S : IsFiniteSet(V)
        BY FS_Subset
    <2>2. QED
        BY <2>1, SumType DEF Sum
<1>5. c \in T /\ Sum(T) = f[c] + Sum(T \ {c})
    BY <1>3, <1>4, SumStep, PickedFact DEF Sum
<1> HIDE DEF c
<1>6. c # x
    BY <1>3, <1>5
<1>7. \A V \in SUBSET T : V # T => \A y \in V : Sum(V) = f[y] + Sum(V \ {y})
    BY <1>2
<1>8. Sum(T \ {c}) = f[x] + Sum((T \ {c}) \ {x})
    BY <1>3, <1>5, <1>6, <1>7
<1>9. Sum(T \ {x}) = f[c] + Sum((T \ {x}) \ {c})
    BY <1>3, <1>5, <1>6, <1>7
<1>10. Sum((T \ {x}) \ {c}) = Sum((T \ {c}) \ {x})
    <2>1. (T \ {x}) \ {c} = (T \ {c}) \ {x}
        OBVIOUS
    <2>2. QED
        BY <2>1, Zenon
<1>11. f[c] \in Int /\ f[x] \in Int /\ Sum((T \ {c}) \ {x}) \in Int
    BY <1>3, <1>4, <1>5
<1> DEFINE rest == Sum((T \ {c}) \ {x})
           all == Sum(T)
           left == Sum(T \ {c})
           right == Sum(T \ {x})
<1>12. all = f[c] + left /\ left = f[x] + rest /\ right = f[c] + rest /\ rest \in Int
    BY <1>5, <1>8, <1>9, <1>10, <1>11
<1>13. all # f[x] + right
    BY <1>3
<1> HIDE DEF all, left, right, rest
<1>14. QED
    BY <1>11, <1>12, <1>13

LEMMA SumAdd ==
    ASSUME NEW f, NEW S, IsFiniteSet(S), NEW x, x \notin S,
           \A y \in S \cup {x} : f[y] \in Int
    PROVE  SumFunctionOnSet(f, S \cup {x}) = SumFunctionOnSet(f, S) + f[x]
<1>1. IsFiniteSet(S \cup {x}) /\ (S \cup {x}) \ {x} = S
    BY FS_AddElement
<1>2. SumFunctionOnSet(f, S \cup {x}) = f[x] + SumFunctionOnSet(f, (S \cup {x}) \ {x})
    BY <1>1, SumRemove
<1>3. SumFunctionOnSet(f, S) \in Int
    BY SumType
<1>4. SumFunctionOnSet(f, (S \cup {x}) \ {x}) = SumFunctionOnSet(f, S)
    BY <1>1, Zenon
<1>5. f[x] \in Int
    OBVIOUS
<1>6. QED
    BY <1>2, <1>3, <1>4, <1>5

\* Only the values on the set matter.
LEMMA SumSame ==
    ASSUME NEW f, NEW g, NEW S, IsFiniteSet(S), \A x \in S : f[x] = g[x]
    PROVE  SumFunctionOnSet(f, S) = SumFunctionOnSet(g, S)
<1> DEFINE Bad == {T \in SUBSET S : SumFunctionOnSet(f, T) # SumFunctionOnSet(g, T)}
<1>1. SUFFICES ASSUME Bad # {} PROVE FALSE
    OBVIOUS
<1>2. PICK T \in Bad : \A V \in Bad : V \subseteq T => V = T
    <2> HIDE DEF Bad
    <2>1. Bad \subseteq SUBSET S
        BY DEF Bad
    <2>2. QED
        BY <1>1, <2>1, Smallest
<1>3. IsFiniteSet(T)
    BY FS_Subset
<1>4. T # {}
    BY <1>2, SumEmpty
<1>5. Picked(T) \in T /\ T \ {Picked(T)} \notin Bad
    BY <1>2, <1>4, PickedFact
<1>6. QED
    BY <1>3, <1>4, <1>5, SumStep

LEMMA SumZero ==
    ASSUME NEW f, NEW S, IsFiniteSet(S), \A x \in S : f[x] = 0
    PROVE  SumFunctionOnSet(f, S) = 0
<1> DEFINE Bad == {T \in SUBSET S : SumFunctionOnSet(f, T) # 0}
<1>1. SUFFICES ASSUME Bad # {} PROVE FALSE
    OBVIOUS
<1>2. PICK T \in Bad : \A V \in Bad : V \subseteq T => V = T
    <2> HIDE DEF Bad
    <2>1. Bad \subseteq SUBSET S
        BY DEF Bad
    <2>2. QED
        BY <1>1, <2>1, Smallest
<1>3. IsFiniteSet(T)
    BY FS_Subset
<1>4. T # {}
    BY <1>2, SumEmpty
<1>5. Picked(T) \in T /\ T \ {Picked(T)} \notin Bad
    BY <1>2, <1>4, PickedFact
<1>6. QED
    BY <1>3, <1>4, <1>5, SumStep

LEMMA SumNat ==
    ASSUME NEW f, NEW S, IsFiniteSet(S), \A x \in S : f[x] \in Nat
    PROVE  SumFunctionOnSet(f, S) \in Nat
<1> DEFINE Bad == {T \in SUBSET S : SumFunctionOnSet(f, T) \notin Nat}
<1>1. SUFFICES ASSUME Bad # {} PROVE FALSE
    OBVIOUS
<1>2. PICK T \in Bad : \A V \in Bad : V \subseteq T => V = T
    <2> HIDE DEF Bad
    <2>1. Bad \subseteq SUBSET S
        BY DEF Bad
    <2>2. QED
        BY <1>1, <2>1, Smallest
<1>3. IsFiniteSet(T)
    BY FS_Subset
<1>4. T # {}
    <2>1. SumFunctionOnSet(f, {}) \in Nat
        BY SumEmpty
    <2>2. QED
        BY <1>2, <2>1
<1>5. Picked(T) \in T /\ T \ {Picked(T)} \notin Bad
    BY <1>2, <1>4, PickedFact
<1>6. QED
    BY <1>3, <1>4, <1>5, SumStep

\* One value changes: the sum changes by as much.
LEMMA SumChange ==
    ASSUME NEW f, NEW g, NEW S, IsFiniteSet(S),
           \A y \in S : f[y] \in Int /\ g[y] \in Int,
           NEW x \in S, \A y \in S \ {x} : g[y] = f[y]
    PROVE  SumFunctionOnSet(g, S) = SumFunctionOnSet(f, S) + g[x] - f[x]
<1>1. IsFiniteSet(S \ {x})
    BY FS_Subset
<1>2. SumFunctionOnSet(f, S \ {x}) = SumFunctionOnSet(g, S \ {x})
    BY <1>1, SumSame
<1>3. SumFunctionOnSet(f, S \ {x}) \in Int
    BY <1>1, SumType
<1>4. SumFunctionOnSet(f, S) = f[x] + SumFunctionOnSet(f, S \ {x})
    BY SumRemove
<1>5. SumFunctionOnSet(g, S) = g[x] + SumFunctionOnSet(g, S \ {x})
    BY SumRemove
<1>6. QED
    BY <1>2, <1>3, <1>4, <1>5

\* The sum of a set and of one without common elements.
LEMMA SumUnion ==
    ASSUME NEW f, NEW S, NEW R, IsFiniteSet(S), IsFiniteSet(R), S \cap R = {},
           \A y \in S \cup R : f[y] \in Int
    PROVE  SumFunctionOnSet(f, S \cup R) = SumFunctionOnSet(f, S) + SumFunctionOnSet(f, R)
<1> DEFINE Sum(T) == SumFunctionOnSet(f, T)
           Bad == {T \in SUBSET R : Sum(S \cup T) # Sum(S) + Sum(T)}
<1>1. SUFFICES ASSUME Bad # {} PROVE FALSE
    OBVIOUS
<1>2. PICK T \in Bad : \A V \in Bad : V \subseteq T => V = T
    <2> HIDE DEF Bad
    <2>1. Bad \subseteq SUBSET R
        BY DEF Bad
    <2>2. QED
        BY <1>1, <2>1, Smallest
<1> HIDE DEF Sum
<1>3. \A V \in SUBSET R : IsFiniteSet(V) /\ IsFiniteSet(S \cup V)
    <2>1. \A V \in SUBSET R : IsFiniteSet(V)
        BY FS_Subset
    <2>2. QED
        BY <2>1, FS_Union
<1>4. Sum(S) \in Int /\ \A V \in SUBSET R : Sum(V) \in Int
    BY <1>3, SumType DEF Sum
<1>5. T # {}
    <2>1. Sum({}) = 0
        BY SumEmpty DEF Sum
    <2>2. Sum(S \cup {}) = Sum(S)
        <3>1. S \cup {} = S
            OBVIOUS
        <3>2. QED
            BY <3>1, Zenon
    <2>3. Sum(S \cup {}) = Sum(S) + Sum({})
        BY <1>4, <2>1, <2>2
    <2>4. QED
        BY <1>2, <2>3
<1>6. PICK x \in T : TRUE
    BY <1>5
<1>7. Sum(T) = f[x] + Sum(T \ {x})
    BY <1>3, SumRemove DEF Sum
<1>8. Sum(S \cup T) = f[x] + Sum(S \cup (T \ {x}))
    <2>1. (S \cup T) \ {x} = S \cup (T \ {x}) /\ x \in S \cup T
        OBVIOUS
    <2>2. Sum(S \cup T) = f[x] + Sum((S \cup T) \ {x})
        BY <1>3, <2>1, SumRemove DEF Sum
    <2>3. QED
        BY <2>1, <2>2
<1>9. Sum(S \cup (T \ {x})) = Sum(S) + Sum(T \ {x})
    BY <1>2
<1>10. f[x] \in Int /\ Sum(T \ {x}) \in Int
    BY <1>4
<1>11. QED
    BY <1>2, <1>4, <1>7, <1>8, <1>9, <1>10

\* A sum over part of a set is one over all of it that counts the rest as nothing.
LEMMA SumFilter ==
    ASSUME NEW f, NEW g, NEW S, IsFiniteSet(S), NEW T \in SUBSET S,
           \A x \in T : f[x] \in Int /\ g[x] = f[x], \A x \in S \ T : g[x] = 0
    PROVE  SumFunctionOnSet(f, T) = SumFunctionOnSet(g, S)
<1>1. IsFiniteSet(T) /\ IsFiniteSet(S \ T)
    BY FS_Subset
<1>2. SumFunctionOnSet(f, T) = SumFunctionOnSet(g, T)
    BY <1>1, SumSame
<1>3. SumFunctionOnSet(g, S \ T) = 0
    BY <1>1, SumZero
<1>4. SumFunctionOnSet(g, T) \in Int
    BY <1>1, SumType
<1>5. SumFunctionOnSet(g, T \cup (S \ T))
          = SumFunctionOnSet(g, T) + SumFunctionOnSet(g, S \ T)
    <2>1. T \cap (S \ T) = {} /\ \A x \in T \cup (S \ T) : g[x] \in Int
        OBVIOUS
    <2>2. QED
        BY <1>1, <2>1, SumUnion
<1>6. SumFunctionOnSet(g, T \cup (S \ T)) = SumFunctionOnSet(g, S)
    <2>1. T \cup (S \ T) = S
        OBVIOUS
    <2>2. QED
        BY <2>1, Zenon
<1>7. QED
    BY <1>2, <1>3, <1>4, <1>5, <1>6

LEMMA SumNegated ==
    ASSUME NEW f, NEW g, NEW S, IsFiniteSet(S),
           \A x \in S : f[x] \in Int /\ g[x] = -f[x]
    PROVE  SumFunctionOnSet(g, S) = -SumFunctionOnSet(f, S)
<1> DEFINE SumF(T) == SumFunctionOnSet(f, T)
           SumG(T) == SumFunctionOnSet(g, T)
           Bad == {T \in SUBSET S : SumG(T) # -SumF(T)}
<1>1. SUFFICES ASSUME Bad # {} PROVE FALSE
    OBVIOUS
<1>2. PICK T \in Bad : \A V \in Bad : V \subseteq T => V = T
    <2> HIDE DEF Bad
    <2>1. Bad \subseteq SUBSET S
        BY DEF Bad
    <2>2. QED
        BY <1>1, <2>1, Smallest
<1>3. \A V \in SUBSET S : SumF(V) \in Int /\ SumG(V) \in Int
    BY FS_Subset, SumType
<1> HIDE DEF SumF, SumG
<1>4. T # {}
    <2>1. SumG({}) = -SumF({})
        BY SumEmpty DEF SumF, SumG
    <2>2. QED
        BY <1>2, <2>1
<1>5. PICK x \in T : TRUE
    BY <1>4
<1>6. SumF(T) = f[x] + SumF(T \ {x}) /\ SumG(T) = g[x] + SumG(T \ {x})
    <2>1. IsFiniteSet(T)
        BY FS_Subset
    <2>2. QED
        BY <2>1, SumRemove DEF SumF, SumG
<1>7. SumG(T \ {x}) = -SumF(T \ {x})
    BY <1>2
<1>8. QED
    BY <1>2, <1>3, <1>6, <1>7

\* The summands may be counted under other names.
LEMMA SumReindexed ==
    ASSUME NEW S, NEW T, IsFiniteSet(S), IsFiniteSet(T),
           NEW ids \in [S -> T], \A x, y \in S : ids[x] = ids[y] => x = y,
           NEW f, NEW g, \A x \in S : g[x] \in Int /\ g[x] = f[ids[x]]
    PROVE  SumFunctionOnSet(g, S) = SumFunctionOnSet(f, {ids[x] : x \in S})
<1> DEFINE Image(U) == {ids[x] : x \in U}
           SumG(U)  == SumFunctionOnSet(g, U)
           SumF(U)  == SumFunctionOnSet(f, U)
           Bad == {U \in SUBSET S : SumG(U) # SumF(Image(U))}
<1>1. SUFFICES ASSUME Bad # {} PROVE FALSE
    OBVIOUS
<1>2. PICK U \in Bad : \A V \in Bad : V \subseteq U => V = U
    <2> HIDE DEF Bad
    <2>1. Bad \subseteq SUBSET S
        BY DEF Bad
    <2>2. QED
        BY <1>1, <2>1, Smallest
<1>3. U # {}
    <2>1. SumG({}) = 0 /\ SumF({}) = 0
        BY SumEmpty
    <2>2. Image({}) = {}
        OBVIOUS
    <2>3. QED
        BY <1>2, <2>1, <2>2
<1>4. PICK x \in U : TRUE
    BY <1>3
<1> DEFINE V == U \ {x}
<1>5. x \in S /\ V \in SUBSET S /\ x \notin V /\ U = V \cup {x}
    BY <1>4
<1>6. SumG(V) = SumF(Image(V))
    BY <1>2, <1>4
<1>7. SumG(U) = SumG(V) + g[x]
    <2>1. IsFiniteSet(V) /\ \A y \in V \cup {x} : g[y] \in Int
        BY <1>5, FS_Subset
    <2> HIDE DEF V
    <2>2. QED
        BY <1>5, <2>1, SumAdd
<1>8. SumF(Image(U)) = SumF(Image(V)) + g[x]
    <2> DEFINE image == Image(V)
    <2>1. image \subseteq T /\ ids[x] \notin image /\ Image(U) = image \cup {ids[x]}
        BY <1>5
    <2>2. \A z \in image \cup {ids[x]} : f[z] \in Int
        BY <1>5
    <2>3. IsFiniteSet(image)
        BY <2>1, FS_Subset
    <2> HIDE DEF image
    <2>4. SumF(image \cup {ids[x]}) = SumF(image) + f[ids[x]]
        BY <2>1, <2>2, <2>3, SumAdd
    <2>5. QED
        BY <1>5, <2>1, <2>4 DEF image
<1>9. QED
    BY <1>2, <1>6, <1>7, <1>8

\* What is summed class by class is summed once.
LEMMA SumGrouped ==
    ASSUME NEW S, NEW T, IsFiniteSet(S), IsFiniteSet(T),
           NEW class \in [S -> T], NEW of \in [T -> SUBSET S],
           \A k \in T : \A x \in S : x \in of[k] <=> class[x] = k,
           NEW f, NEW g, \A x \in S : f[x] \in Int,
           \A k \in T : g[k] = SumFunctionOnSet(f, of[k])
    PROVE  SumFunctionOnSet(g, T) = SumFunctionOnSet(f, S)
<1> DEFINE Of(U) == {x \in S : class[x] \in U}
           Bad == {U \in SUBSET T : SumFunctionOnSet(g, U) # SumFunctionOnSet(f, Of(U))}
<1>1. SUFFICES ASSUME Bad # {} PROVE FALSE
    <2>1. Of(T) = S
        OBVIOUS
    <2>2. QED
        BY <2>1
<1>2. PICK U \in Bad : \A V \in Bad : V \subseteq U => V = U
    <2>1. Bad \subseteq SUBSET T
        OBVIOUS
    <2> HIDE DEF Bad
    <2>2. QED
        BY <1>1, <2>1, Smallest
<1>3. U # {}
    <2>1. Of({}) = {}
        OBVIOUS
    <2>2. SumFunctionOnSet(g, {}) = 0 /\ SumFunctionOnSet(f, {}) = 0
        BY SumEmpty
    <2>3. SumFunctionOnSet(g, U) # SumFunctionOnSet(f, Of(U))
        BY <1>2
    <2> HIDE DEF Of
    <2>4. QED
        BY <2>1, <2>2, <2>3
<1>4. PICK k \in U : TRUE
    BY <1>3
<1> DEFINE rest == U \ {k}
           these == {x \in S : class[x] = k}
<1>5. rest \notin Bad /\ rest \subseteq T
    BY <1>2, <1>4
<1>6. SumFunctionOnSet(g, rest) = SumFunctionOnSet(f, Of(rest))
    BY <1>5
<1>7. IsFiniteSet(U) /\ \A i \in U : g[i] \in Int
    <2>1. IsFiniteSet(U)
        BY FS_Subset
    <2>2. ASSUME NEW i \in U PROVE g[i] \in Int
        <3>1. IsFiniteSet({x \in S : class[x] = i})
            BY FS_Subset
        <3>2. SumFunctionOnSet(f, {x \in S : class[x] = i}) \in Int
            <4> DEFINE some == {x \in S : class[x] = i}
            <4>1. \A x \in some : f[x] \in Int
                OBVIOUS
            <4> HIDE DEF some
            <4>2. SumFunctionOnSet(f, some) \in Int
                BY <3>1, <4>1, SumType DEF some
            <4>3. QED
                BY <4>2 DEF some
        <3>3. i \in T
            OBVIOUS
        <3>4. of[i] = {x \in S : class[x] = i}
            BY <3>3
        <3>5. QED
            BY <3>2, <3>3, <3>4
    <2>3. QED
        BY <2>1, <2>2
<1>8. SumFunctionOnSet(g, U) = g[k] + SumFunctionOnSet(g, rest)
    BY <1>4, <1>7, SumRemove
<1>9. g[k] = SumFunctionOnSet(f, these)
    <2>1. k \in T /\ of[k] = these
        BY <1>4
    <2>2. QED
        BY <2>1, Zenon
<1>10. Of(U) = Of(rest) \cup these /\ Of(rest) \cap these = {}
    BY <1>4
<1>11. IsFiniteSet(Of(rest)) /\ IsFiniteSet(these) /\ \A x \in Of(rest) \cup these : f[x] \in Int
    BY FS_Subset
<1> DEFINE old == Of(rest)
<1> HIDE DEF these
<1>12. SumFunctionOnSet(f, Of(U)) = SumFunctionOnSet(f, Of(rest)) + SumFunctionOnSet(f, these)
    <2>1. Of(U) = old \cup these /\ old \cap these = {} /\ IsFiniteSet(old) /\ IsFiniteSet(these)
          /\ \A x \in old \cup these : f[x] \in Int
        BY <1>10, <1>11
    <2> HIDE DEF old
    <2>2. SumFunctionOnSet(f, old \cup these) = SumFunctionOnSet(f, old) + SumFunctionOnSet(f, these)
        BY <2>1, SumUnion
    <2>3. QED
        BY <2>1, <2>2 DEF old
<1>13. SumFunctionOnSet(g, rest) \in Int /\ SumFunctionOnSet(f, these) \in Int
    <2>1. SumFunctionOnSet(f, these) \in Int
        BY <1>11, SumType
    <2>2. IsFiniteSet(rest) /\ \A i \in rest : g[i] \in Int
        BY <1>7, FS_Subset
    <2> HIDE DEF rest
    <2>3. QED
        BY <2>1, <2>2, SumType
<1>14. QED
    BY <1>6, <1>8, <1>9, <1>12, <1>13, <1>2

=============================================================================
