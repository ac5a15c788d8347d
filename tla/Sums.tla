-------------------------------- MODULE Sums --------------------------------
(***************************************************************************)
(* Lemmas about sums over finite sets, SumFunctionOnSet of the community    *)
(* modules, that the components' proofs cite: an empty sum, the type of a   *)
(* sum, a member taken out, added or changed, sums of disjoint sets, of     *)
(* parts and of renamed members, sums compared and added.                   *)
(*                                                                         *)
(* The sum is a fold, a recursive function on the subsets of the set.  That *)
(* the function exists and is unique is proved here, by the minimal         *)
(* counterexample among the subsets: the induction principles of the        *)
(* library take the predicate as an operator, which the provers cannot      *)
(* instantiate, and LeastSubset and FiniteInduction say the same of a set.  *)
(***************************************************************************)
EXTENDS Integers, FiniteSets, Functions, FiniteSetTheorems, WellFoundedInduction, TLAPS

\* The member of a set that a fold takes first.
Picked(S) == CHOOSE x \in S : TRUE

\* One unfolding of the recursion that the fold solves: the sums of f over the
\* subsets of S, from those in g.
Unfolded(f, S, g) == [s \in SUBSET S |->
    IF s = {} THEN 0 ELSE f[Picked(s)] + g[s \ {Picked(s)}]]

\* What is picked is a member.
LEMMA PickedIsIn == ASSUME NEW S, S # {} PROVE Picked(S) \in S
BY DEF Picked

-----------------------------------------------------------------------------
(* Induction over a finite set.                                            *)

\* A family of subsets of a finite set has a member with no other below it.
LEMMA LeastSubset ==
  ASSUME NEW T, IsFiniteSet(T), NEW Z, Z \subseteq SUBSET T, Z # {}
  PROVE  \E S \in Z : \A U \in Z : U \subseteq S => U = S
<1> DEFINE R == StrictSubsetOrdering(T)
<1>1. IsWellFoundedOn(R, FiniteSubsetsOf(T))
  BY FS_StrictSubsetOrderingWellFounded
<1>2. Z \subseteq FiniteSubsetsOf(T)
  BY FS_FiniteSubsetsOfFinite
<1>3. \A U, S \in Z : U \subseteq S /\ U # S => <<U, S>> \in R
  BY DEF StrictSubsetOrdering
<1> HIDE DEF R
<1>4. PICK S \in Z : \A U \in Z : ~(<<U, S>> \in R)
  BY <1>1, <1>2, WFMin
<1> QED
  BY <1>3, <1>4

\* A set of naturals has a least member.
LEMMA LeastNumber ==
  ASSUME NEW S, S \subseteq Nat, S # {}
  PROVE  \E n \in S : \A m \in S : n <= m
<1> DEFINE R == OpToRel(<, Nat)
<1>1. IsWellFoundedOn(R, Nat)
  BY NatLessThanWellFounded
<1>2. \A m, n \in Nat : m < n => <<m, n>> \in R
  BY DEF OpToRel
<1> HIDE DEF R
<1>3. PICK n \in S : \A m \in S : ~(<<m, n>> \in R)
  BY <1>1, WFMin
<1>4. \A m \in S : ~(m < n)
  BY <1>2, <1>3
<1>5. \A m \in S : n <= m
  BY <1>4
<1> QED
  BY <1>5

\* Among the numbers up to n a set has a largest one.
LEMMA LargestNumber ==
  ASSUME NEW n \in Nat, NEW S, S \subseteq 1..n, S # {}
  PROVE  \E x \in S : \A y \in S : y <= x
<1> DEFINE D == {n - x : x \in S}
<1>1. D \subseteq Nat /\ D # {}
  <2>1. \A x \in S : x \in 1..n
    OBVIOUS
  <2>2. \A x \in S : n - x \in Nat
    BY <2>1
  <2>3. D \subseteq Nat
    BY <2>2
  <2>4. PICK x \in S : TRUE
    OBVIOUS
  <2>5. n - x \in D
    OBVIOUS
  <2> QED
    BY <2>3, <2>5
<1>2. PICK d \in D : \A e \in D : d <= e
  <2> HIDE DEF D
  <2> QED
    BY <1>1, LeastNumber
<1>3. PICK x \in S : d = n - x
  BY <1>2
<1>4. \A y \in S : y <= x
  <2> SUFFICES ASSUME NEW y \in S PROVE y <= x
    OBVIOUS
  <2>1. n - x <= n - y
    BY <1>2, <1>3
  <2> QED
    BY <2>1
<1> QED
  BY <1>3, <1>4

\* What holds of the empty set and with a member more holds of a finite set.
LEMMA FiniteInduction ==
  ASSUME NEW T, IsFiniteSet(T), NEW Z, {} \in Z,
         \A S \in SUBSET T, x \in T : S \in Z /\ x \notin S => S \cup {x} \in Z
  PROVE  T \in Z
<1> DEFINE Bad == {S \in SUBSET T : S \notin Z}
<1> SUFFICES ASSUME T \notin Z PROVE FALSE
  OBVIOUS
<1>1. PICK S \in Bad : \A U \in Bad : U \subseteq S => U = S
  <2>1. Bad \subseteq SUBSET T /\ Bad # {}
    OBVIOUS
  <2> HIDE DEF Bad
  <2> QED
    BY <2>1, LeastSubset
<1>2. PICK x \in S : TRUE
  BY <1>1
<1>3. S \ {x} \in Z
  BY <1>1, <1>2
<1>4. S = (S \ {x}) \cup {x}
  BY <1>2
<1>5. S \ {x} \in SUBSET T /\ x \in T /\ x \notin S \ {x}
  BY <1>1, <1>2
<1>6. (S \ {x}) \cup {x} \in Z
  BY <1>3, <1>5
<1>7. S \in Z
  BY <1>4, <1>6
<1> QED
  BY <1>1, <1>7

\* What holds at the start and is kept by each of n steps holds at the end.
LEMMA Counting ==
  ASSUME NEW n \in Nat, NEW Z, 0 \in Z, \A i \in 1..n : i - 1 \in Z => i \in Z
  PROVE  \A i \in 0..n : i \in Z
<1> DEFINE Bad == {i \in 0..n : i \notin Z}
<1> SUFFICES ASSUME Bad # {} PROVE FALSE
  OBVIOUS
<1>1. PICK i \in Bad : \A j \in Bad : i <= j
  <2>1. Bad \subseteq Nat
    OBVIOUS
  <2> HIDE DEF Bad
  <2> QED
    BY <2>1, LeastNumber
<1>2. i \in 1..n /\ i - 1 \in 0..n
  BY <1>1
<1>3. i - 1 \notin Bad
  BY <1>1, <1>2
<1>4. i - 1 \in Z
  BY <1>2, <1>3
<1> QED
  BY <1>1, <1>2, <1>4

-----------------------------------------------------------------------------
(* The recursion of the fold has one solution.                             *)

\* Solutions of the recursion agree where the functions summed do.
LEMMA UnfoldedAgree ==
  ASSUME NEW T, IsFiniteSet(T), NEW f, NEW e, \A x \in T : f[x] = e[x],
         NEW S, NEW g, g = Unfolded(f, S, g), T \subseteq S,
         NEW U, NEW h, h = Unfolded(e, U, h), T \subseteq U
  PROVE  g[T] = h[T]
<1> DEFINE Bad == {s \in SUBSET T : g[s] # h[s]}
<1> SUFFICES ASSUME T \in Bad PROVE FALSE
  OBVIOUS
<1>1. PICK s \in Bad : \A u \in Bad : u \subseteq s => u = s
  <2>1. Bad \subseteq SUBSET T /\ Bad # {}
    OBVIOUS
  <2> HIDE DEF Bad
  <2> QED
    BY <2>1, LeastSubset
<1>2. s # {}
  BY <1>1 DEF Unfolded
<1>3. Picked(s) \in s
  BY <1>2, PickedIsIn
<1>4. g[s \ {Picked(s)}] = h[s \ {Picked(s)}]
  BY <1>1, <1>3
<1>5. /\ g[s] = f[Picked(s)] + g[s \ {Picked(s)}]
      /\ h[s] = e[Picked(s)] + h[s \ {Picked(s)}]
  BY <1>1, <1>2 DEF Unfolded
<1>6. f[Picked(s)] = e[Picked(s)]
  BY <1>1, <1>3
<1> QED
  BY <1>1, <1>4, <1>5, <1>6

\* The fold is the value of the solution of its recursion.
LEMMA SumIsOfUnfolded ==
  ASSUME NEW f, NEW T
  PROVE  SumFunctionOnSet(f, T) = (CHOOSE g : g = Unfolded(f, T, g))[T]
BY DEF SumFunctionOnSet, FoldFunctionOnSet, MapThenFoldSet, Unfolded, Picked

\* Any solution on a larger set gives the sum, once there is one on the set.
LEMMA SumBySolution ==
  ASSUME NEW f, NEW T, IsFiniteSet(T), NEW S \in SUBSET T,
         NEW g, g = Unfolded(f, T, g), NEW h, h = Unfolded(f, S, h)
  PROVE  SumFunctionOnSet(f, S) = g[S]
<1> DEFINE k == CHOOSE k : k = Unfolded(f, S, k)
<1>1. k = Unfolded(f, S, k)
  OBVIOUS
<1>2. SumFunctionOnSet(f, S) = k[S]
  BY SumIsOfUnfolded
<1> HIDE DEF k
<1>3. IsFiniteSet(S)
  BY FS_Subset
<1>4. k[S] = g[S]
  BY <1>1, <1>3, UnfoldedAgree
<1> QED
  BY <1>2, <1>4

\* The recursion has a solution on every finite set.
LEMMA UnfoldedExists ==
  ASSUME NEW f, NEW T, IsFiniteSet(T)
  PROVE  \E g : g = Unfolded(f, T, g)
<1> DEFINE Bad == {S \in SUBSET T : ~\E g : g = Unfolded(f, S, g)}
<1> SUFFICES ASSUME T \in Bad PROVE FALSE
  OBVIOUS
<1>1. PICK S \in Bad : \A u \in Bad : u \subseteq S => u = S
  <2>1. Bad \subseteq SUBSET T /\ Bad # {}
    OBVIOUS
  <2> HIDE DEF Bad
  <2> QED
    BY <2>1, LeastSubset
<1> DEFINE h == [s \in SUBSET S |->
                   IF s = {} THEN 0
                   ELSE f[Picked(s)] + SumFunctionOnSet(f, s \ {Picked(s)})]
<1>2. ASSUME NEW s \in SUBSET S, s # S
      PROVE  h[s] = SumFunctionOnSet(f, s)
  <2>1. PICK g : g = Unfolded(f, s, g)
    BY <1>1, <1>2
  <2>2. IsFiniteSet(s)
    BY FS_Subset
  <2>3. SumFunctionOnSet(f, s) = g[s]
    BY <2>1, <2>2, SumBySolution
  <2>4. CASE s = {}
    BY <2>1, <2>3, <2>4 DEF Unfolded
  <2>5. CASE s # {}
    <3> DEFINE u == s \ {Picked(s)}
    <3>1. Picked(s) \in s
      BY <2>5, PickedIsIn
    <3>2. u \in SUBSET s /\ u \in SUBSET T /\ u # S
      BY <3>1
    <3>3. PICK k : k = Unfolded(f, u, k)
      BY <1>1, <3>2
    <3> HIDE DEF u
    <3>4. SumFunctionOnSet(f, u) = g[u]
      BY <2>1, <2>2, <3>2, <3>3, SumBySolution
    <3>5. g[s] = f[Picked(s)] + g[u]
      BY <2>1, <2>5 DEF Unfolded, u
    <3>6. h[s] = f[Picked(s)] + SumFunctionOnSet(f, u)
      BY <2>5 DEF u
    <3> QED
      BY <2>3, <3>4, <3>5, <3>6
  <2> QED
    BY <2>4, <2>5
<1>3. \A s \in SUBSET S :
        s # {} => h[s \ {Picked(s)}] = SumFunctionOnSet(f, s \ {Picked(s)})
  BY <1>2, PickedIsIn
<1>4. h = Unfolded(f, S, h)
  BY <1>3 DEF Unfolded
<1> QED
  BY <1>1, <1>4

-----------------------------------------------------------------------------
(* Sums.                                                                   *)

\* The empty sum.
LEMMA SumOfNone ==
  ASSUME NEW f
  PROVE  SumFunctionOnSet(f, {}) = 0
<1>1. IsFiniteSet({})
  BY FS_EmptySet
<1>2. PICK g : g = Unfolded(f, {}, g)
  BY <1>1, UnfoldedExists
<1>3. SumFunctionOnSet(f, {}) = g[{}]
  BY <1>1, <1>2, SumBySolution
<1> QED
  BY <1>2, <1>3 DEF Unfolded

\* A sum is a member's value, the one picked, and the sum of the others.
LEMMA SumUnfolds ==
  ASSUME NEW f, NEW S, IsFiniteSet(S), S # {}
  PROVE  SumFunctionOnSet(f, S) = f[Picked(S)] + SumFunctionOnSet(f, S \ {Picked(S)})
<1> DEFINE U == S \ {Picked(S)}
<1>1. U \in SUBSET S /\ IsFiniteSet(U)
  BY FS_Subset
<1>2. PICK g : g = Unfolded(f, S, g)
  BY UnfoldedExists
<1>3. PICK h : h = Unfolded(f, U, h)
  BY <1>1, UnfoldedExists
<1> HIDE DEF U
<1>4. SumFunctionOnSet(f, S) = g[S]
  BY <1>2, SumBySolution
<1>5. SumFunctionOnSet(f, U) = g[U]
  BY <1>1, <1>2, <1>3, SumBySolution
<1>6. g[S] = f[Picked(S)] + g[U]
  BY <1>2 DEF Unfolded, U
<1> QED
  BY <1>4, <1>5, <1>6 DEF U

\* A sum depends on the values at the members alone.
LEMMA SumEqual ==
  ASSUME NEW S, IsFiniteSet(S), NEW f, NEW g, \A x \in S : f[x] = g[x]
  PROVE  SumFunctionOnSet(f, S) = SumFunctionOnSet(g, S)
<1>1. PICK h : h = Unfolded(f, S, h)
  BY UnfoldedExists
<1>2. PICK k : k = Unfolded(g, S, k)
  BY UnfoldedExists
<1>3. SumFunctionOnSet(f, S) = h[S] /\ SumFunctionOnSet(g, S) = k[S]
  BY <1>1, <1>2, SumBySolution
<1>4. h[S] = k[S]
  BY <1>1, <1>2, UnfoldedAgree
<1> QED
  BY <1>3, <1>4

\* Sums of integers are integers.
LEMMA SumInt ==
  ASSUME NEW S, IsFiniteSet(S), NEW f, \A x \in S : f[x] \in Int
  PROVE  SumFunctionOnSet(f, S) \in Int
<1> DEFINE Bad == {U \in SUBSET S : SumFunctionOnSet(f, U) \notin Int}
<1> SUFFICES ASSUME S \in Bad PROVE FALSE
  OBVIOUS
<1>1. PICK U \in Bad : \A V \in Bad : V \subseteq U => V = U
  <2>1. Bad \subseteq SUBSET S /\ Bad # {}
    OBVIOUS
  <2> HIDE DEF Bad
  <2> QED
    BY <2>1, LeastSubset
<1>2. U # {}
  <2>1. SumFunctionOnSet(f, {}) \in Int
    BY SumOfNone
  <2> QED
    BY <1>1, <2>1
<1>3. IsFiniteSet(U) /\ Picked(U) \in U
  BY <1>2, FS_Subset, PickedIsIn
<1>4. SumFunctionOnSet(f, U \ {Picked(U)}) \in Int
  BY <1>1, <1>3
<1>5. SumFunctionOnSet(f, U) = f[Picked(U)] + SumFunctionOnSet(f, U \ {Picked(U)})
  BY <1>2, <1>3, SumUnfolds
<1>6. f[Picked(U)] \in Int
  BY <1>3
<1> QED
  BY <1>4, <1>5, <1>6

\* Any member can be taken out first.
LEMMA SumTake ==
  ASSUME NEW S, IsFiniteSet(S), NEW f, \A x \in S : f[x] \in Int, NEW x \in S
  PROVE  SumFunctionOnSet(f, S) = f[x] + SumFunctionOnSet(f, S \ {x})
<1> DEFINE Bad == {U \in SUBSET S : \E y \in U :
                     SumFunctionOnSet(f, U) # f[y] + SumFunctionOnSet(f, U \ {y})}
<1> SUFFICES ASSUME S \in Bad PROVE FALSE
  OBVIOUS
<1>1. PICK U \in Bad : \A V \in Bad : V \subseteq U => V = U
  <2>1. Bad \subseteq SUBSET S /\ Bad # {}
    OBVIOUS
  <2> HIDE DEF Bad
  <2> QED
    BY <2>1, LeastSubset
<1>2. PICK y \in U : SumFunctionOnSet(f, U) # f[y] + SumFunctionOnSet(f, U \ {y})
  BY <1>1
<1> DEFINE c == Picked(U)
<1>3. IsFiniteSet(U) /\ c \in U
  BY <1>2, FS_Subset, PickedIsIn
<1>4. SumFunctionOnSet(f, U) = f[c] + SumFunctionOnSet(f, U \ {c})
  BY <1>2, <1>3, SumUnfolds
<1> HIDE DEF c
<1>5. c # y
  BY <1>2, <1>4
<1>6. U \ {c} \notin Bad /\ U \ {y} \notin Bad
  <2>1. U \ {c} # U /\ U \ {y} # U /\ U \ {c} \subseteq U /\ U \ {y} \subseteq U
    BY <1>2, <1>3
  <2> HIDE DEF Bad
  <2> QED
    BY <1>1, <2>1
<1>7. SumFunctionOnSet(f, U \ {c}) = f[y] + SumFunctionOnSet(f, (U \ {c}) \ {y})
  BY <1>2, <1>3, <1>5, <1>6
<1>8. SumFunctionOnSet(f, U \ {y}) = f[c] + SumFunctionOnSet(f, (U \ {y}) \ {c})
  BY <1>2, <1>3, <1>5, <1>6
<1>9. (U \ {y}) \ {c} = (U \ {c}) \ {y}
  OBVIOUS
<1>10. SumFunctionOnSet(f, (U \ {c}) \ {y}) \in Int
  BY <1>3, FS_Subset, SumInt
<1>11. f[c] \in Int /\ f[y] \in Int
  BY <1>2, <1>3
<1> QED
  BY <1>2, <1>4, <1>7, <1>8, <1>9, <1>10, <1>11

\* A member more.
LEMMA SumWith ==
  ASSUME NEW S, IsFiniteSet(S), NEW x, x \notin S,
         NEW f, \A y \in S \cup {x} : f[y] \in Int
  PROVE  SumFunctionOnSet(f, S \cup {x}) = f[x] + SumFunctionOnSet(f, S)
<1> DEFINE T == S \cup {x}
<1>1. IsFiniteSet(T)
  BY FS_AddElement
<1>2. T \ {x} = S /\ x \in T
  OBVIOUS
<1> HIDE DEF T
<1>3. SumFunctionOnSet(f, T) = f[x] + SumFunctionOnSet(f, T \ {x})
  <2>1. \A y \in T : f[y] \in Int
    BY DEF T
  <2> QED
    BY <1>1, <1>2, <2>1, SumTake
<1> QED
  BY <1>2, <1>3 DEF T

\* The sum of the sums of values.
LEMMA SumPlus ==
  ASSUME NEW S, IsFiniteSet(S), NEW f, NEW g, NEW h,
         \A x \in S : f[x] \in Int /\ g[x] \in Int /\ h[x] = f[x] + g[x]
  PROVE  SumFunctionOnSet(h, S) = SumFunctionOnSet(f, S) + SumFunctionOnSet(g, S)
<1> DEFINE Z == {U \in SUBSET S :
             SumFunctionOnSet(h, U) = SumFunctionOnSet(f, U) + SumFunctionOnSet(g, U)}
<1>1. {} \in Z
  BY SumOfNone
<1>2. ASSUME NEW U \in SUBSET S, NEW x \in S, U \in Z, x \notin U
      PROVE  U \cup {x} \in Z
  <2>1. IsFiniteSet(U)
    BY FS_Subset
  <2>2. \A y \in U \cup {x} : f[y] \in Int /\ g[y] \in Int /\ h[y] \in Int
    OBVIOUS
  <2>3. /\ SumFunctionOnSet(f, U \cup {x}) = f[x] + SumFunctionOnSet(f, U)
        /\ SumFunctionOnSet(g, U \cup {x}) = g[x] + SumFunctionOnSet(g, U)
        /\ SumFunctionOnSet(h, U \cup {x}) = h[x] + SumFunctionOnSet(h, U)
    BY <1>2, <2>1, <2>2, SumWith
  <2>4. /\ SumFunctionOnSet(f, U) \in Int /\ SumFunctionOnSet(g, U) \in Int
        /\ f[x] \in Int /\ g[x] \in Int /\ h[x] = f[x] + g[x]
    BY <2>1, <2>2, SumInt
  <2> QED
    BY <1>2, <2>3, <2>4
<1> HIDE DEF Z
<1>3. S \in Z
  BY <1>1, <1>2, FiniteInduction
<1> QED
  BY <1>3 DEF Z

\* A sum of values that are nowhere larger is no larger.
LEMMA SumAtMost ==
  ASSUME NEW S, IsFiniteSet(S), NEW f, NEW g,
         \A x \in S : f[x] \in Int /\ g[x] \in Int /\ f[x] <= g[x]
  PROVE  SumFunctionOnSet(f, S) <= SumFunctionOnSet(g, S)
<1> DEFINE Z == {U \in SUBSET S : SumFunctionOnSet(f, U) <= SumFunctionOnSet(g, U)}
<1>1. {} \in Z
  BY SumOfNone
<1>2. ASSUME NEW U \in SUBSET S, NEW x \in S, U \in Z, x \notin U
      PROVE  U \cup {x} \in Z
  <2>1. IsFiniteSet(U)
    BY FS_Subset
  <2>2. \A y \in U \cup {x} : f[y] \in Int /\ g[y] \in Int
    OBVIOUS
  <2>3. /\ SumFunctionOnSet(f, U \cup {x}) = f[x] + SumFunctionOnSet(f, U)
        /\ SumFunctionOnSet(g, U \cup {x}) = g[x] + SumFunctionOnSet(g, U)
    BY <1>2, <2>1, <2>2, SumWith
  <2>4. /\ SumFunctionOnSet(f, U) \in Int /\ SumFunctionOnSet(g, U) \in Int
        /\ f[x] \in Int /\ g[x] \in Int /\ f[x] <= g[x]
    BY <2>1, <2>2, SumInt
  <2> QED
    BY <1>2, <2>3, <2>4
<1> HIDE DEF Z
<1>3. S \in Z
  BY <1>1, <1>2, FiniteInduction
<1> QED
  BY <1>3 DEF Z

\* A sum of zeros.
LEMMA SumZero ==
  ASSUME NEW S, IsFiniteSet(S), NEW f, \A x \in S : f[x] = 0
  PROVE  SumFunctionOnSet(f, S) = 0
<1> DEFINE Z == {U \in SUBSET S : SumFunctionOnSet(f, U) = 0}
<1>1. {} \in Z
  BY SumOfNone
<1>2. ASSUME NEW U \in SUBSET S, NEW x \in S, U \in Z, x \notin U
      PROVE  U \cup {x} \in Z
  <2>2. IsFiniteSet(U) /\ \A y \in U \cup {x} : f[y] \in Int
    BY FS_Subset
  <2>1. SumFunctionOnSet(f, U \cup {x}) = f[x] + SumFunctionOnSet(f, U)
    BY <1>2, <2>2, SumWith
  <2> QED
    BY <1>2, <2>1
<1> HIDE DEF Z
<1>3. S \in Z
  BY <1>1, <1>2, FiniteInduction
<1> QED
  BY <1>3 DEF Z

\* Sums of naturals are naturals.
LEMMA SumNat ==
  ASSUME NEW S, IsFiniteSet(S), NEW f, \A x \in S : f[x] \in Nat
  PROVE  SumFunctionOnSet(f, S) \in Nat
<1> DEFINE z == [x \in S |-> 0]
<1>1. SumFunctionOnSet(z, S) = 0
  BY SumZero
<1>2. \A x \in S : z[x] \in Int /\ f[x] \in Int /\ z[x] <= f[x]
  OBVIOUS
<1> HIDE DEF z
<1>3. SumFunctionOnSet(z, S) <= SumFunctionOnSet(f, S)
  BY <1>2, SumAtMost
<1>4. SumFunctionOnSet(f, S) \in Int
  BY <1>2, SumInt
<1> QED
  BY <1>1, <1>3, <1>4

\* The sum over two sets without a common member.
LEMMA SumOfUnion ==
  ASSUME NEW S, IsFiniteSet(S), NEW T, IsFiniteSet(T), S \cap T = {},
         NEW f, \A x \in S \cup T : f[x] \in Int
  PROVE  SumFunctionOnSet(f, S \cup T) = SumFunctionOnSet(f, S) + SumFunctionOnSet(f, T)
<1> DEFINE Z == {U \in SUBSET T :
             SumFunctionOnSet(f, S \cup U) = SumFunctionOnSet(f, S) + SumFunctionOnSet(f, U)}
<1>0. SumFunctionOnSet(f, S) \in Int
  BY SumInt
<1>1. {} \in Z
  <2>1. S \cup {} = S
    OBVIOUS
  <2> QED
    BY <1>0, <2>1, SumOfNone
<1>2. ASSUME NEW U \in SUBSET T, NEW x \in T, U \in Z, x \notin U
      PROVE  U \cup {x} \in Z
  <2> DEFINE V == S \cup U
  <2>1. IsFiniteSet(U) /\ IsFiniteSet(V)
    BY FS_Subset, FS_Union
  <2>2. /\ \A y \in U \cup {x} : f[y] \in Int
        /\ \A y \in V \cup {x} : f[y] \in Int
        /\ x \notin V /\ S \cup (U \cup {x}) = V \cup {x}
    BY <1>2
  <2>3. /\ SumFunctionOnSet(f, U \cup {x}) = f[x] + SumFunctionOnSet(f, U)
    BY <1>2, <2>1, <2>2, SumWith
  <2>4. SumFunctionOnSet(f, V) = SumFunctionOnSet(f, S) + SumFunctionOnSet(f, U)
    BY <1>2
  <2> HIDE DEF V
  <2>5. SumFunctionOnSet(f, V \cup {x}) = f[x] + SumFunctionOnSet(f, V)
    BY <2>1, <2>2, SumWith
  <2>6. SumFunctionOnSet(f, U) \in Int /\ f[x] \in Int
    BY <2>1, <2>2, SumInt
  <2>7. SumFunctionOnSet(f, V \cup {x})
          = SumFunctionOnSet(f, S) + SumFunctionOnSet(f, U \cup {x})
    BY <1>0, <2>3, <2>4, <2>5, <2>6
  <2> QED
    BY <1>2, <2>2, <2>7
<1> HIDE DEF Z
<1>3. T \in Z
  BY <1>1, <1>2, FiniteInduction
<1> QED
  BY <1>3 DEF Z

\* What counts for zero can be left out.
LEMMA SumOfSome ==
  ASSUME NEW S, IsFiniteSet(S), NEW T \in SUBSET S, NEW f, NEW g,
         \A x \in T : f[x] \in Int /\ g[x] = f[x], \A x \in S \ T : g[x] = 0
  PROVE  SumFunctionOnSet(g, S) = SumFunctionOnSet(f, T)
<1> DEFINE R == S \ T
<1>1. IsFiniteSet(T) /\ IsFiniteSet(R)
  BY FS_Subset
<1>2. /\ S = T \cup R /\ T \cap R = {} /\ \A x \in R : g[x] = 0
      /\ \A x \in T \cup R : g[x] \in Int
  OBVIOUS
<1> HIDE DEF R
<1>3. SumFunctionOnSet(g, T \cup R) = SumFunctionOnSet(g, T) + SumFunctionOnSet(g, R)
  BY <1>1, <1>2, SumOfUnion
<1>4. SumFunctionOnSet(g, R) = 0
  BY <1>1, <1>2, SumZero
<1>5. SumFunctionOnSet(g, T) = SumFunctionOnSet(f, T) /\ SumFunctionOnSet(f, T) \in Int
  BY <1>1, SumEqual, SumInt
<1> QED
  BY <1>2, <1>3, <1>4, <1>5

\* A sum follows the one value that changes.
LEMMA SumChanged ==
  ASSUME NEW S, IsFiniteSet(S), NEW x \in S,
         NEW f, NEW g, \A y \in S : f[y] \in Int /\ g[y] \in Int,
         \A y \in S \ {x} : g[y] = f[y]
  PROVE  SumFunctionOnSet(g, S) = SumFunctionOnSet(f, S) + g[x] - f[x]
<1> DEFINE T == S \ {x}
<1>1. IsFiniteSet(T) /\ \A y \in T : f[y] \in Int /\ g[y] = f[y]
  BY FS_Subset
<1>2. /\ SumFunctionOnSet(f, S) = f[x] + SumFunctionOnSet(f, T)
      /\ SumFunctionOnSet(g, S) = g[x] + SumFunctionOnSet(g, T)
  BY SumTake
<1> HIDE DEF T
<1>3. SumFunctionOnSet(f, T) \in Int /\ SumFunctionOnSet(g, T) = SumFunctionOnSet(f, T)
  BY <1>1, SumEqual, SumInt
<1> QED
  BY <1>2, <1>3

\* A sum over other names of the members.
LEMMA SumRenamed ==
  ASSUME NEW S, IsFiniteSet(S), NEW f, NEW g, NEW h,
         \A x \in S : f[x] \in Int /\ g[h[x]] = f[x],
         \A x, y \in S : h[x] = h[y] => x = y
  PROVE  SumFunctionOnSet(f, S) = SumFunctionOnSet(g, {h[x] : x \in S})
<1> DEFINE Z == {U \in SUBSET S :
             SumFunctionOnSet(f, U) = SumFunctionOnSet(g, {h[x] : x \in U})}
<1>1. {} \in Z
  <2>1. {h[x] : x \in {}} = {}
    OBVIOUS
  <2> QED
    BY <2>1, SumOfNone
<1>2. ASSUME NEW U \in SUBSET S, NEW x \in S, U \in Z, x \notin U
      PROVE  U \cup {x} \in Z
  <2> DEFINE V == {h[y] : y \in U}
  <2>1. IsFiniteSet(U)
    BY FS_Subset
  <2>2. IsFiniteSet(V)
    <3> DEFINE e == [y \in U |-> h[y]]
    <3>1. e \in Surjection(U, V)
      BY DEF Surjection
    <3> QED
      BY <2>1, <3>1, FS_Surjection
  <2>3. /\ \A y \in U \cup {x} : f[y] \in Int
        /\ \A z \in V \cup {h[x]} : g[z] \in Int
        /\ h[x] \notin V /\ {h[y] : y \in U \cup {x}} = V \cup {h[x]}
    BY <1>2
  <2>4. /\ SumFunctionOnSet(f, U \cup {x}) = f[x] + SumFunctionOnSet(f, U)
    BY <1>2, <2>1, <2>3, SumWith
  <2>5. SumFunctionOnSet(f, U) = SumFunctionOnSet(g, V)
    BY <1>2
  <2> HIDE DEF V
  <2>6. SumFunctionOnSet(g, V \cup {h[x]}) = g[h[x]] + SumFunctionOnSet(g, V)
    BY <2>2, <2>3, SumWith
  <2>7. SumFunctionOnSet(f, U \cup {x}) = SumFunctionOnSet(g, {h[y] : y \in U \cup {x}})
    BY <2>3, <2>4, <2>5, <2>6
  <2> QED
    BY <1>2, <2>7
<1> HIDE DEF Z
<1>3. S \in Z
  BY <1>1, <1>2, FiniteInduction
<1> QED
  BY <1>3 DEF Z

\* A sum is the sum of the sums over the parts a key divides the set into.
LEMMA SumOfParts ==
  ASSUME NEW S, IsFiniteSet(S), NEW f, \A x \in S : f[x] \in Int,
         NEW K, IsFiniteSet(K), NEW key, \A x \in S : key[x] \in K,
         NEW part, \A k \in K : part[k] = {x \in S : key[x] = k},
         NEW g, \A k \in K : g[k] = SumFunctionOnSet(f, part[k])
  PROVE  SumFunctionOnSet(f, S) = SumFunctionOnSet(g, K)
<1> DEFINE over(L) == {x \in S : key[x] \in L}
           Z == {L \in SUBSET K : SumFunctionOnSet(f, over(L)) = SumFunctionOnSet(g, L)}
<1>1. {} \in Z
  <2>1. over({}) = {}
    OBVIOUS
  <2> QED
    BY <2>1, SumOfNone
<1>2. ASSUME NEW L \in SUBSET K, NEW k \in K, L \in Z, k \notin L
      PROVE  L \cup {k} \in Z
  <2> DEFINE A == over(L)
             B == part[k]
             C == over(L \cup {k})
  <2>1. IsFiniteSet(L) /\ IsFiniteSet(A) /\ IsFiniteSet(B)
    BY FS_Subset
  <2>2. A \cap B = {} /\ C = A \cup B /\ \A x \in A \cup B : f[x] \in Int
    BY <1>2
  <2>3. \A m \in L \cup {k} : g[m] \in Int
    <3> SUFFICES ASSUME NEW m \in K PROVE g[m] \in Int
      OBVIOUS
    <3>1. part[m] \in SUBSET S
      OBVIOUS
    <3>2. IsFiniteSet(part[m]) /\ \A x \in part[m] : f[x] \in Int
      BY <3>1, FS_Subset
    <3>3. g[m] = SumFunctionOnSet(f, part[m])
      OBVIOUS
    <3> QED
      BY <3>1, <3>2, <3>3, SumInt
  <2>4. SumFunctionOnSet(f, A) = SumFunctionOnSet(g, L) /\ g[k] = SumFunctionOnSet(f, B)
    BY <1>2
  <2> HIDE DEF A, B, C
  <2>5. SumFunctionOnSet(f, A \cup B) = SumFunctionOnSet(f, A) + SumFunctionOnSet(f, B)
    BY <2>1, <2>2, SumOfUnion
  <2>6. SumFunctionOnSet(g, L \cup {k}) = g[k] + SumFunctionOnSet(g, L)
    BY <1>2, <2>1, <2>3, SumWith
  <2>7. SumFunctionOnSet(g, L) \in Int /\ g[k] \in Int
    BY <2>1, <2>3, SumInt
  <2>8. SumFunctionOnSet(f, C) = SumFunctionOnSet(g, L \cup {k})
    BY <2>2, <2>4, <2>5, <2>6, <2>7
  <2> QED
    BY <1>2, <2>8 DEF C
<1>3. K \in Z
  <2> HIDE DEF Z
  <2> QED
    BY <1>1, <1>2, FiniteInduction
<1>4. over(K) = S
  OBVIOUS
<1> QED
  BY <1>3, <1>4
=============================================================================
