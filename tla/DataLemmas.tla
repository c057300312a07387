----------------------------- MODULE DataLemmas -----------------------------
(***************************************************************************)
(* Facts about data that the proofs of several components need: induction  *)
(* over numbers and over finite sets, and what SumFunctionOnSet of the     *)
(* community modules computes.  Induction is stated for a set of numbers   *)
(* or of sets, since a theorem with an operator for a parameter cannot be  *)
(* instantiated by the provers.                                            *)
(***************************************************************************)
EXTENDS Integers, FiniteSets, Functions, FiniteSetTheorems,
        WellFoundedInduction, TLAPS

LEMMA LeastMember ==
  ASSUME NEW T, T \subseteq Nat, T # {}
  PROVE  \E m \in T : \A k \in T : m <= k
<1> DEFINE R == OpToRel(<, Nat)
<1>1. IsWellFoundedOn(R, Nat)
  BY NatLessThanWellFounded
<1>2. \A x, y \in Nat : y < x => <<y, x>> \in R
  BY DEF OpToRel
<1> HIDE DEF R
<1>3. PICK m \in T : \A y \in T : ~ (<<y, m>> \in R)
  BY <1>1, WFMin
<1>4. ASSUME NEW k \in T PROVE m <= k
  <2>1. m \in Nat /\ k \in Nat
    OBVIOUS
  <2>2. ~(<<k, m>> \in R)
    BY <1>3
  <2>3. ~(k < m)
    BY <1>2, <2>1, <2>2
  <2> QED BY <2>1, <2>3
<1> QED BY <1>4

LEMMA SetInduction ==
  ASSUME NEW S, 0 \in S, \A n \in Nat : n \in S => n + 1 \in S
  PROVE  Nat \subseteq S
<1> SUFFICES ASSUME Nat \ S # {} PROVE FALSE
  OBVIOUS
<1> DEFINE T == Nat \ S
<1>1. PICK m \in T : \A k \in T : m <= k
  <2>1. T \subseteq Nat /\ T # {}
    OBVIOUS
  <2> HIDE DEF T
  <2> QED BY <2>1, LeastMember
<1>2. m # 0 /\ m \in Nat
  OBVIOUS
<1>3. m - 1 \in Nat /\ ~(m <= m - 1)
  BY <1>2
<1>4. m - 1 \in S
  BY <1>1, <1>3
<1> QED BY <1>3, <1>4

(* A collection of sets that has the empty one, and with a set that set    *)
(* and one more element of S, has the finite set S.                        *)
LEMMA FiniteInduction ==
  ASSUME NEW S, IsFiniteSet(S), NEW U, {} \in U,
         \A T \in SUBSET S : \A x \in S \ T : T \in U => T \cup {x} \in U
  PROVE  S \in U
<1> DEFINE N == {n \in Nat : \A T \in SUBSET S : Cardinality(T) = n => T \in U}
<1>0. \A T \in SUBSET S : IsFiniteSet(T) /\ Cardinality(T) \in Nat
  BY FS_Subset, FS_CardinalityType
<1>1. 0 \in N
  BY <1>0, FS_EmptySet
<1>2. ASSUME NEW n \in Nat, n \in N PROVE n + 1 \in N
  <2> SUFFICES ASSUME NEW T \in SUBSET S, Cardinality(T) = n + 1 PROVE T \in U
    OBVIOUS
  <2>0. Cardinality({}) = 0 /\ n + 1 # 0
    BY FS_EmptySet
  <2>1. T # {} /\ IsFiniteSet(T)
    BY <1>0, <2>0
  <2>2. PICK x \in T : TRUE
    BY <2>1
  <2>3. Cardinality(T \ {x}) = n
    <3>1. Cardinality(T \ {x}) = Cardinality(T) - 1
      BY <2>1, FS_RemoveElement
    <3> QED BY <3>1
  <2>4. T \ {x} \in U /\ x \in S \ (T \ {x}) /\ T \ {x} \in SUBSET S
    BY <1>2, <2>3
  <2>5. (T \ {x}) \cup {x} \in U
    BY <2>4
  <2>6. (T \ {x}) \cup {x} = T
    OBVIOUS
  <2> QED BY <2>5, <2>6
<1>3. Nat \subseteq N
  <2> HIDE DEF N
  <2> QED BY <1>1, <1>2, SetInduction
<1> QED BY <1>0, <1>3
-----------------------------------------------------------------------------
(* Sums.  SumFunctionOnSet takes the elements out one by one, in an order  *)
(* of its own.                                                             *)
Pick(s) == CHOOSE x \in s : TRUE

SumStep(fun, D, g) ==
  [s \in D |-> IF s = {} THEN 0 ELSE fun[Pick(s)] + g[s \ {Pick(s)}]]

LEMMA PickIn == ASSUME NEW S, S # {} PROVE Pick(S) \in S
  BY DEF Pick

LEMMA SumIs ==
  ASSUME NEW fun, NEW S
  PROVE  SumFunctionOnSet(fun, S) =
           (CHOOSE g : g = SumStep(fun, SUBSET S, g))[S]
  BY DEF SumFunctionOnSet, FoldFunctionOnSet, MapThenFoldSet, SumStep, Pick

LEMMA SumStepExists ==
  ASSUME NEW fun, NEW S, IsFiniteSet(S)
  PROVE  \E g : g = SumStep(fun, SUBSET S, g)
<1> DEFINE D(n) == {s \in SUBSET S : Cardinality(s) <= n}
           N == {n \in Nat : \E g : g = SumStep(fun, D(n), g)}
<1>0. \A T \in SUBSET S : IsFiniteSet(T) /\ Cardinality(T) \in Nat
  BY FS_Subset, FS_CardinalityType
<1>1. 0 \in N
  <2> DEFINE g == [s \in D(0) |-> 0]
  <2>1. \A s \in D(0) : s = {}
    BY <1>0, FS_EmptySet
  <2>2. g = SumStep(fun, D(0), g)
    BY <2>1 DEF SumStep
  <2> QED BY <2>2
<1>2. ASSUME NEW n \in Nat, n \in N PROVE n + 1 \in N
  <2>1. PICK g : g = SumStep(fun, D(n), g)
    BY <1>2
  <2>2. PICK h : h = SumStep(fun, D(n + 1), g)
    OBVIOUS
  <2>3. ASSUME NEW s \in D(n + 1), s # {}
        PROVE  h[s \ {Pick(s)}] = g[s \ {Pick(s)}]
    <3> DEFINE t == s \ {Pick(s)}
    <3>1. Pick(s) \in s
      BY <2>3, PickIn
    <3>2. IsFiniteSet(s) /\ Cardinality(s) \in Nat /\ Cardinality(s) <= n + 1
      BY <1>0
    <3>3. Cardinality(t) = Cardinality(s) - 1
      BY <3>1, <3>2, FS_RemoveElement
    <3>4. t \in D(n) /\ t \in D(n + 1)
      BY <3>2, <3>3
    <3> HIDE DEF t
    <3>5. h[t] = IF t = {} THEN 0 ELSE fun[Pick(t)] + g[t \ {Pick(t)}]
      BY <2>2, <3>4 DEF SumStep
    <3>6. g[t] = IF t = {} THEN 0 ELSE fun[Pick(t)] + g[t \ {Pick(t)}]
      BY <2>1, <3>4 DEF SumStep
    <3>7. h[t] = g[t]
      BY <3>5, <3>6
    <3> QED BY <3>7 DEF t
  <2>4. h = SumStep(fun, D(n + 1), h)
    BY <2>2, <2>3 DEF SumStep
  <2> QED BY <2>4
<1>3. Nat \subseteq N
  <2> HIDE DEF N
  <2> QED BY <1>1, <1>2, SetInduction
<1>4. Cardinality(S) \in Nat /\ D(Cardinality(S)) = SUBSET S
  <2>1. \A T \in SUBSET S : Cardinality(T) <= Cardinality(S)
    BY FS_Subset
  <2>2. S \in SUBSET S
    OBVIOUS
  <2> QED BY <1>0, <2>1, <2>2
<1> QED BY <1>3, <1>4

(* The sum over a subset is the same, in whichever set it is taken.        *)
LEMMA SumStepUnique ==
  ASSUME NEW fun, NEW S, IsFiniteSet(S), NEW T \in SUBSET S, NEW g, NEW h,
         g = SumStep(fun, SUBSET S, g), h = SumStep(fun, SUBSET T, h)
  PROVE  g[T] = h[T]
<1> DEFINE N == {n \in Nat : \A s \in SUBSET T : Cardinality(s) = n => g[s] = h[s]}
<1>0. \A s \in SUBSET T : IsFiniteSet(s) /\ Cardinality(s) \in Nat
  BY FS_Subset, FS_CardinalityType
<1>e. \A s \in SUBSET T :
        /\ g[s] = IF s = {} THEN 0 ELSE fun[Pick(s)] + g[s \ {Pick(s)}]
        /\ h[s] = IF s = {} THEN 0 ELSE fun[Pick(s)] + h[s \ {Pick(s)}]
  <2> SUFFICES ASSUME NEW s \in SUBSET T
               PROVE  /\ g[s] = IF s = {} THEN 0 ELSE fun[Pick(s)] + g[s \ {Pick(s)}]
                      /\ h[s] = IF s = {} THEN 0 ELSE fun[Pick(s)] + h[s \ {Pick(s)}]
    OBVIOUS
  <2>1. s \in SUBSET S /\ s \in SUBSET T
    OBVIOUS
  <2>2. SumStep(fun, SUBSET S, g)[s] = IF s = {} THEN 0 ELSE fun[Pick(s)] + g[s \ {Pick(s)}]
    BY <2>1 DEF SumStep
  <2>3. SumStep(fun, SUBSET T, h)[s] = IF s = {} THEN 0 ELSE fun[Pick(s)] + h[s \ {Pick(s)}]
    BY <2>1 DEF SumStep
  <2> QED BY <2>2, <2>3
<1>1. 0 \in N
  BY <1>0, <1>e, FS_EmptySet
<1>2. ASSUME NEW n \in Nat, n \in N PROVE n + 1 \in N
  <2> SUFFICES ASSUME NEW s \in SUBSET T, Cardinality(s) = n + 1
               PROVE  g[s] = h[s]
    OBVIOUS
  <2>0. Cardinality({}) = 0 /\ n + 1 # 0
    BY FS_EmptySet
  <2>1. s # {} /\ IsFiniteSet(s)
    BY <1>0, <2>0
  <2>2. Pick(s) \in s
    BY <2>1, PickIn
  <2>3. Cardinality(s \ {Pick(s)}) = n /\ s \ {Pick(s)} \in SUBSET T
    <3>1. Cardinality(s \ {Pick(s)}) = Cardinality(s) - 1
      BY <2>1, <2>2, FS_RemoveElement
    <3> QED BY <3>1
  <2>4. g[s \ {Pick(s)}] = h[s \ {Pick(s)}]
    BY <1>2, <2>3
  <2> QED BY <1>e, <2>1, <2>4
<1>3. Nat \subseteq N
  <2> HIDE DEF N
  <2> QED BY <1>1, <1>2, SetInduction
<1>4. T \in SUBSET T /\ Cardinality(T) \in Nat
  BY <1>0
<1> QED BY <1>3, <1>4

LEMMA SumEmpty ==
  ASSUME NEW fun
  PROVE  SumFunctionOnSet(fun, {}) = 0
<1>1. PICK g : g = SumStep(fun, SUBSET {}, g)
  BY SumStepExists, FS_EmptySet
<1> DEFINE h == CHOOSE k : k = SumStep(fun, SUBSET {}, k)
<1>2. h = SumStep(fun, SUBSET {}, h)
  BY <1>1
<1> HIDE DEF h
<1>3. SumStep(fun, SUBSET {}, h)[{}] = 0
  BY DEF SumStep
<1>4. SumFunctionOnSet(fun, {}) = h[{}]
  BY SumIs DEF h
<1> QED BY <1>2, <1>3, <1>4

LEMMA SumPicked ==
  ASSUME NEW fun, NEW S, IsFiniteSet(S), S # {}
  PROVE  SumFunctionOnSet(fun, S) =
           fun[Pick(S)] + SumFunctionOnSet(fun, S \ {Pick(S)})
<1> DEFINE T == S \ {Pick(S)}
           g == CHOOSE k : k = SumStep(fun, SUBSET S, k)
           h == CHOOSE k : k = SumStep(fun, SUBSET T, k)
<1>0. T \in SUBSET S /\ IsFiniteSet(T)
  BY FS_Subset
<1> HIDE DEF T
<1>1. g = SumStep(fun, SUBSET S, g)
  BY SumStepExists
<1>2. h = SumStep(fun, SUBSET T, h)
  BY <1>0, SumStepExists
<1>3. SumFunctionOnSet(fun, S) = g[S] /\ SumFunctionOnSet(fun, T) = h[T]
  BY SumIs
<1> HIDE DEF g, h
<1>4. g[T] = h[T]
  BY <1>0, <1>1, <1>2, SumStepUnique
<1>5. S \in SUBSET S
  OBVIOUS
<1>6. SumStep(fun, SUBSET S, g)[S] = fun[Pick(S)] + g[T]
  BY <1>5 DEF SumStep, T
<1>7. g[S] = fun[Pick(S)] + g[T]
  BY <1>1, <1>6
<1> QED BY <1>3, <1>4, <1>7 DEF T

(* Where the values are numbers the order does not matter. *)
LEMMA SumInt ==
  ASSUME NEW fun, NEW S, IsFiniteSet(S), \A x \in S : fun[x] \in Int
  PROVE  SumFunctionOnSet(fun, S) \in Int
<1> DEFINE N == {n \in Nat : \A T \in SUBSET S :
                   Cardinality(T) = n => SumFunctionOnSet(fun, T) \in Int}
<1>0. \A T \in SUBSET S : IsFiniteSet(T) /\ Cardinality(T) \in Nat
  BY FS_Subset, FS_CardinalityType
<1>1. 0 \in N
  <2> SUFFICES ASSUME NEW T \in SUBSET S, Cardinality(T) = 0
               PROVE  SumFunctionOnSet(fun, T) \in Int
    OBVIOUS
  <2>1. T = {}
    BY <1>0, FS_EmptySet
  <2> QED BY <2>1, SumEmpty
<1>2. ASSUME NEW n \in Nat, n \in N PROVE n + 1 \in N
  <2> SUFFICES ASSUME NEW T \in SUBSET S, Cardinality(T) = n + 1
               PROVE  SumFunctionOnSet(fun, T) \in Int
    OBVIOUS
  <2>0. Cardinality({}) = 0 /\ n + 1 # 0
    BY FS_EmptySet
  <2>1. T # {} /\ IsFiniteSet(T)
    BY <1>0, <2>0
  <2>2. Pick(T) \in T
    BY <2>1, PickIn
  <2>3. Cardinality(T \ {Pick(T)}) = Cardinality(T) - 1
    BY <2>1, <2>2, FS_RemoveElement
  <2>4. SumFunctionOnSet(fun, T \ {Pick(T)}) \in Int
    BY <1>2, <2>3
  <2>5. SumFunctionOnSet(fun, T) =
          fun[Pick(T)] + SumFunctionOnSet(fun, T \ {Pick(T)})
    BY <2>1, SumPicked
  <2> QED BY <2>2, <2>4, <2>5
<1>3. Nat \subseteq N
  <2> HIDE DEF N
  <2> QED BY <1>1, <1>2, SetInduction
<1>4. S \in SUBSET S /\ Cardinality(S) \in Nat
  BY <1>0
<1> QED BY <1>3, <1>4

(* Any element may be taken out first. *)
LEMMA SumRemove ==
  ASSUME NEW fun, NEW S, IsFiniteSet(S), \A y \in S : fun[y] \in Int,
         NEW x \in S
  PROVE  SumFunctionOnSet(fun, S) = fun[x] + SumFunctionOnSet(fun, S \ {x})
<1> DEFINE Sum(T) == SumFunctionOnSet(fun, T)
           N == {n \in Nat : \A T \in SUBSET S : \A y \in T :
                   Cardinality(T) = n => Sum(T) = fun[y] + Sum(T \ {y})}
<1>0. \A T \in SUBSET S : /\ IsFiniteSet(T) /\ Cardinality(T) \in Nat
                          /\ Sum(T) \in Int
  BY FS_Subset, FS_CardinalityType, SumInt
<1>p. \A T \in SUBSET S : T # {} =>
        Pick(T) \in T /\ Sum(T) = fun[Pick(T)] + Sum(T \ {Pick(T)})
  BY <1>0, PickIn, SumPicked
<1> HIDE DEF Sum
<1>1. 0 \in N
  <2> SUFFICES ASSUME NEW T \in SUBSET S, NEW y \in T, Cardinality(T) = 0
               PROVE  FALSE
    OBVIOUS
  <2>1. T = {}
    BY <1>0, FS_EmptySet
  <2> QED BY <2>1
<1>2. ASSUME NEW n \in Nat, n \in N PROVE n + 1 \in N
  <2> SUFFICES ASSUME NEW T \in SUBSET S, NEW y \in T, Cardinality(T) = n + 1
               PROVE  Sum(T) = fun[y] + Sum(T \ {y})
    OBVIOUS
  <2> DEFINE p == Pick(T)
  <2>1. p \in T /\ Sum(T) = fun[p] + Sum(T \ {p}) /\ IsFiniteSet(T)
    BY <1>0, <1>p
  <2> HIDE DEF p
  <2>2. CASE y = p
    BY <2>1, <2>2
  <2>3. CASE y # p
    <3>1. Cardinality(T \ {p}) = n /\ Cardinality(T \ {y}) = n
      <4>1. Cardinality(T \ {p}) = Cardinality(T) - 1
        BY <2>1, FS_RemoveElement
      <4>2. Cardinality(T \ {y}) = Cardinality(T) - 1
        BY <2>1, FS_RemoveElement
      <4> QED BY <4>1, <4>2
    <3>2. /\ T \ {p} \in SUBSET S /\ y \in T \ {p}
          /\ T \ {y} \in SUBSET S /\ p \in T \ {y}
      BY <2>1, <2>3
    <3>3. Sum(T \ {p}) = fun[y] + Sum((T \ {p}) \ {y})
      BY <1>2, <3>1, <3>2
    <3>4. Sum(T \ {y}) = fun[p] + Sum((T \ {y}) \ {p})
      BY <1>2, <3>1, <3>2
    <3>5. (T \ {p}) \ {y} = (T \ {y}) \ {p} /\ (T \ {y}) \ {p} \in SUBSET S
      OBVIOUS
    <3>6. Sum((T \ {y}) \ {p}) \in Int /\ fun[p] \in Int /\ fun[y] \in Int
      BY <1>0, <2>1, <3>5
    <3>7. Sum((T \ {p}) \ {y}) = Sum((T \ {y}) \ {p})
      BY <3>5
    <3> QED BY <2>1, <3>3, <3>4, <3>6, <3>7
  <2> QED BY <2>2, <2>3
<1>3. Nat \subseteq N
  <2> HIDE DEF N
  <2> QED BY <1>1, <1>2, SetInduction
<1>4. S \in SUBSET S /\ Cardinality(S) \in Nat
  BY <1>0
<1>5. Sum(S) = fun[x] + Sum(S \ {x})
  BY <1>3, <1>4
<1> QED BY <1>5 DEF Sum

LEMMA SumAdd ==
  ASSUME NEW fun, NEW S, IsFiniteSet(S), NEW x, x \notin S,
         \A y \in S \cup {x} : fun[y] \in Int
  PROVE  SumFunctionOnSet(fun, S \cup {x}) = fun[x] + SumFunctionOnSet(fun, S)
<1> DEFINE T == S \cup {x}
<1>1. IsFiniteSet(T) /\ x \in T /\ T \ {x} = S /\ \A y \in T : fun[y] \in Int
  BY FS_AddElement
<1> HIDE DEF T
<1>2. SumFunctionOnSet(fun, T) = fun[x] + SumFunctionOnSet(fun, T \ {x})
  BY <1>1, SumRemove
<1> QED BY <1>1, <1>2 DEF T

LEMMA SumNat ==
  ASSUME NEW fun, NEW S, IsFiniteSet(S), \A x \in S : fun[x] \in Nat
  PROVE  SumFunctionOnSet(fun, S) \in Nat
<1> DEFINE U == {T \in SUBSET S : SumFunctionOnSet(fun, T) \in Nat}
<1>1. {} \in U
  BY SumEmpty
<1>2. ASSUME NEW T \in SUBSET S, NEW x \in S \ T, T \in U PROVE T \cup {x} \in U
  <2>1. IsFiniteSet(T) /\ \A y \in T \cup {x} : fun[y] \in Int
    BY FS_Subset
  <2>2. SumFunctionOnSet(fun, T \cup {x}) = fun[x] + SumFunctionOnSet(fun, T)
    BY <2>1, SumAdd
  <2> QED BY <1>2, <2>2
<1> HIDE DEF U
<1>3. S \in U
  BY <1>1, <1>2, FiniteInduction
<1> QED BY <1>3 DEF U

LEMMA SumSame ==
  ASSUME NEW fun, NEW other, NEW S, IsFiniteSet(S),
         \A x \in S : fun[x] \in Int /\ other[x] = fun[x]
  PROVE  SumFunctionOnSet(other, S) = SumFunctionOnSet(fun, S)
<1> DEFINE U == {T \in SUBSET S :
                   SumFunctionOnSet(other, T) = SumFunctionOnSet(fun, T)}
<1>1. {} \in U
  BY SumEmpty
<1>2. ASSUME NEW T \in SUBSET S, NEW x \in S \ T, T \in U PROVE T \cup {x} \in U
  <2>1. /\ IsFiniteSet(T) /\ \A y \in T \cup {x} : fun[y] \in Int
        /\ \A y \in T \cup {x} : other[y] \in Int
    BY FS_Subset
  <2>2. SumFunctionOnSet(fun, T \cup {x}) = fun[x] + SumFunctionOnSet(fun, T)
    BY <2>1, SumAdd
  <2>3. SumFunctionOnSet(other, T \cup {x}) = other[x] + SumFunctionOnSet(other, T)
    BY <2>1, SumAdd
  <2> QED BY <1>2, <2>2, <2>3
<1> HIDE DEF U
<1>3. S \in U
  BY <1>1, <1>2, FiniteInduction
<1> QED BY <1>3 DEF U

LEMMA SumUpdate ==
  ASSUME NEW fun, NEW other, NEW S, IsFiniteSet(S), NEW x \in S,
         other[x] \in Int, \A y \in S : fun[y] \in Int,
         \A y \in S \ {x} : other[y] = fun[y]
  PROVE  SumFunctionOnSet(other, S) =
           SumFunctionOnSet(fun, S) - fun[x] + other[x]
<1>1. IsFiniteSet(S \ {x})
  BY FS_Subset
<1>2. SumFunctionOnSet(other, S \ {x}) = SumFunctionOnSet(fun, S \ {x})
  BY <1>1, SumSame
<1>3. SumFunctionOnSet(fun, S) = fun[x] + SumFunctionOnSet(fun, S \ {x})
  BY SumRemove
<1>4. \A y \in S : other[y] \in Int
  OBVIOUS
<1>5. SumFunctionOnSet(other, S) = other[x] + SumFunctionOnSet(other, S \ {x})
  BY <1>4, SumRemove
<1>6. SumFunctionOnSet(fun, S \ {x}) \in Int /\ fun[x] \in Int
  BY <1>1, SumInt
<1> QED BY <1>2, <1>3, <1>5, <1>6

LEMMA SumUnion ==
  ASSUME NEW fun, NEW S, IsFiniteSet(S), NEW T, IsFiniteSet(T), S \cap T = {},
         \A x \in S \cup T : fun[x] \in Int
  PROVE  SumFunctionOnSet(fun, S \cup T) =
           SumFunctionOnSet(fun, S) + SumFunctionOnSet(fun, T)
<1> DEFINE U == {V \in SUBSET T : SumFunctionOnSet(fun, S \cup V) =
                   SumFunctionOnSet(fun, S) + SumFunctionOnSet(fun, V)}
<1>1. {} \in U
  <2>1. SumFunctionOnSet(fun, S) \in Int
    BY SumInt
  <2>2. S \cup {} = S
    OBVIOUS
  <2> QED BY <2>1, <2>2, SumEmpty
<1>2. ASSUME NEW V \in SUBSET T, NEW x \in T \ V, V \in U PROVE V \cup {x} \in U
  <2>1. /\ IsFiniteSet(V) /\ IsFiniteSet(S \cup V)
        /\ x \notin V /\ x \notin S \cup V
        /\ \A y \in V \cup {x} : fun[y] \in Int
        /\ \A y \in (S \cup V) \cup {x} : fun[y] \in Int
    BY FS_Subset, FS_Union
  <2>2. SumFunctionOnSet(fun, V \cup {x}) = fun[x] + SumFunctionOnSet(fun, V)
    BY <2>1, SumAdd
  <2>3. SumFunctionOnSet(fun, (S \cup V) \cup {x}) =
          fun[x] + SumFunctionOnSet(fun, S \cup V)
    BY <2>1, SumAdd
  <2>4. /\ SumFunctionOnSet(fun, S) \in Int /\ SumFunctionOnSet(fun, V) \in Int
        /\ fun[x] \in Int
    BY <2>1, SumInt
  <2>5. SumFunctionOnSet(fun, S \cup V) =
          SumFunctionOnSet(fun, S) + SumFunctionOnSet(fun, V)
    BY <1>2
  <2>6. SumFunctionOnSet(fun, S \cup (V \cup {x})) =
          SumFunctionOnSet(fun, S) + SumFunctionOnSet(fun, V \cup {x})
    <3>1. S \cup (V \cup {x}) = (S \cup V) \cup {x}
      OBVIOUS
    <3>2. SumFunctionOnSet(fun, S \cup (V \cup {x})) =
            fun[x] + SumFunctionOnSet(fun, S \cup V)
      BY <2>3, <3>1
    <3> QED BY <2>2, <2>4, <2>5, <3>2
  <2> QED BY <1>2, <2>6
<1> HIDE DEF U
<1>3. T \in U
  BY <1>1, <1>2, FiniteInduction
<1> QED BY <1>3 DEF U

LEMMA SumMonotone ==
  ASSUME NEW fun, NEW S, IsFiniteSet(S), NEW T \in SUBSET S,
         \A x \in S : fun[x] \in Nat
  PROVE  SumFunctionOnSet(fun, T) <= SumFunctionOnSet(fun, S)
<1> DEFINE R == S \ T
<1>1. /\ IsFiniteSet(R) /\ IsFiniteSet(T) /\ T \cap R = {} /\ T \cup R = S
      /\ \A x \in R : fun[x] \in Nat
      /\ \A x \in T \cup R : fun[x] \in Int
  BY FS_Subset
<1> HIDE DEF R
<1>2. SumFunctionOnSet(fun, T \cup R) =
        SumFunctionOnSet(fun, T) + SumFunctionOnSet(fun, R)
  BY <1>1, SumUnion
<1>3. SumFunctionOnSet(fun, T) \in Nat /\ SumFunctionOnSet(fun, R) \in Nat
  BY <1>1, SumNat
<1>4. SumFunctionOnSet(fun, S) =
        SumFunctionOnSet(fun, T) + SumFunctionOnSet(fun, R)
  BY <1>1, <1>2
<1> QED BY <1>3, <1>4

LEMMA SumZero ==
  ASSUME NEW fun, NEW S, IsFiniteSet(S), \A x \in S : fun[x] = 0
  PROVE  SumFunctionOnSet(fun, S) = 0
<1> DEFINE U == {T \in SUBSET S : SumFunctionOnSet(fun, T) = 0}
<1>1. {} \in U
  BY SumEmpty
<1>2. ASSUME NEW T \in SUBSET S, NEW x \in S \ T, T \in U PROVE T \cup {x} \in U
  <2>1. IsFiniteSet(T) /\ \A y \in T \cup {x} : fun[y] \in Int
    BY FS_Subset
  <2>2. SumFunctionOnSet(fun, T \cup {x}) = fun[x] + SumFunctionOnSet(fun, T)
    BY <2>1, SumAdd
  <2> QED BY <1>2, <2>2
<1> HIDE DEF U
<1>3. S \in U
  BY <1>1, <1>2, FiniteInduction
<1> QED BY <1>3 DEF U

LEMMA SumOne ==
  ASSUME NEW fun, NEW x, fun[x] \in Int
  PROVE  SumFunctionOnSet(fun, {x}) = fun[x]
<1>1. SumFunctionOnSet(fun, {} \cup {x}) = fun[x] + SumFunctionOnSet(fun, {})
  BY FS_EmptySet, SumAdd
<1> QED BY <1>1, SumEmpty

LEMMA SumTwo ==
  ASSUME NEW fun, NEW x, NEW y, x # y, fun[x] \in Int, fun[y] \in Int
  PROVE  SumFunctionOnSet(fun, {x, y}) = fun[x] + fun[y]
<1>1. IsFiniteSet({y}) /\ x \notin {y} /\ {y} \cup {x} = {x, y}
  BY FS_Singleton
<1>2. SumFunctionOnSet(fun, {y} \cup {x}) = fun[x] + SumFunctionOnSet(fun, {y})
  BY <1>1, SumAdd
<1> QED BY <1>1, <1>2, SumOne
=============================================================================
