------------------------------ MODULE FiniteSums ------------------------------
(***************************************************************************)
(* Facts about finite sets that the proofs of the other modules cite: a    *)
(* set of subsets has a least one, a strict order has best elements, and   *)
(* SumFunctionOnSet(f, S), the community modules' sum of f[x] over x \in S *)
(* (a fold that picks the elements in an order of its own), is what a sum  *)
(* should be.  Induction over finite sets is by a least counterexample.    *)
(* At the end, sums modulo a number.                                       *)
(***************************************************************************)
EXTENDS Integers, FiniteSets, Functions, FiniteSetTheorems, WellFoundedInduction, TLAPS

\* A non-empty set of subsets of a finite set has one that includes no other.
LEMMA LeastSubset ==
  ASSUME NEW S, IsFiniteSet(S), NEW Bad, Bad \subseteq SUBSET S, Bad # {}
  PROVE  \E T \in Bad : IsFiniteSet(T) /\ \A U \in SUBSET T : U # T => U \notin Bad
<1>1. IsWellFoundedOn(StrictSubsetOrdering(S), FiniteSubsetsOf(S))
  BY FS_StrictSubsetOrderingWellFounded
<1>2. \A T \in SUBSET S : IsFiniteSet(T)
  BY FS_Subset
<1>3. Bad \subseteq FiniteSubsetsOf(S)
  BY <1>2 DEF FiniteSubsetsOf
<1>4. PICK T \in Bad : \A U \in Bad : ~(<<U, T>> \in StrictSubsetOrdering(S))
  BY <1>1, <1>3, WFMin
<1>5. \A U \in SUBSET T : U # T => U \notin Bad
  BY <1>4 DEF StrictSubsetOrdering
<1> QED
  BY <1>2, <1>5

\* The pairs in R order the elements of Q strictly.
StrictOrder(R, Q) ==
  /\ \A x \in Q : <<x, x>> \notin R
  /\ \A x, y, z \in Q : <<x, y>> \in R /\ <<y, z>> \in R => <<x, z>> \in R

\* A strictly ordered, finite set that is not empty has a best element.
LEMMA BestElement ==
  ASSUME NEW Q, IsFiniteSet(Q), Q # {}, NEW R, StrictOrder(R, Q)
  PROVE  \E x \in Q : \A y \in Q : <<y, x>> \notin R
<1> USE DEF StrictOrder
<1> DEFINE Bad == {U \in SUBSET Q : U # {} /\ \A x \in U : \E y \in U : <<y, x>> \in R}
<1>1. IsFiniteSet(Q)
  OBVIOUS
<1> SUFFICES ASSUME Bad # {} PROVE FALSE
  <2>1. Q \notin Bad => \E x \in Q : \A y \in Q : <<y, x>> \notin R
    OBVIOUS
  <2> QED
    BY <2>1
<1>a. Bad \subseteq SUBSET Q
  OBVIOUS
<1> HIDE DEF Bad
<1>2. PICK U \in Bad : \A V \in SUBSET U : V # U => V \notin Bad
  BY <1>1, <1>a, LeastSubset
<1> USE DEF Bad
<1>3. PICK x \in U : TRUE
  OBVIOUS
<1> DEFINE V == {y \in U : <<y, x>> \in R}
<1>4. V \in SUBSET U /\ V # U /\ V # {}
  BY <1>3
<1>5. \A z \in V : \E y \in V : <<y, z>> \in R
  <2> TAKE z \in V
  <2>1. PICK y \in U : <<y, z>> \in R
    OBVIOUS
  <2>2. <<y, x>> \in R
    BY <1>3, <2>1
  <2> QED
    BY <2>1, <2>2
<1>6. V \in Bad
  BY <1>4, <1>5
<1> QED
  BY <1>2, <1>4, <1>6

------------------------------------------------------------------------------
(* The fold is well defined *)

AnyOf(s) == CHOOSE x \in s : TRUE

\* g is the table of the sums of f over the subsets of D.
IsTable(g, D, f) ==
  g = [s \in SUBSET D |-> IF s = {} THEN 0 ELSE f[AnyOf(s)] + g[s \ {AnyOf(s)}]]

Table(D, f) == CHOOSE g : IsTable(g, D, f)

\* The sum is an entry of its table.
LEMMA SumIsTable ==
  ASSUME NEW f, NEW S
  PROVE  SumFunctionOnSet(f, S) = Table(S, f)[S]
BY DEF SumFunctionOnSet, FoldFunctionOnSet, MapThenFoldSet, Table, IsTable, AnyOf

LEMMA TableEntry ==
  ASSUME NEW f, NEW D, NEW g, IsTable(g, D, f), NEW s \in SUBSET D
  PROVE  g[s] = IF s = {} THEN 0 ELSE f[AnyOf(s)] + g[s \ {AnyOf(s)}]
BY DEF IsTable

LEMMA AnyIn ==
  ASSUME NEW s, s # {}
  PROVE  AnyOf(s) \in s
BY DEF AnyOf

\* Two tables agree where both are defined.
LEMMA TablesAgree ==
  ASSUME NEW f, NEW D, NEW g, IsTable(g, D, f), NEW E, NEW h, IsTable(h, E, f),
         D \subseteq E, IsFiniteSet(D)
  PROVE  \A s \in SUBSET D : g[s] = h[s]
<1> DEFINE Bad == {s \in SUBSET D : g[s] # h[s]}
<1> SUFFICES ASSUME Bad # {} PROVE FALSE
  OBVIOUS
<1>a. Bad \subseteq SUBSET D
  OBVIOUS
<1> HIDE DEF Bad
<1>1. PICK s \in Bad : \A t \in SUBSET s : t # s => t \notin Bad
  BY <1>a, LeastSubset
<1> USE DEF Bad
<1>2. s \in SUBSET D /\ s \in SUBSET E
  OBVIOUS
<1>b. g[s] = IF s = {} THEN 0 ELSE f[AnyOf(s)] + g[s \ {AnyOf(s)}]
  BY <1>2, TableEntry
<1>c. h[s] = IF s = {} THEN 0 ELSE f[AnyOf(s)] + h[s \ {AnyOf(s)}]
  BY <1>2, TableEntry
<1>3. /\ g[s] = IF s = {} THEN 0 ELSE f[AnyOf(s)] + g[s \ {AnyOf(s)}]
      /\ h[s] = IF s = {} THEN 0 ELSE f[AnyOf(s)] + h[s \ {AnyOf(s)}]
  BY <1>b, <1>c
<1>4. s # {}
  BY <1>3
<1>5. g[s \ {AnyOf(s)}] = h[s \ {AnyOf(s)}]
  BY <1>1, <1>2, <1>4, AnyIn
<1> QED
  BY <1>3, <1>5

\* There is a table for every finite set.
LEMMA TableExists ==
  ASSUME NEW f, NEW S, IsFiniteSet(S)
  PROVE  IsTable(Table(S, f), S, f)
<1> DEFINE Bad == {D \in SUBSET S : ~ \E g : IsTable(g, D, f)}
<1> SUFFICES ASSUME Bad # {} PROVE FALSE
  BY DEF Table
<1>a. Bad \subseteq SUBSET S
  OBVIOUS
<1> HIDE DEF Bad
<1>1. PICK D \in Bad : IsFiniteSet(D) /\ \A t \in SUBSET D : t # D => t \notin Bad
  BY <1>a, LeastSubset
<1> USE DEF Bad
<1>2. \A t \in SUBSET D : t # D => IsFiniteSet(t) /\ IsTable(Table(t, f), t, f)
  BY <1>1, FS_Subset DEF Table
<1> DEFINE sum(t) == Table(t, f)[t]
           step(t) == IF t = {} THEN 0 ELSE f[AnyOf(t)] + sum(t \ {AnyOf(t)})
           g == [t \in SUBSET D |-> step(t)]
<1>3. \A t \in SUBSET D : t # D => sum(t) = step(t)
  <2> SUFFICES ASSUME NEW t \in SUBSET D, t # D PROVE sum(t) = step(t)
    OBVIOUS
  <2>1. sum(t) = IF t = {} THEN 0 ELSE f[AnyOf(t)] + Table(t, f)[t \ {AnyOf(t)}]
    BY <1>2, TableEntry
  <2> DEFINE u == t \ {AnyOf(t)}
  <2>2. u \in SUBSET D /\ u # D /\ u \subseteq t
    OBVIOUS
  <2>3. IsFiniteSet(u) /\ IsTable(Table(u, f), u, f) /\ IsTable(Table(t, f), t, f)
    BY <1>2, <2>2
  <2>4. Table(u, f)[u] = Table(t, f)[u]
    BY <2>2, <2>3, TablesAgree
  <2> QED
    BY <2>1, <2>4
<1>4. \A t \in SUBSET D : g[t] = IF t = {} THEN 0 ELSE f[AnyOf(t)] + g[t \ {AnyOf(t)}]
  <2> SUFFICES ASSUME NEW t \in SUBSET D, t # {}
               PROVE  g[t] = f[AnyOf(t)] + g[t \ {AnyOf(t)}]
    OBVIOUS
  <2>1. t \ {AnyOf(t)} \in SUBSET D /\ t \ {AnyOf(t)} # D
    BY AnyIn
  <2> QED
    BY <1>3, <2>1
<1> HIDE DEF g
<1>5. IsTable(g, D, f)
  BY <1>4 DEF IsTable, g
<1> QED
  BY <1>5

------------------------------------------------------------------------------
(* Sums *)

\* The sum of nothing.
LEMMA SumEmpty ==
  ASSUME NEW f
  PROVE  SumFunctionOnSet(f, {}) = 0
<1>1. IsTable(Table({}, f), {}, f)
  BY FS_EmptySet, TableExists
<1>2. Table({}, f)[{}] = 0
  BY <1>1, TableEntry
<1> QED
  BY <1>2, SumIsTable

\* The sum of a set is that of an element that the fold picks and of the others.
LEMMA SumPicked ==
  ASSUME NEW f, NEW S, IsFiniteSet(S), S # {}
  PROVE  /\ AnyOf(S) \in S
         /\ SumFunctionOnSet(f, S) = f[AnyOf(S)] + SumFunctionOnSet(f, S \ {AnyOf(S)})
<1> DEFINE U == S \ {AnyOf(S)}
<1>1. AnyOf(S) \in S
  BY AnyIn
<1>2. IsFiniteSet(U) /\ U \subseteq S
  BY FS_Subset
<1>3. IsTable(Table(S, f), S, f) /\ IsTable(Table(U, f), U, f)
  BY <1>2, TableExists
<1>4. Table(U, f)[U] = Table(S, f)[U]
  BY <1>2, <1>3, TablesAgree
<1>5. Table(S, f)[S] = f[AnyOf(S)] + Table(S, f)[U]
  BY <1>3, TableEntry
<1> QED
  BY <1>1, <1>4, <1>5, SumIsTable

\* A sum of integers is one.
LEMMA SumInt ==
  ASSUME NEW f, NEW S, IsFiniteSet(S), \A x \in S : f[x] \in Int
  PROVE  SumFunctionOnSet(f, S) \in Int
<1> DEFINE Bad == {U \in SUBSET S : SumFunctionOnSet(f, U) \notin Int}
<1> SUFFICES ASSUME Bad # {} PROVE FALSE
  OBVIOUS
<1>1. Bad \subseteq SUBSET S
  OBVIOUS
<1> HIDE DEF Bad
<1>2. PICK U \in Bad : IsFiniteSet(U) /\ \A t \in SUBSET U : t # U => t \notin Bad
  BY <1>1, LeastSubset
<1> USE DEF Bad
<1>3. U # {}
  BY SumEmpty
<1>4. /\ AnyOf(U) \in U
      /\ SumFunctionOnSet(f, U) = f[AnyOf(U)] + SumFunctionOnSet(f, U \ {AnyOf(U)})
  BY <1>2, <1>3, SumPicked
<1>5. SumFunctionOnSet(f, U \ {AnyOf(U)}) \in Int
  BY <1>2, <1>4
<1> QED
  BY <1>4, <1>5

\* A sum of natural numbers is one, too.
LEMMA SumNat ==
  ASSUME NEW f, NEW S, IsFiniteSet(S), \A x \in S : f[x] \in Nat
  PROVE  SumFunctionOnSet(f, S) \in Nat
<1> DEFINE Bad == {U \in SUBSET S : SumFunctionOnSet(f, U) \notin Nat}
<1> SUFFICES ASSUME Bad # {} PROVE FALSE
  OBVIOUS
<1>1. Bad \subseteq SUBSET S
  OBVIOUS
<1> HIDE DEF Bad
<1>2. PICK U \in Bad : IsFiniteSet(U) /\ \A t \in SUBSET U : t # U => t \notin Bad
  BY <1>1, LeastSubset
<1> USE DEF Bad
<1>3. U # {}
  BY SumEmpty
<1>4. /\ AnyOf(U) \in U
      /\ SumFunctionOnSet(f, U) = f[AnyOf(U)] + SumFunctionOnSet(f, U \ {AnyOf(U)})
  BY <1>2, <1>3, SumPicked
<1>5. SumFunctionOnSet(f, U \ {AnyOf(U)}) \in Nat
  BY <1>2, <1>4
<1> QED
  BY <1>4, <1>5

\* AnyOf element may be taken out first.
LEMMA SumRemove ==
  ASSUME NEW f, NEW S, IsFiniteSet(S), \A x \in S : f[x] \in Int, NEW e \in S
  PROVE  SumFunctionOnSet(f, S) = f[e] + SumFunctionOnSet(f, S \ {e})
<1> DEFINE Right(U, x) == SumFunctionOnSet(f, U) = f[x] + SumFunctionOnSet(f, U \ {x})
           Bad == {U \in SUBSET S : \E x \in U : ~Right(U, x)}
<1> SUFFICES ASSUME Bad # {} PROVE FALSE
  OBVIOUS
<1>1. Bad \subseteq SUBSET S
  OBVIOUS
<1> HIDE DEF Bad
<1>2. PICK U \in Bad : IsFiniteSet(U) /\ \A t \in SUBSET U : t # U => t \notin Bad
  BY <1>1, LeastSubset
<1> USE DEF Bad
<1>3. PICK x \in U : ~Right(U, x)
  BY <1>2
<1> DEFINE c == AnyOf(U)
           V == U \ {c, x}
<1>4. c \in U /\ SumFunctionOnSet(f, U) = f[c] + SumFunctionOnSet(f, U \ {c})
  BY <1>2, <1>3, SumPicked
<1> HIDE DEF c
<1>5. c # x
  BY <1>3, <1>4
<1>6. Right(U \ {c}, x)
  <2>1. U \ {c} \in SUBSET U /\ U \ {c} # U
    BY <1>4
  <2> QED
    BY <1>1, <1>2, <1>3, <1>5, <2>1
<1>7. Right(U \ {x}, c)
  <2>1. U \ {x} \in SUBSET U /\ U \ {x} # U
    BY <1>3
  <2> QED
    BY <1>1, <1>2, <1>4, <1>5, <2>1
<1>8. (U \ {c}) \ {x} = V /\ (U \ {x}) \ {c} = V
  OBVIOUS
<1>9. f[c] \in Int /\ f[x] \in Int /\ SumFunctionOnSet(f, V) \in Int
  <2>1. IsFiniteSet(V) /\ U \subseteq S /\ V \subseteq S
    BY <1>1, <1>2, FS_Subset
  <2> QED
    BY <1>3, <1>4, <2>1, SumInt
<1>10. /\ SumFunctionOnSet(f, U \ {c}) = f[x] + SumFunctionOnSet(f, V)
       /\ SumFunctionOnSet(f, U \ {x}) = f[c] + SumFunctionOnSet(f, V)
  BY <1>6, <1>7, <1>8
<1> HIDE DEF V
<1>11. Right(U, x)
  BY <1>4, <1>9, <1>10
<1> QED
  BY <1>3, <1>11

\* A sum depends on the values of its elements only.
LEMMA SumSame ==
  ASSUME NEW f, NEW g, NEW S, IsFiniteSet(S), \A x \in S : f[x] = g[x]
  PROVE  SumFunctionOnSet(f, S) = SumFunctionOnSet(g, S)
<1> DEFINE Bad == {U \in SUBSET S : SumFunctionOnSet(f, U) # SumFunctionOnSet(g, U)}
<1> SUFFICES ASSUME Bad # {} PROVE FALSE
  OBVIOUS
<1>1. Bad \subseteq SUBSET S
  OBVIOUS
<1> HIDE DEF Bad
<1>2. PICK U \in Bad : IsFiniteSet(U) /\ \A t \in SUBSET U : t # U => t \notin Bad
  BY <1>1, LeastSubset
<1> USE DEF Bad
<1>3. U # {}
  BY SumEmpty
<1>4. /\ AnyOf(U) \in U
      /\ SumFunctionOnSet(f, U) = f[AnyOf(U)] + SumFunctionOnSet(f, U \ {AnyOf(U)})
  BY <1>2, <1>3, SumPicked
<1>5. SumFunctionOnSet(g, U) = g[AnyOf(U)] + SumFunctionOnSet(g, U \ {AnyOf(U)})
  BY <1>2, <1>3, SumPicked
<1>6. SumFunctionOnSet(f, U \ {AnyOf(U)}) = SumFunctionOnSet(g, U \ {AnyOf(U)})
  BY <1>2, <1>4
<1> QED
  BY <1>1, <1>4, <1>5, <1>6

\* Changing the value of one element changes the sum by as much.
LEMMA SumChange ==
  ASSUME NEW f, NEW g, NEW S, IsFiniteSet(S), \A x \in S : f[x] \in Int /\ g[x] \in Int,
         NEW e \in S, \A x \in S \ {e} : f[x] = g[x]
  PROVE  SumFunctionOnSet(g, S) = SumFunctionOnSet(f, S) - f[e] + g[e]
<1> DEFINE U == S \ {e}
<1>1. IsFiniteSet(U)
  BY FS_Subset
<1>2. SumFunctionOnSet(f, S) = f[e] + SumFunctionOnSet(f, U)
  BY SumRemove
<1>3. SumFunctionOnSet(g, S) = g[e] + SumFunctionOnSet(g, U)
  BY SumRemove
<1>4. SumFunctionOnSet(f, U) = SumFunctionOnSet(g, U) /\ SumFunctionOnSet(f, U) \in Int
  BY <1>1, SumSame, SumInt
<1> QED
  BY <1>2, <1>3, <1>4

\* A new element is added to the sum.
LEMMA SumAdd ==
  ASSUME NEW f, NEW S, IsFiniteSet(S), NEW e, e \notin S, \A x \in S \cup {e} : f[x] \in Int
  PROVE  SumFunctionOnSet(f, S \cup {e}) = SumFunctionOnSet(f, S) + f[e]
<1>1. IsFiniteSet(S \cup {e})
  BY FS_AddElement
<1>2. (S \cup {e}) \ {e} = S
  OBVIOUS
<1>3. SumFunctionOnSet(f, S \cup {e}) = f[e] + SumFunctionOnSet(f, S)
  BY <1>1, <1>2, SumRemove
<1>4. SumFunctionOnSet(f, S) \in Int
  BY SumInt
<1> QED
  BY <1>3, <1>4

\* A sum of zeros.
LEMMA SumZero ==
  ASSUME NEW f, NEW S, IsFiniteSet(S), \A x \in S : f[x] = 0
  PROVE  SumFunctionOnSet(f, S) = 0
<1> DEFINE Bad == {U \in SUBSET S : SumFunctionOnSet(f, U) # 0}
<1> SUFFICES ASSUME Bad # {} PROVE FALSE
  OBVIOUS
<1>1. Bad \subseteq SUBSET S
  OBVIOUS
<1> HIDE DEF Bad
<1>2. PICK U \in Bad : IsFiniteSet(U) /\ \A t \in SUBSET U : t # U => t \notin Bad
  BY <1>1, LeastSubset
<1> USE DEF Bad
<1>3. U # {}
  BY SumEmpty
<1>4. /\ AnyOf(U) \in U
      /\ SumFunctionOnSet(f, U) = f[AnyOf(U)] + SumFunctionOnSet(f, U \ {AnyOf(U)})
  BY <1>2, <1>3, SumPicked
<1> QED
  BY <1>1, <1>2, <1>4

LEMMA TimesNext ==
  ASSUME NEW k \in Int, NEW n \in Int
  PROVE  k * (n + 1) = k * n + k /\ (n + 1) * k = n * k + k /\ k * n \in Int /\ n * k \in Int
OBVIOUS

\* A sum of equal numbers.
LEMMA SumEqual ==
  ASSUME NEW f, NEW k \in Int, NEW S, IsFiniteSet(S), \A x \in S : f[x] = k
  PROVE  SumFunctionOnSet(f, S) = Cardinality(S) * k
<1> DEFINE Bad == {U \in SUBSET S : SumFunctionOnSet(f, U) # Cardinality(U) * k}
<1> SUFFICES ASSUME Bad # {} PROVE FALSE
  OBVIOUS
<1>1. Bad \subseteq SUBSET S
  OBVIOUS
<1> HIDE DEF Bad
<1>2. PICK U \in Bad : IsFiniteSet(U) /\ \A t \in SUBSET U : t # U => t \notin Bad
  BY <1>1, LeastSubset
<1> USE DEF Bad
<1>3. U # {}
  <2>1. Cardinality({}) = 0 /\ SumFunctionOnSet(f, {}) = 0 /\ 0 * k = 0
    BY SumEmpty, FS_EmptySet
  <2> QED
    BY <2>1
<1>4. /\ AnyOf(U) \in U
      /\ SumFunctionOnSet(f, U) = f[AnyOf(U)] + SumFunctionOnSet(f, U \ {AnyOf(U)})
  BY <1>2, <1>3, SumPicked
<1> DEFINE V == U \ {AnyOf(U)}
           n == Cardinality(V)
<1>5. n \in Nat /\ Cardinality(U) = n + 1
  <2>1. IsFiniteSet(V) /\ n = Cardinality(U) - 1 /\ Cardinality(U) \in Nat
    BY <1>2, <1>4, FS_RemoveElement, FS_CardinalityType
  <2>2. n \in Nat
    BY <2>1, FS_CardinalityType
  <2> QED
    BY <2>1, <2>2
<1>6. SumFunctionOnSet(f, V) = n * k
  BY <1>1, <1>2, <1>4
<1>7. f[AnyOf(U)] = k
  BY <1>1, <1>2, <1>4
<1> HIDE DEF n
<1>8. (n + 1) * k = n * k + k /\ n * k \in Int
  BY <1>5, TimesNext
<1> QED
  BY <1>2, <1>4, <1>5, <1>6, <1>7, <1>8

\* No element of a sum of natural numbers is more than the sum.
LEMMA SumBounds ==
  ASSUME NEW f, NEW S, IsFiniteSet(S), \A x \in S : f[x] \in Nat, NEW e \in S
  PROVE  f[e] <= SumFunctionOnSet(f, S)
<1>1. IsFiniteSet(S \ {e})
  BY FS_Subset
<1>2. SumFunctionOnSet(f, S \ {e}) \in Nat
  BY <1>1, SumNat
<1>3. SumFunctionOnSet(f, S) = f[e] + SumFunctionOnSet(f, S \ {e})
  BY SumRemove
<1> QED
  BY <1>2, <1>3

\* Terms of a sum that are zero may be left out.
LEMMA SumDrop ==
  ASSUME NEW f, NEW S, IsFiniteSet(S), NEW T \in SUBSET S, \A x \in S : f[x] \in Int,
         \A x \in S \ T : f[x] = 0
  PROVE  SumFunctionOnSet(f, S) = SumFunctionOnSet(f, T)
<1> DEFINE Bad == {U \in SUBSET S : SumFunctionOnSet(f, U) # SumFunctionOnSet(f, U \cap T)}
<1>0. S \cap T = T
  OBVIOUS
<1> SUFFICES ASSUME Bad # {} PROVE FALSE
  <2>1. SumFunctionOnSet(f, S) # SumFunctionOnSet(f, S \cap T) => S \in Bad
    OBVIOUS
  <2> QED
    BY <1>0, <2>1
<1>1. Bad \subseteq SUBSET S
  OBVIOUS
<1> HIDE DEF Bad
<1>2. PICK U \in Bad : IsFiniteSet(U) /\ \A t \in SUBSET U : t # U => t \notin Bad
  BY <1>1, LeastSubset
<1> USE DEF Bad
<1>3. U # {}
  <2>1. {} \cap T = {}
    OBVIOUS
  <2> QED
    BY <2>1
<1>4. PICK e \in U : TRUE
  BY <1>3
<1>5. PICK V : V = U \ {e}
  OBVIOUS
<1>6. /\ SumFunctionOnSet(f, U) = f[e] + SumFunctionOnSet(f, V)
      /\ SumFunctionOnSet(f, V) = SumFunctionOnSet(f, V \cap T)
      /\ IsFiniteSet(V) /\ IsFiniteSet(U \cap T)
      /\ f[e] \in Int /\ SumFunctionOnSet(f, V) \in Int
  <2>1. IsFiniteSet(V) /\ V \in SUBSET U /\ V # U /\ IsFiniteSet(U \cap T)
    BY <1>2, <1>5, FS_Subset
  <2>2. \A x \in U : f[x] \in Int
    BY <1>1
  <2>3. SumFunctionOnSet(f, V) \in Int
    BY <1>5, <2>1, <2>2, SumInt
  <2>4. SumFunctionOnSet(f, U) = f[e] + SumFunctionOnSet(f, V)
    BY <1>2, <1>5, <2>2, SumRemove
  <2> QED
    BY <1>2, <2>1, <2>2, <2>3, <2>4
<1>7. CASE e \in T
  <2>1. (U \cap T) \ {e} = V \cap T /\ e \in U \cap T
    BY <1>5, <1>7
  <2>2. \A x \in U \cap T : f[x] \in Int
    BY <1>1
  <2>3. SumFunctionOnSet(f, U \cap T) = f[e] + SumFunctionOnSet(f, V \cap T)
    BY <1>6, <2>1, <2>2, SumRemove
  <2>4. SumFunctionOnSet(f, U \cap T) = SumFunctionOnSet(f, U)
    BY <1>6, <2>3
  <2> QED
    BY <1>2, <2>4
<1>8. CASE e \notin T
  <2>1. U \cap T = V \cap T /\ f[e] = 0
    BY <1>1, <1>5, <1>8
  <2>2. SumFunctionOnSet(f, U) = SumFunctionOnSet(f, V)
    BY <1>6, <2>1
  <2>3. SumFunctionOnSet(f, U \cap T) = SumFunctionOnSet(f, V)
    <3>1. SumFunctionOnSet(f, U \cap T) = SumFunctionOnSet(f, V \cap T)
      BY <2>1
    <3> QED
      BY <1>6, <3>1
  <2> QED
    BY <1>2, <2>2, <2>3
<1> QED
  BY <1>7, <1>8

------------------------------------------------------------------------------
(* Arithmetic modulo a number *)

LEMMA ModParts ==
  ASSUME NEW a \in Int, NEW w \in Nat \ {0}
  PROVE  a \div w \in Int /\ a % w \in 0 .. w - 1 /\ a = w * (a \div w) + (a % w)
OBVIOUS

LEMMA ModUnique ==
  ASSUME NEW a \in Int, NEW w \in Nat \ {0}, NEW q \in Int, NEW r \in 0 .. w - 1, a = w * q + r
  PROVE  a % w = r
OBVIOUS

\* What was taken modulo w may be taken so again after an addition.
LEMMA ModAdd ==
  ASSUME NEW a \in Int, NEW d \in Int, NEW w \in Nat \ {0}
  PROVE  ((a % w) + d) % w = (a + d) % w
<1> DEFINE p == a \div w
           m == a % w
           b == m + d
           q == b \div w
           r == b % w
<1>1. p \in Int /\ m \in Int /\ a = w * p + m
  BY ModParts
<1> HIDE DEF p, m
<1>2. b \in Int /\ b = m + d
  BY <1>1
<1> HIDE DEF b
<1>3. q \in Int /\ r \in 0 .. w - 1 /\ b = w * q + r
  BY <1>2, ModParts
<1> HIDE DEF q, r
<1> DEFINE c == a + d
           s == p + q
<1>4. c \in Int /\ s \in Int /\ c = w * s + r
  BY <1>1, <1>2, <1>3
<1> HIDE DEF c, s
<1>5. c % w = r
  BY <1>3, <1>4, ModUnique
<1> QED
  BY <1>5 DEF c, r, b, m

\* So may each part of a sum of three.
LEMMA ModSum ==
  ASSUME NEW a \in Int, NEW b \in Int, NEW c \in Int, NEW w \in Nat \ {0}
  PROVE  ((a % w) + (b % w) + (c % w)) % w = (a + b + c) % w
<1> DEFINE p == a % w
           q == b % w
           r == c % w
<1>1. p \in Int /\ q \in Int /\ r \in Int
  BY ModParts
<1> HIDE DEF p, q, r
<1>2. (p + (q + r)) % w = (a + (q + r)) % w
  <2> DEFINE d == q + r
  <2>1. d \in Int
    BY <1>1
  <2> HIDE DEF d
  <2>2. ((a % w) + d) % w = (a + d) % w
    BY <2>1, ModAdd
  <2> QED
    BY <2>2 DEF d, p
<1>3. (q + (a + r)) % w = (b + (a + r)) % w
  <2> DEFINE d == a + r
  <2>1. d \in Int
    BY <1>1
  <2> HIDE DEF d
  <2>2. ((b % w) + d) % w = (b + d) % w
    BY <2>1, ModAdd
  <2> QED
    BY <2>2 DEF d, q
<1>4. (r + (a + b)) % w = (c + (a + b)) % w
  <2> DEFINE d == a + b
  <2>1. d \in Int
    BY <1>1
  <2> HIDE DEF d
  <2>2. ((c % w) + d) % w = (c + d) % w
    BY <2>1, ModAdd
  <2> QED
    BY <2>2 DEF d, r
<1>5. /\ p + (q + r) = p + q + r /\ a + (q + r) = q + (a + r)
      /\ b + (a + r) = r + (a + b) /\ c + (a + b) = a + b + c
  BY <1>1
<1> QED
  BY <1>2, <1>3, <1>4, <1>5 DEF p, q, r
=============================================================================
