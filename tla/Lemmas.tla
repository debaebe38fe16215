-------------------------------- MODULE Lemmas --------------------------------
(***************************************************************************)
(* Lemmas the proofs about several modules rest on: induction on the       *)
(* naturals by a least counterexample, remainders, the sum the modules     *)
(* take with FoldFunction, and the order a map can be sorted in.           *)
(* The fold is a recursion over the subsets of its domain; it exists by    *)
(* induction on their size, and each fact about a sum is an induction      *)
(* along it.                                                               *)
(***************************************************************************)
EXTENDS Integers, Functions, FiniteSetTheorems, WellFoundedInduction, TLAPS

(* A set of naturals that is not empty has a least one.                    *)
LEMMA LeastNatural ==
  ASSUME NEW S \in SUBSET Nat, S # {}
  PROVE  \E n \in S : \A m \in S : n <= m
<1> DEFINE R == {ss \in Nat \X Nat : ss[1] < ss[2]}
<1>1. \A m, n \in Nat : <<m, n>> \in R <=> m < n
  OBVIOUS
<1>2. IsWellFoundedOn(R, Nat)
  BY NatLessThanWellFounded DEF OpToRel
<1> HIDE DEF R
<1>3. PICK n \in S : \A m \in S : ~(<<m, n>> \in R)
  BY <1>2, WFMin, Zenon
<1>4. \A m \in S : n <= m
  <2> TAKE m \in S
  <2>1. m \in Nat /\ n \in Nat
    OBVIOUS
  <2>2. ~(m < n)
    BY <1>1, <1>3, <2>1, Zenon
  <2> QED
    BY <2>1, <2>2
<1> QED
  BY <1>4

(* Induction, for a set of naturals.                                       *)
LEMMA SetOfAllNaturals ==
  ASSUME NEW S, 0 \in S, \A n \in Nat : n \in S => n + 1 \in S
  PROVE  \A n \in Nat : n \in S
<1> DEFINE Missed == {n \in Nat : n \notin S}
<1> SUFFICES ASSUME Missed # {} PROVE FALSE
  OBVIOUS
<1>1. PICK n \in Missed : \A m \in Missed : n <= m
  BY LeastNatural
<1>2. n - 1 \in Nat /\ n - 1 \notin Missed
  BY <1>1
<1>3. (n - 1) + 1 \in S
  BY <1>2
<1> QED
  BY <1>1, <1>3

-----------------------------------------------------------------------------
(* A quotient and a remainder are the only ones.                           *)
LEMMA RemainderUnique ==
  ASSUME NEW d \in Nat \ {0}, NEW p \in Nat, NEW q \in Nat,
         NEW r \in 0..(d - 1), NEW s \in 0..(d - 1), d * p + r = d * q + s
  PROVE  r = s
<1>1. ASSUME NEW a \in Nat, NEW b \in Nat, a < b PROVE d * a + d <= d * b
  <2>1. PICK e \in Nat : b = a + 1 + e
    <3>1. b - a - 1 \in Nat /\ b = a + 1 + (b - a - 1)
      BY <1>1
    <3> QED
      BY <3>1
  <2>2. d * b = d * a + d + d * e
    BY <2>1
  <2>3. d * e \in Nat /\ d * a \in Nat /\ d * b \in Nat
    OBVIOUS
  <2> QED
    BY <2>2, <2>3
<1>2. ~(p < q) /\ ~(q < p)
  BY <1>1
<1> QED
  BY <1>2

(* What a multiple of d adds to, it leaves the remainder of.               *)
LEMMA RemainderOf ==
  ASSUME NEW d \in Nat \ {0}, NEW q \in Nat, NEW r \in 0..(d - 1), NEW n \in Nat, n = d * q + r
  PROVE  n % d = r
<1> DEFINE p == n \div d
           s == n % d
<1>1. p \in Nat /\ s \in 0..(d - 1) /\ n = d * p + s
  OBVIOUS
<1> HIDE DEF p, s
<1>2. s = r
  BY <1>1, RemainderUnique
<1> QED
  BY <1>2 DEF s

LEMMA RemainderNext ==
  ASSUME NEW d \in Nat \ {0}, NEW n \in Nat
  PROVE  /\ n % d \in 0..(d - 1)
         /\ (n + 1) % d = IF (n % d) + 1 = d THEN 0 ELSE (n % d) + 1
         /\ n < d => n % d = n
         /\ d % d = 0
<1> DEFINE q == n \div d
           r == n % d
<1>1. q \in Nat /\ r \in 0..(d - 1) /\ n = d * q + r
  OBVIOUS
<1> HIDE DEF q, r
<1>2. ASSUME r + 1 < d PROVE (n + 1) % d = r + 1
  <2>1. PICK nn \in Nat, rr \in 0..(d - 1) : nn = n + 1 /\ rr = r + 1
    BY <1>1, <1>2
  <2>2. nn = d * q + rr
    BY <1>1, <2>1
  <2>3. nn % d = rr
    BY <1>1, <2>2, RemainderOf
  <2> QED
    BY <1>2, <2>1, <2>3
<1>3. ASSUME r + 1 = d PROVE (n + 1) % d = 0
  <2>1. PICK nn \in Nat, qq \in Nat, rr \in 0..(d - 1) : nn = n + 1 /\ qq = q + 1 /\ rr = 0
    BY <1>1
  <2>2. nn = d * qq + rr
    BY <1>1, <1>3, <2>1
  <2>3. nn % d = rr
    BY <2>2, RemainderOf
  <2> QED
    BY <1>3, <2>1, <2>3
<1>4. r \in 0..(d - 1) /\ (n + 1) % d = IF r + 1 = d THEN 0 ELSE r + 1
  BY <1>1, <1>2, <1>3
<1>5. n < d => n % d = n
  <2>1. ASSUME n < d PROVE n % d = n
    <3>1. n \in 0..(d - 1) /\ n = d * 0 + n /\ 0 \in Nat
      BY <2>1
    <3> QED
      BY <3>1, RemainderOf
  <2> QED
    BY <2>1
<1>6. d % d = 0
  <2>1. 0 \in 0..(d - 1) /\ 1 \in Nat /\ d = d * 1 + 0 /\ d \in Nat
    OBVIOUS
  <2> QED
    BY <2>1, RemainderOf
<1> QED
  BY <1>4, <1>5, <1>6 DEF r

(* Numbers less than d apart with the same remainder are the same.         *)
(* Numbers less than d apart with the same remainder are the same.         *)
LEMMA SameRemainder ==
  ASSUME NEW d \in Nat \ {0}, NEW a \in Nat, NEW b \in Nat, a % d = b % d, a <= b, b < a + d
  PROVE  a = b
<1> DEFINE p == a \div d
           q == b \div d
           r == a % d
<1>1. p \in Nat /\ q \in Nat /\ r \in 0..(d - 1) /\ a = d * p + r /\ b = d * q + r
  OBVIOUS
<1> HIDE DEF p, q, r
<1>2. d * p <= d * q /\ d * q < d * p + d
  BY <1>1
<1>3. ASSUME NEW x \in Nat, NEW y \in Nat, x < y PROVE d * x + d <= d * y
  <2>1. PICK e \in Nat : y = x + 1 + e
    <3>1. y - x - 1 \in Nat /\ y = x + 1 + (y - x - 1)
      BY <1>3
    <3> QED
      BY <3>1
  <2>2. d * y = d * x + d + d * e /\ d * e \in Nat
    BY <2>1
  <2>3. d * x \in Nat /\ d * y \in Nat
    OBVIOUS
  <2> QED
    BY <2>2, <2>3
<1>4. d * p \in Nat /\ d * q \in Nat
  BY <1>1
<1>5. ~(p < q)
  BY <1>1, <1>2, <1>3, <1>4
<1>6. ~(q < p)
  BY <1>1, <1>2, <1>3, <1>4
<1> QED
  BY <1>1, <1>5, <1>6

-----------------------------------------------------------------------------
Sum(f) == FoldFunction(LAMBDA x, y : x + y, 0, f)

\* The element the fold takes next, and the equation of its table.
Pick(s) == CHOOSE x \in s : TRUE
IsTable(it, f, G) ==
  it = [s \in G |-> IF s = {} THEN 0 ELSE f[Pick(s)] + it[s \ {Pick(s)}]]
Table(f) == CHOOSE it : IsTable(it, f, SUBSET DOMAIN f)

(* Induction over the subsets of a finite set, in the order of the fold.   *)
LEMMA SetOfAllSubsets ==
  ASSUME NEW D, IsFiniteSet(D), NEW G, {} \in G,
         \A s \in SUBSET D : s # {} /\ s \ {Pick(s)} \in G => s \in G
  PROVE  \A s \in SUBSET D : s \in G
<1> DEFINE Sizes == {n \in Nat : \A s \in SUBSET D : Cardinality(s) = n => s \in G}
<1>1. \A s \in SUBSET D : IsFiniteSet(s) /\ Cardinality(s) \in Nat
  BY FS_Subset, FS_CardinalityType
<1>2. 0 \in Sizes
  BY <1>1, FS_EmptySet
<1>3. ASSUME NEW n \in Nat, n \in Sizes PROVE n + 1 \in Sizes
  <2> SUFFICES ASSUME NEW s \in SUBSET D, Cardinality(s) = n + 1 PROVE s \in G
    OBVIOUS
  <2>1. s # {}
    BY FS_EmptySet
  <2>2. Pick(s) \in s
    BY <2>1 DEF Pick
  <2>3. Cardinality(s \ {Pick(s)}) = n
    BY <1>1, <2>2, FS_RemoveElement
  <2>4. s \ {Pick(s)} \in G
    BY <1>3, <2>3
  <2> QED
    BY <2>1, <2>4
<1> HIDE DEF Sizes
<1>4. \A n \in Nat : n \in Sizes
  BY <1>2, <1>3, SetOfAllNaturals
<1> QED
  BY <1>1, <1>4 DEF Sizes

(* The table of a fold over a finite set exists.                           *)
LEMMA TableExists ==
  ASSUME NEW f, IsFiniteSet(DOMAIN f)
  PROVE  IsTable(Table(f), f, SUBSET DOMAIN f)
<1> DEFINE D == DOMAIN f
           Upto(n) == {s \in SUBSET D : Cardinality(s) <= n}
           Sizes == {n \in Nat : \E it : IsTable(it, f, Upto(n))}
<1>1. \A s \in SUBSET D : IsFiniteSet(s) /\ Cardinality(s) \in Nat /\ Cardinality(s) <= Cardinality(D)
  BY FS_Subset, FS_CardinalityType
<1>2. ASSUME NEW n \in Nat, NEW s \in Upto(n + 1), s # {} PROVE s \ {Pick(s)} \in Upto(n)
  <2>1. Pick(s) \in s
    BY <1>2 DEF Pick
  <2>2. Cardinality(s \ {Pick(s)}) = Cardinality(s) - 1
    BY <1>1, <2>1, FS_RemoveElement
  <2> QED
    BY <1>1, <2>2
<1>3. 0 \in Sizes
  <2> DEFINE it == [s \in Upto(0) |-> 0]
  <2>1. \A s \in Upto(0) : s = {}
    BY <1>1, FS_EmptySet
  <2>2. IsTable(it, f, Upto(0))
    BY <2>1 DEF IsTable
  <2> QED
    BY <2>2
<1>4. ASSUME NEW n \in Nat, n \in Sizes PROVE n + 1 \in Sizes
  <2>1. PICK it : IsTable(it, f, Upto(n))
    BY <1>4
  <2> DEFINE Row(g, s) == IF s = {} THEN 0 ELSE f[Pick(s)] + g[s \ {Pick(s)}]
             longer == [s \in Upto(n + 1) |-> Row(it, s)]
  <2>2. ASSUME NEW s \in Upto(n) PROVE s \in Upto(n + 1) /\ longer[s] = it[s]
    <3>1. s \in Upto(n + 1)
      BY <1>1
    <3>2. it = [t \in Upto(n) |-> Row(it, t)]
      BY <2>1 DEF IsTable
    <3>3. it[s] = Row(it, s)
      <4> HIDE DEF Row, Upto
      <4> QED
        BY <3>2
    <3>4. longer[s] = Row(it, s)
      <4> HIDE DEF Row, Upto
      <4> QED
        BY <3>1
    <3> QED
      BY <3>1, <3>3, <3>4
  <2>3. \A s \in Upto(n + 1) : s # {} => longer[s \ {Pick(s)}] = it[s \ {Pick(s)}]
    BY <1>2, <2>2
  <2>4. \A s \in Upto(n + 1) : Row(it, s) = Row(longer, s)
    BY <2>3
  <2>5. longer = [s \in Upto(n + 1) |-> Row(longer, s)]
    BY <2>4
  <2>6. IsTable(longer, f, Upto(n + 1))
    BY <2>5 DEF IsTable
  <2> HIDE DEF longer, Upto
  <2>7. \E g : IsTable(g, f, Upto(n + 1))
    BY <2>6
  <2> QED
    BY <2>7
<1>5. \A n \in Nat : n \in Sizes
  <2> HIDE DEF Sizes
  <2> QED
    BY <1>3, <1>4, SetOfAllNaturals
<1>6. Cardinality(D) \in Nat /\ Upto(Cardinality(D)) = SUBSET D
  BY <1>1, FS_CardinalityType
<1>7. \E it : IsTable(it, f, SUBSET D)
  BY <1>5, <1>6
<1> QED
  BY <1>7 DEF Table

(* A sum is what the table holds for the whole domain; a row of the table  *)
(* is the value of the picked element and the row without it.              *)
LEMMA SumIsTable ==
  ASSUME NEW f
  PROVE  Sum(f) = Table(f)[DOMAIN f]
  BY DEF Sum, FoldFunction, FoldFunctionOnSet, MapThenFoldSet, Table, IsTable, Pick

LEMMA TableRows ==
  ASSUME NEW D, IsFiniteSet(D), NEW f \in [D -> Int]
  PROVE  /\ Table(f)[{}] = 0
         /\ \A s \in SUBSET D : s # {} =>
              /\ Pick(s) \in s /\ Pick(s) \in D /\ s \ {Pick(s)} \in SUBSET D
              /\ Table(f)[s] = f[Pick(s)] + Table(f)[s \ {Pick(s)}]
<1>1. PICK it : it = Table(f)
  OBVIOUS
<1>2. it = [s \in SUBSET D |-> IF s = {} THEN 0 ELSE f[Pick(s)] + it[s \ {Pick(s)}]]
  BY <1>1, TableExists DEF IsTable
<1>3. \A s \in SUBSET D : it[s] = IF s = {} THEN 0 ELSE f[Pick(s)] + it[s \ {Pick(s)}]
  BY <1>2
<1>4. \A s \in SUBSET D : s # {} => Pick(s) \in s
  BY DEF Pick
<1> QED
  BY <1>1, <1>3, <1>4

LEMMA TableRow ==
  ASSUME NEW D, IsFiniteSet(D), NEW f \in [D -> Int],
         NEW s \in SUBSET D, s # {}, NEW x, NEW t, x = Pick(s), t = s \ {x}
  PROVE  Table(f)[s] = f[x] + Table(f)[t]
  BY TableRows

LEMMA TableType ==
  ASSUME NEW D, IsFiniteSet(D), NEW f \in [D -> Int]
  PROVE  \A s \in SUBSET D : Table(f)[s] \in Int
<1> DEFINE G == {s \in SUBSET D : Table(f)[s] \in Int}
<1>1. {} \in G
  BY TableRows
<1>2. ASSUME NEW s \in SUBSET D, s # {}, s \ {Pick(s)} \in G PROVE s \in G
  <2>1. Table(f)[s] = f[Pick(s)] + Table(f)[s \ {Pick(s)}] /\ f[Pick(s)] \in Int
    BY <1>2, TableRows
  <2> QED
    BY <1>2, <2>1
<1> HIDE DEF G
<1>3. \A s \in SUBSET D : s \in G
  BY <1>1, <1>2, SetOfAllSubsets
<1> QED
  BY <1>3 DEF G

(* The sum of integers is one.                                             *)
LEMMA SumType ==
  ASSUME NEW D, IsFiniteSet(D), NEW f \in [D -> Int]
  PROVE  Sum(f) \in Int
  BY SumIsTable, TableType

(* Where no value is smaller, the sum is not.                              *)
LEMMA SumMonotone ==
  ASSUME NEW D, IsFiniteSet(D), NEW f \in [D -> Int], NEW g \in [D -> Int],
         \A x \in D : f[x] <= g[x]
  PROVE  Sum(f) <= Sum(g)
<1> DEFINE G == {s \in SUBSET D : Table(f)[s] <= Table(g)[s]}
<1>1. {} \in G
  BY TableRows
<1>2. ASSUME NEW s \in SUBSET D, s # {}, s \ {Pick(s)} \in G PROVE s \in G
  <2>1. PICK x \in D, t \in SUBSET D : x = Pick(s) /\ t = s \ {x}
    BY <1>2, TableRows
  <2>2. Table(f)[s] = f[x] + Table(f)[t] /\ Table(g)[s] = g[x] + Table(g)[t]
    BY <1>2, <2>1, TableRow
  <2>3. /\ f[x] \in Int /\ g[x] \in Int /\ f[x] <= g[x]
        /\ Table(f)[t] \in Int /\ Table(g)[t] \in Int
    BY TableType
  <2>4. Table(f)[t] <= Table(g)[t]
    BY <1>2, <2>1
  <2> QED
    BY <2>2, <2>3, <2>4
<1> HIDE DEF G
<1>3. \A s \in SUBSET D : s \in G
  BY <1>1, <1>2, SetOfAllSubsets
<1>4. Table(f)[D] <= Table(g)[D]
  BY <1>3 DEF G
<1> QED
  BY <1>4, SumIsTable

(* A factor common to all is one of the sum.                               *)
LEMMA SumScaled ==
  ASSUME NEW D, IsFiniteSet(D), NEW f \in [D -> Int], NEW g \in [D -> Int], NEW c \in Int,
         \A x \in D : f[x] = c * g[x]
  PROVE  Sum(f) = c * Sum(g)
<1> DEFINE G == {s \in SUBSET D : Table(f)[s] = c * Table(g)[s]}
<1>1. {} \in G
  BY TableRows
<1>2. ASSUME NEW s \in SUBSET D, s # {}, s \ {Pick(s)} \in G PROVE s \in G
  <2>1. PICK x \in D, t \in SUBSET D : x = Pick(s) /\ t = s \ {x}
    BY <1>2, TableRows
  <2>2. Table(f)[s] = f[x] + Table(f)[t] /\ Table(g)[s] = g[x] + Table(g)[t]
    BY <1>2, <2>1, TableRow
  <2>3. f[x] = c * g[x] /\ Table(f)[t] = c * Table(g)[t]
    BY <1>2, <2>1
  <2>4. PICK u \in Int, v \in Int : u = g[x] /\ v = Table(g)[t]
    BY TableType
  <2>5. c * u + c * v = c * (u + v)
    OBVIOUS
  <2> QED
    BY <2>2, <2>3, <2>4, <2>5
<1> HIDE DEF G
<1>3. \A s \in SUBSET D : s \in G
  BY <1>1, <1>2, SetOfAllSubsets
<1>4. Table(f)[D] = c * Table(g)[D]
  BY <1>3 DEF G
<1> QED
  BY <1>4, SumIsTable

(* The sum of two maps.                                                    *)
LEMMA SumAdded ==
  ASSUME NEW D, IsFiniteSet(D), NEW f \in [D -> Int], NEW g \in [D -> Int], NEW h \in [D -> Int],
         \A x \in D : h[x] = f[x] + g[x]
  PROVE  Sum(h) = Sum(f) + Sum(g)
<1> DEFINE G == {s \in SUBSET D : Table(h)[s] = Table(f)[s] + Table(g)[s]}
<1>1. {} \in G
  BY TableRows
<1>2. ASSUME NEW s \in SUBSET D, s # {}, s \ {Pick(s)} \in G PROVE s \in G
  <2>1. PICK x \in D, t \in SUBSET D : x = Pick(s) /\ t = s \ {x}
    BY <1>2, TableRows
  <2>2. /\ Table(f)[s] = f[x] + Table(f)[t] /\ Table(g)[s] = g[x] + Table(g)[t]
        /\ Table(h)[s] = h[x] + Table(h)[t]
    BY <1>2, <2>1, TableRow
  <2>3. h[x] = f[x] + g[x] /\ Table(h)[t] = Table(f)[t] + Table(g)[t]
    BY <1>2, <2>1
  <2>4. f[x] \in Int /\ g[x] \in Int /\ Table(f)[t] \in Int /\ Table(g)[t] \in Int
    BY TableType
  <2> QED
    BY <2>2, <2>3, <2>4
<1> HIDE DEF G
<1>3. \A s \in SUBSET D : s \in G
  BY <1>1, <1>2, SetOfAllSubsets
<1>4. Table(h)[D] = Table(f)[D] + Table(g)[D]
  BY <1>3 DEF G
<1> QED
  BY <1>4, SumIsTable

(* The same value everywhere.                                              *)
LEMMA SumConstant ==
  ASSUME NEW D, IsFiniteSet(D), NEW f \in [D -> Int], NEW c \in Int, \A x \in D : f[x] = c
  PROVE  Sum(f) = Cardinality(D) * c
<1> DEFINE G == {s \in SUBSET D : Table(f)[s] = Cardinality(s) * c}
<1>1. {} \in G
  BY TableRows, FS_EmptySet
<1>2. ASSUME NEW s \in SUBSET D, s # {}, s \ {Pick(s)} \in G PROVE s \in G
  <2>1. PICK x \in D, t \in SUBSET D : x = Pick(s) /\ t = s \ {x} /\ x \in s
    BY <1>2, TableRows
  <2>2. Table(f)[s] = c + Table(f)[t]
    BY <1>2, <2>1, TableRow
  <2>3. Table(f)[t] = Cardinality(t) * c
    BY <1>2, <2>1
  <2>4. PICK n \in Nat : n = Cardinality(t) /\ Cardinality(s) = n + 1
    <3>1. IsFiniteSet(s) /\ IsFiniteSet(t) /\ Cardinality(s) \in Nat /\ Cardinality(t) \in Nat
      BY FS_Subset, FS_CardinalityType
    <3>2. Cardinality(t) = Cardinality(s) - 1
      BY <2>1, <3>1, FS_RemoveElement
    <3> QED
      BY <3>1, <3>2
  <2>5. c + n * c = (n + 1) * c
    OBVIOUS
  <2> QED
    BY <2>2, <2>3, <2>4, <2>5
<1> HIDE DEF G
<1>3. \A s \in SUBSET D : s \in G
  BY <1>1, <1>2, SetOfAllSubsets
<1>4. Table(f)[D] = Cardinality(D) * c
  BY <1>3 DEF G
<1> QED
  BY <1>4, SumIsTable

(* The sum of the ones is how many there are.                              *)
LEMMA SumCounts ==
  ASSUME NEW D, IsFiniteSet(D), NEW S \in SUBSET D, NEW f \in [D -> Int],
         \A x \in D : f[x] = IF x \in S THEN 1 ELSE 0
  PROVE  Sum(f) = Cardinality(S)
<1> DEFINE G == {s \in SUBSET D : Table(f)[s] = Cardinality(s \cap S)}
<1>1. {} \in G
  BY TableRows, FS_EmptySet
<1>2. ASSUME NEW s \in SUBSET D, s # {}, s \ {Pick(s)} \in G PROVE s \in G
  <2>1. PICK x \in D, t \in SUBSET D : x = Pick(s) /\ t = s \ {x} /\ x \in s
    BY <1>2, TableRows
  <2>2. Table(f)[s] = f[x] + Table(f)[t] /\ Table(f)[t] = Cardinality(t \cap S)
    BY <1>2, <2>1, TableRow
  <2>3. IsFiniteSet(t \cap S) /\ Cardinality(t \cap S) \in Nat
    BY FS_Subset, FS_CardinalityType
  <2>4. CASE x \in S
    <3>1. x \notin t \cap S /\ s \cap S = (t \cap S) \cup {x}
      BY <2>1, <2>4
    <3>2. Cardinality(s \cap S) = Cardinality(t \cap S) + 1
      BY <2>3, <3>1, FS_AddElement
    <3> QED
      BY <2>2, <2>3, <2>4, <3>2
  <2>5. CASE x \notin S
    <3>1. Cardinality(s \cap S) = Cardinality(t \cap S)
      <4>1. s \cap S = t \cap S
        BY <2>1, <2>5
      <4> QED
        BY <4>1
    <3>2. f[x] = 0
      BY <2>5
    <3> QED
      BY <2>2, <2>3, <3>1, <3>2
  <2> QED
    BY <2>4, <2>5
<1> HIDE DEF G
<1>3. D \in G
  BY <1>1, <1>2, SetOfAllSubsets
<1>4. Table(f)[D] = Cardinality(S)
  <2>1. D \cap S = S
    OBVIOUS
  <2> QED
    BY <1>3, <2>1 DEF G
<1> QED
  BY <1>4, SumIsTable

(* A sum of naturals is one, and no less than any of them.                 *)
LEMMA SumOfNaturals ==
  ASSUME NEW D, IsFiniteSet(D), NEW f \in [D -> Nat]
  PROVE  Sum(f) \in Nat /\ \A x \in D : f[x] <= Sum(f)
<1>1. f \in [D -> Int] /\ \A x \in D : f[x] \in Nat
  OBVIOUS
<1> DEFINE G == {s \in SUBSET D : Table(f)[s] \in Nat /\ \A y \in s : f[y] <= Table(f)[s]}
<1>2. {} \in G
  BY <1>1, TableRows
<1>3. ASSUME NEW s \in SUBSET D, s # {}, s \ {Pick(s)} \in G PROVE s \in G
  <2>1. PICK x \in D, t \in SUBSET D : x = Pick(s) /\ t = s \ {x} /\ x \in s
    BY <1>1, <1>3, TableRows
  <2>2. Table(f)[s] = f[x] + Table(f)[t]
    BY <1>1, <1>3, <2>1, TableRow
  <2>3. Table(f)[t] \in Nat /\ \A y \in t : f[y] <= Table(f)[t]
    BY <1>3, <2>1
  <2>4. \A y \in s : y = x \/ y \in t
    BY <2>1
  <2> QED
    BY <1>1, <2>2, <2>3, <2>4
<1> HIDE DEF G
<1>4. \A s \in SUBSET D : s \in G
  BY <1>2, <1>3, SetOfAllSubsets
<1>5. Table(f)[D] \in Nat /\ \A y \in D : f[y] <= Table(f)[D]
  BY <1>4 DEF G
<1> QED
  BY <1>1, <1>5, SumIsTable

(* A map over 1..n has a largest value.                                    *)
LEMMA LargestExists ==
  ASSUME NEW n \in Nat \ {0}, NEW f \in [1..n -> Int]
  PROVE  \E i \in 1..n : \A j \in 1..n : f[j] <= f[i]
<1> DEFINE S == {m \in Nat : m + 1 <= n => \E i \in 1..(m + 1) : \A j \in 1..(m + 1) : f[j] <= f[i]}
<1>1. 0 \in S
  OBVIOUS
<1>2. ASSUME NEW m \in Nat, m \in S PROVE m + 1 \in S
  <2> SUFFICES ASSUME m + 2 <= n
               PROVE  \E i \in 1..(m + 2) : \A j \in 1..(m + 2) : f[j] <= f[i]
    OBVIOUS
  <2>1. PICK i \in 1..(m + 1) : \A j \in 1..(m + 1) : f[j] <= f[i]
    BY <1>2
  <2>2. f[i] \in Int /\ f[m + 2] \in Int /\ \A j \in 1..(m + 2) : f[j] \in Int /\ (j \in 1..(m + 1) \/ j = m + 2)
    OBVIOUS
  <2>3. CASE f[m + 2] <= f[i]
    <3>1. \A j \in 1..(m + 2) : f[j] <= f[i]
      BY <2>1, <2>2, <2>3
    <3> QED
      BY <3>1
  <2>4. CASE f[i] < f[m + 2]
    <3>1. \A j \in 1..(m + 2) : f[j] <= f[m + 2]
      BY <2>1, <2>2, <2>4
    <3> QED
      BY <3>1
  <2> QED
    BY <2>2, <2>3, <2>4
<1> HIDE DEF S
<1>3. n - 1 \in S
  <2>1. \A m \in Nat : m \in S
    BY <1>1, <1>2, SetOfAllNaturals
  <2> QED
    BY <2>1
<1> QED
  BY <1>3 DEF S

-----------------------------------------------------------------------------
(* The numbers from 1 to n.                                                *)
LEMMA FirstNumbers ==
  ASSUME NEW n \in Nat
  PROVE  IsFiniteSet(1..n) /\ Cardinality(1..n) = n
  BY FS_Interval

(* A finite map of integers can be sorted.                                 *)
LEMMA SortingExists ==
  ASSUME NEW n \in Nat, NEW f \in [1..n -> Int]
  PROVE  \E p \in Bijection(1..n, 1..n) : \A i, j \in 1..n : i < j => f[p[i]] <= f[p[j]]
<1> DEFINE Before(i, j) == f[i] < f[j] \/ (f[i] = f[j] /\ i < j)
           UpTo(j) == {i \in 1..n : i = j \/ Before(i, j)}
           rank == [i \in 1..n |-> Cardinality(UpTo(i))]
<1>1. IsFiniteSet(1..n) /\ Cardinality(1..n) = n
  BY FirstNumbers
<1>2. ASSUME NEW j \in 1..n
      PROVE  /\ IsFiniteSet(UpTo(j)) /\ Cardinality(UpTo(j)) \in 1..n
             /\ IsFiniteSet(UpTo(j) \ {j}) /\ Cardinality(UpTo(j) \ {j}) = Cardinality(UpTo(j)) - 1
  <2>1. UpTo(j) \in SUBSET (1..n) /\ j \in UpTo(j)
    OBVIOUS
  <2> HIDE DEF UpTo
  <2>2. IsFiniteSet(UpTo(j)) /\ Cardinality(UpTo(j)) <= n
    BY <1>1, <2>1, FS_Subset
  <2>3. Cardinality(UpTo(j)) \in Nat /\ Cardinality(UpTo(j)) # 0
    BY <2>1, <2>2, FS_CardinalityType, FS_EmptySet
  <2> QED
    BY <2>1, <2>2, <2>3, FS_RemoveElement
<1>3. ASSUME NEW i \in 1..n, NEW j \in 1..n, Before(i, j)
      PROVE  Cardinality(UpTo(i)) < Cardinality(UpTo(j))
  <2>1. UpTo(i) \in SUBSET (UpTo(j) \ {j})
    BY <1>3
  <2> HIDE DEF UpTo
  <2>2. PICK s, t : s = UpTo(i) /\ t = UpTo(j) \ {j}
    OBVIOUS
  <2>3. IsFiniteSet(t) /\ s \in SUBSET t /\ Cardinality(t) = Cardinality(UpTo(j)) - 1
    BY <1>2, <2>1, <2>2
  <2>4. Cardinality(s) <= Cardinality(t)
    BY <2>3, FS_Subset
  <2>5. Cardinality(s) \in 1..n /\ Cardinality(UpTo(j)) \in 1..n
    BY <1>2, <2>2
  <2> QED
    BY <2>2, <2>3, <2>4, <2>5
<1>4. \A i, j \in 1..n : i = j \/ Before(i, j) \/ Before(j, i)
  <2>1. \A i \in 1..n : f[i] \in Int
    OBVIOUS
  <2> QED
    BY <2>1
<1> HIDE DEF UpTo
<1>5. \A i, j \in 1..n : Before(i, j) => rank[i] < rank[j]
  BY <1>3
<1>6. \A i \in 1..n : rank[i] \in 1..n
  BY <1>2
<1>7. rank \in [1..n -> 1..n]
  BY <1>6
<1> HIDE DEF rank
<1>8. rank \in Injection(1..n, 1..n)
  <2>1. \A i, j \in 1..n : rank[i] = rank[j] => i = j
    <3> HIDE DEF Before
    <3> QED
      BY <1>4, <1>5, <1>6
  <2> QED
    BY <1>7, <2>1 DEF Injection, IsInjective
<1>9. \A k \in 1..n : \E i \in 1..n : rank[i] = k
  <2>1. rank \in Surjection(1..n, 1..n)
    BY <1>1, <1>8, FS_Injection
  <2> QED
    BY <2>1 DEF Surjection
<1> DEFINE p == [k \in 1..n |-> CHOOSE i \in 1..n : rank[i] = k]
<1>10. \A k \in 1..n : p[k] \in 1..n /\ rank[p[k]] = k
  BY <1>9
<1>11. p \in [1..n -> 1..n]
  BY <1>9
<1> HIDE DEF p
<1>12. p \in Injection(1..n, 1..n)
  <2>1. \A i, j \in 1..n : p[i] = p[j] => i = j
    BY <1>10, Zenon
  <2> QED
    BY <1>11, <2>1 DEF Injection, IsInjective
<1>13. p \in Bijection(1..n, 1..n)
  BY <1>1, <1>12, FS_Injection DEF Bijection
<1>14. ASSUME NEW i \in 1..n, NEW j \in 1..n, i < j PROVE f[p[i]] <= f[p[j]]
  <2>1. PICK a \in 1..n, b \in 1..n : a = p[i] /\ b = p[j] /\ rank[a] = i /\ rank[b] = j
    BY <1>10
  <2>2. ~Before(b, a) /\ a # b
    <3> HIDE DEF Before
    <3> QED
      BY <1>5, <1>14, <2>1
  <2>3. f[a] \in Int /\ f[b] \in Int
    OBVIOUS
  <2> QED
    BY <2>1, <2>2, <2>3
<1> QED
  BY <1>13, <1>14
===============================================================================
