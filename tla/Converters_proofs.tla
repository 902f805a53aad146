------------------------- MODULE Converters_proofs --------------------------
(***************************************************************************)
(* Proofs about the converters that add up what they read, which all rest  *)
(* on the same facts about numbers, sums and recursions: DutyCycle, for    *)
(* any spans in any order and any order of combining; StepIntersection,    *)
(* for any hosts with any steps; HeapSimulator, for any logical buffers    *)
(* and any trace of their allocations; and DerivedLine, for any stream of  *)
(* kernels with any nests of names.                                        *)
(***************************************************************************)
EXTENDS DutyCycle, StepIntersection, HeapSimulator, DerivedLine, FiniteSetTheorems,
        SequenceTheorems, TLAPS

(* Numbers and sets.                                                       *)
LEMMA LeastNumber ==
  ASSUME NEW T, T \subseteq Nat, T # {}
  PROVE  \E m \in T : \A n \in T : m <= n
<1>1. PICK m \in T : \A n \in T : ~ (<<n, m>> \in OpToRel(<, Nat))
  BY WFMin, NatLessThanWellFounded
<1>2. ASSUME NEW n \in T PROVE m <= n
  <2>1. m \in Nat /\ n \in Nat /\ <<n, m>> \in Nat \X Nat
    OBVIOUS
  <2>2. ~ (n < m)
    BY <1>1, <2>1 DEF OpToRel
  <2>3. QED
    BY <2>1, <2>2
<1>3. QED
  BY <1>2

LEMMA MinIsLeast ==
  ASSUME NEW T, T \subseteq Nat, T # {}
  PROVE  Min(T) \in T /\ \A n \in T : Min(T) <= n
<1>1. \E m \in T : \A n \in T : m <= n
  BY LeastNumber
<1>2. QED
  BY <1>1 DEF Min

LEMMA MinMaxOfTwo ==
  ASSUME NEW a \in Nat, NEW b \in Nat
  PROVE  /\ Min({a, b}) = IF a <= b THEN a ELSE b
         /\ Max({a, b}) = IF a <= b THEN b ELSE a
BY DEF Min, Max

(* The fold of a sum over the subsets of a finite set has one solution.    *)
Summed(S, w, f) ==
  f = [s \in SUBSET S |->
         IF s = {} THEN 0
         ELSE w[CHOOSE x \in s : TRUE] + f[s \ {CHOOSE x \in s : TRUE}]]

LEMMA SumIsUnique ==
  ASSUME NEW S, IsFiniteSet(S), NEW w, NEW f, NEW g, Summed(S, w, f), Summed(S, w, g)
  PROVE  f = g
<1> DEFINE Differ == {s \in SUBSET S : f[s] # g[s]}
           Sizes == {Cardinality(s) : s \in Differ}
<1>1. SUFFICES ASSUME Differ # {} PROVE FALSE
  <2>1. f = [s \in SUBSET S |-> f[s]] /\ g = [s \in SUBSET S |-> g[s]]
    BY Zenon DEF Summed
  <2>2. (\A s \in SUBSET S : f[s] = g[s]) => f = g
    BY <2>1, Zenon
  <2>3. QED
    BY <1>1, <2>2, Zenon
<1>2. \A s \in SUBSET S : IsFiniteSet(s) /\ Cardinality(s) \in Nat
  BY FS_Subset, FS_CardinalityType
<1>3. PICK m \in Sizes : \A n \in Sizes : m <= n
  <2>1. Sizes \subseteq Nat /\ Sizes # {}
    BY <1>1, <1>2
  <2>2. QED
    BY <2>1, LeastNumber
<1>4. PICK s \in Differ : m = Cardinality(s)
  OBVIOUS
<1> DEFINE x == CHOOSE y \in s : TRUE
           rest == s \ {x}
<1>5. CASE s = {}
  BY <1>4, <1>5, Zenon DEF Summed
<1>6. CASE s # {}
  <2>1. x \in s /\ rest \in SUBSET S
    BY <1>6
  <2>2. f[s] = w[x] + f[rest] /\ g[s] = w[x] + g[rest]
    BY <1>4, <1>6, Zenon DEF Summed
  <2>3. Cardinality(rest) = Cardinality(s) - 1 /\ Cardinality(s) \in Nat
    BY <1>2, <2>1, FS_RemoveElement
  <2>4. rest \in Differ
    BY <1>4, <2>1, <2>2, Zenon
  <2>5. Cardinality(rest) \in Sizes
    BY <2>4
  <2>6. QED
    BY <1>2, <1>3, <1>4, <2>1, <2>3, <2>5
<1>7. QED
  BY <1>5, <1>6

(* A sum of natural numbers over a finite set is one. *)
SummedUpTo(S, w, n, f) ==
  /\ f = [s \in SUBSET S |-> f[s]]
  /\ \A s \in SUBSET S : Cardinality(s) <= n =>
       /\ f[s] \in Nat
       /\ f[s] = IF s = {} THEN 0
                 ELSE w[CHOOSE x \in s : TRUE] + f[s \ {CHOOSE x \in s : TRUE}]

LEMMA SumOfMore ==
  ASSUME NEW S, IsFiniteSet(S), NEW w, \A x \in S : w[x] \in Nat,
         NEW n \in Nat, NEW f, n = 0 \/ SummedUpTo(S, w, n - 1, f)
  PROVE  \E g : SummedUpTo(S, w, n, g)
<1> DEFINE Chosen(s) == CHOOSE x \in s : TRUE
           Value(h, s) == IF s = {} THEN 0 ELSE w[Chosen(s)] + h[s \ {Chosen(s)}]
           g == [s \in SUBSET S |-> IF Cardinality(s) < n THEN f[s] ELSE Value(f, s)]
<1>1. \A s \in SUBSET S : IsFiniteSet(s) /\ Cardinality(s) \in Nat
  BY FS_Subset, FS_CardinalityType
<1>2. ASSUME NEW s \in SUBSET S, s # {}
      PROVE  /\ Chosen(s) \in S /\ s \ {Chosen(s)} \in SUBSET S
             /\ Cardinality(s \ {Chosen(s)}) = Cardinality(s) - 1
             /\ Cardinality(s) # 0
  <2>1. Chosen(s) \in s
    BY <1>2
  <2> HIDE DEF Chosen
  <2>2. Cardinality(s \ {Chosen(s)}) = Cardinality(s) - 1
    BY <1>1, <2>1, FS_RemoveElement
  <2>3. Cardinality(s) # 0
    BY <1>1, <1>2, FS_EmptySet
  <2>4. QED
    BY <2>1, <2>2, <2>3
<1>3. ASSUME NEW s \in SUBSET S, Cardinality(s) < n
      PROVE  f[s] \in Nat /\ f[s] = Value(f, s) /\ g[s] = f[s]
  <2>1. Cardinality(s) <= n - 1 /\ n # 0
    BY <1>1, <1>3
  <2>2. f[s] \in Nat /\ f[s] = Value(f, s)
    BY <2>1, Zenon DEF SummedUpTo
  <2>3. g[s] = f[s]
    BY <1>3
  <2>4. QED
    BY <2>2, <2>3
<1> HIDE DEF Chosen
<1>4. ASSUME NEW s \in SUBSET S, Cardinality(s) <= n, s # {}
      PROVE  /\ f[s \ {Chosen(s)}] \in Nat /\ g[s \ {Chosen(s)}] = f[s \ {Chosen(s)}]
             /\ w[Chosen(s)] \in Nat
  <2>1. s \ {Chosen(s)} \in SUBSET S /\ Cardinality(s \ {Chosen(s)}) < n
    BY <1>1, <1>2, <1>4
  <2>2. QED
    BY <1>2, <1>3, <1>4, <2>1
<1>5. ASSUME NEW s \in SUBSET S, Cardinality(s) <= n
      PROVE  g[s] \in Nat /\ g[s] = Value(g, s)
  <2>1. g[s] = Value(f, s)
    BY <1>3
  <2>2. CASE s = {}
    BY <2>1, <2>2
  <2>3. CASE s # {}
    <3> DEFINE rest == s \ {Chosen(s)}
    <3>1. f[rest] \in Nat /\ g[rest] = f[rest] /\ w[Chosen(s)] \in Nat
      BY <1>4, <1>5, <2>3
    <3>2. Value(f, s) = w[Chosen(s)] + f[rest] /\ Value(g, s) = w[Chosen(s)] + g[rest]
      BY <2>3
    <3> HIDE DEF g, rest, Value
    <3>3. QED
      BY <2>1, <3>1, <3>2
  <2>4. QED
    BY <2>2, <2>3
<1>6. g = [s \in SUBSET S |-> g[s]]
  OBVIOUS
<1> HIDE DEF g
<1>7. SummedUpTo(S, w, n, g)
  BY <1>5, <1>6, Zenon DEF SummedUpTo, Chosen
<1>8. QED
  BY <1>7

LEMMA SumExists ==
  ASSUME NEW S, IsFiniteSet(S), NEW w, \A x \in S : w[x] \in Nat
  PROVE  \E g : Summed(S, w, g) /\ g[S] \in Nat
<1> DEFINE T == {n \in Nat : ~ \E g : SummedUpTo(S, w, n, g)}
<1>1. T = {}
  <2>1. SUFFICES ASSUME T # {} PROVE FALSE
    BY <2>1
  <2>2. PICK m \in T : \A n \in T : m <= n
    <3>1. T \subseteq Nat /\ T # {}
      BY <2>1
    <3> HIDE DEF T
    <3>2. QED
      BY <3>1, LeastNumber
  <2>3. m \in Nat /\ (m = 0 \/ (m - 1 \in Nat /\ m - 1 \notin T))
    BY <2>2
  <2>4. m = 0 \/ \E g : SummedUpTo(S, w, m - 1, g)
    BY <2>3
  <2>5. \E g : SummedUpTo(S, w, m, g)
    BY <2>3, <2>4, SumOfMore
  <2>6. QED
    BY <2>2, <2>5
<1>2. Cardinality(S) \in Nat
  BY FS_CardinalityType
<1>3. PICK g : SummedUpTo(S, w, Cardinality(S), g)
  BY <1>1, <1>2
<1>4. \A s \in SUBSET S : Cardinality(s) <= Cardinality(S)
  BY FS_Subset
<1>5. /\ g = [s \in SUBSET S |-> g[s]]
      /\ \A s \in SUBSET S :
           /\ g[s] \in Nat
           /\ g[s] = IF s = {} THEN 0
                     ELSE w[CHOOSE x \in s : TRUE] + g[s \ {CHOOSE x \in s : TRUE}]
  BY <1>3, <1>4, Zenon DEF SummedUpTo
<1>6. Summed(S, w, g)
  BY <1>5, Zenon DEF Summed
<1>7. QED
  BY <1>5, <1>6

LEMMA SumIsNat ==
  ASSUME NEW S, IsFiniteSet(S), NEW w, \A x \in S : w[x] \in Nat
  PROVE  (CHOOSE f : Summed(S, w, f))[S] \in Nat
<1>1. PICK g : Summed(S, w, g) /\ g[S] \in Nat
  BY SumExists
<1>2. Summed(S, w, CHOOSE f : Summed(S, w, f))
  BY <1>1, Zenon
<1>3. (CHOOSE f : Summed(S, w, f)) = g
  <2> DEFINE h == CHOOSE f : Summed(S, w, f)
  <2>1. Summed(S, w, h)
    BY <1>2
  <2> HIDE DEF h
  <2>2. h = g
    BY <1>1, <2>1, SumIsUnique
  <2>3. QED
    BY <2>2 DEF h
<1>4. QED
  BY <1>1, <1>3

(* The sum of w over a finite set, element by element.                     *)
TotalOf(w, S) == (CHOOSE f : Summed(S, w, f))[S]

PartOf(f, T) == [s \in SUBSET T |-> f[s]]

LEMMA SumOfPart ==
  ASSUME NEW S, NEW T \in SUBSET S, NEW w, NEW f, Summed(S, w, f)
  PROVE  Summed(T, w, PartOf(f, T))
<1> DEFINE Chosen(s) == CHOOSE x \in s : TRUE
           g == [s \in SUBSET T |-> f[s]]
           Value(h, s) == IF s = {} THEN 0 ELSE w[Chosen(s)] + h[s \ {Chosen(s)}]
<1>1. ASSUME NEW s \in SUBSET T
      PROVE  f[s] = Value(g, s)
  <2>1. s \in SUBSET S /\ s \ {Chosen(s)} \in SUBSET T
    OBVIOUS
  <2>2. f[s] = Value(f, s)
    BY <2>1, Zenon DEF Summed
  <2>3. g[s \ {Chosen(s)}] = f[s \ {Chosen(s)}]
    BY <2>1
  <2>4. QED
    BY <2>2, <2>3, Zenon
<1>2. g = [s \in SUBSET T |-> Value(g, s)]
  <2> HIDE DEF Value
  <2>1. QED
    BY <1>1
<1>3. QED
  BY <1>2, Zenon DEF Summed, PartOf

LEMMA TotalIsSum ==
  ASSUME NEW S, IsFiniteSet(S), NEW w, NEW f, Summed(S, w, f)
  PROVE  TotalOf(w, S) = f[S]
<1> DEFINE h == CHOOSE g : Summed(S, w, g)
<1>1. Summed(S, w, h)
  BY Zenon
<1> HIDE DEF h
<1>2. h = f
  BY <1>1, SumIsUnique
<1>3. QED
  BY <1>2 DEF TotalOf, h

LEMMA TotalOfNone == ASSUME NEW w PROVE TotalOf(w, {}) = 0
<1>1. IsFiniteSet({}) /\ \A x \in {} : w[x] \in Nat
  BY FS_EmptySet
<1>2. PICK g : Summed({}, w, g)
  BY <1>1, SumExists
<1>3. g[{}] = 0
  BY <1>2, Zenon DEF Summed
<1>4. QED
  BY <1>1, <1>2, <1>3, TotalIsSum

LEMMA TotalIsNat ==
  ASSUME NEW S, IsFiniteSet(S), NEW w, \A x \in S : w[x] \in Nat
  PROVE  TotalOf(w, S) \in Nat
BY SumIsNat DEF TotalOf

LEMMA TotalOfChosen ==
  ASSUME NEW S, IsFiniteSet(S), NEW w, \A x \in S : w[x] \in Nat, S # {}
  PROVE  \E x \in S : TotalOf(w, S) = w[x] + TotalOf(w, S \ {x})
<1> DEFINE x == CHOOSE y \in S : TRUE
           T == S \ {x}
<1>1. PICK f : Summed(S, w, f)
  BY SumExists
<1>2. x \in S
  OBVIOUS
<1>3. T \in SUBSET S /\ IsFiniteSet(T)
  BY FS_Subset
<1>4. TotalOf(w, S) = f[S]
  BY <1>1, TotalIsSum
<1>5. f[S] = w[x] + f[T]
  BY <1>1, Zenon DEF Summed
<1> HIDE DEF x, T
<1>6. Summed(T, w, PartOf(f, T))
  BY <1>1, <1>3, SumOfPart
<1>7. TotalOf(w, T) = PartOf(f, T)[T]
  BY <1>3, <1>6, TotalIsSum
<1>8. TotalOf(w, T) = f[T]
  BY <1>7 DEF PartOf
<1>9. QED
  BY <1>2, <1>4, <1>5, <1>8 DEF T

(* Any element can be counted last. *)
LEMMA TotalOfOneMore ==
  ASSUME NEW w
  PROVE  \A S, x : IsFiniteSet(S) /\ (\A y \in S : w[y] \in Nat) /\ x \in S
                     => TotalOf(w, S) = w[x] + TotalOf(w, S \ {x})
<1> DEFINE Good(S) == IsFiniteSet(S) /\ \A y \in S : w[y] \in Nat
           Wrong(S) == Good(S) /\ \E x \in S : TotalOf(w, S) # w[x] + TotalOf(w, S \ {x})
           Sizes == {n \in Nat : \E S : Wrong(S) /\ n = Cardinality(S)}
<1>1. SUFFICES ASSUME NEW S0, Wrong(S0) PROVE FALSE
  BY <1>1
<1>2. Cardinality(S0) \in Sizes
  BY <1>1, FS_CardinalityType
<1>3. PICK m \in Sizes : \A n \in Sizes : m <= n
  <2>1. Sizes \subseteq Nat /\ Sizes # {}
    BY <1>2
  <2> HIDE DEF Sizes
  <2>2. QED
    BY <2>1, LeastNumber
<1>4. PICK S : Wrong(S) /\ m = Cardinality(S)
  BY <1>3
<1>5. PICK x \in S : TotalOf(w, S) # w[x] + TotalOf(w, S \ {x})
  BY <1>4
<1>6. PICK z \in S : TotalOf(w, S) = w[z] + TotalOf(w, S \ {z})
  BY <1>4, TotalOfChosen
<1>7. z # x
  BY <1>5, <1>6
<1>8. ASSUME NEW a \in S
      PROVE  /\ Good(S \ {a}) /\ ~ Wrong(S \ {a})
             /\ TotalOf(w, S \ {a}) \in Nat /\ w[a] \in Nat
  <2>1. IsFiniteSet(S \ {a}) /\ Cardinality(S \ {a}) = Cardinality(S) - 1
    BY <1>4, FS_RemoveElement
  <2>2. Cardinality(S \ {a}) \in Nat /\ Cardinality(S) \in Nat
    BY <1>4, <2>1, FS_CardinalityType
  <2>3. Good(S \ {a})
    BY <1>4, <2>1
  <2>4. ~ Wrong(S \ {a})
    <3>1. SUFFICES ASSUME Wrong(S \ {a}) PROVE FALSE
      BY <3>1
    <3>2. Cardinality(S \ {a}) \in Sizes
      BY <2>2, <3>1
    <3>3. m <= Cardinality(S \ {a})
      BY <1>3, <3>2
    <3> HIDE DEF Sizes
    <3>4. QED
      BY <1>4, <2>1, <2>2, <3>3
  <2>5. QED
    BY <1>4, <2>3, <2>4, TotalIsNat
<1> HIDE DEF Sizes
<1> DEFINE rest == (S \ {x}) \ {z}
<1>9. TotalOf(w, S \ {z}) = w[x] + TotalOf(w, rest)
  <2>1. (S \ {z}) \ {x} = rest
    OBVIOUS
  <2>2. TotalOf(w, S \ {z}) = w[x] + TotalOf(w, (S \ {z}) \ {x})
    BY <1>7, <1>8
  <2>3. QED
    BY <2>1, <2>2
<1>10. TotalOf(w, S \ {x}) = w[z] + TotalOf(w, rest)
  BY <1>7, <1>8
<1>11. TotalOf(w, rest) \in Nat
  <2>1. IsFiniteSet(rest) /\ \A y \in rest : w[y] \in Nat
    BY <1>4, FS_Subset
  <2>2. QED
    BY <2>1, TotalIsNat
<1>12. w[x] \in Nat /\ w[z] \in Nat
  BY <1>8
<1> HIDE DEF rest
<1>13. TotalOf(w, S) = w[x] + TotalOf(w, S \ {x})
  BY <1>6, <1>9, <1>10, <1>11, <1>12
<1>14. QED
  BY <1>5, <1>13

-----------------------------------------------------------------------------
(* DutyCycle. *)
LEMMA ActiveTimeIsSum ==
  ASSUME NEW spans, IsFiniteSet(DOMAIN spans), NEW total, NEW g,
         Summed(DOMAIN spans, [i \in DOMAIN spans |-> spans[i][2] - spans[i][1]], g)
  PROVE  DcActiveTime([spans |-> spans, total |-> total]) = g[DOMAIN spans]
<1> DEFINE S == DOMAIN spans
           len == [i \in S |-> spans[i][2] - spans[i][1]]
           Sum(f) == f = [s \in SUBSET S |->
                       IF s = {} THEN 0
                       ELSE (spans[CHOOSE x \in s : TRUE][2] - spans[CHOOSE x \in s : TRUE][1])
                            + f[s \ {CHOOSE x \in s : TRUE}]]
<1>1. \A f : Sum(f) <=> Summed(S, len, f)
  <2>1. ASSUME NEW s \in SUBSET S, s # {}
        PROVE  len[CHOOSE x \in s : TRUE]
                 = spans[CHOOSE x \in s : TRUE][2] - spans[CHOOSE x \in s : TRUE][1]
    BY <2>1
  <2>2. QED
    BY <2>1, Zenon DEF Summed
<1>2. Sum(g)
  <2> HIDE DEF Sum, len
  <2>1. Summed(S, len, g)
    BY DEF len
  <2>2. QED
    BY <1>1, <2>1, Zenon
<1>3. Sum(CHOOSE f : Sum(f))
  BY <1>2, Zenon
<1>4. (CHOOSE f : Sum(f)) = g
  BY <1>1, <1>2, <1>3, SumIsUnique
<1>5. DcActiveTime([spans |-> spans, total |-> total]) = (CHOOSE f : Sum(f))[S]
  BY DEF DcActiveTime, MapThenSumSet, MapThenFoldSet
<1>6. QED
  BY <1>4, <1>5

(* The spans of a tracker are sorted, and no two of them touch.            *)
DcTime == 0..DcEnd
Spans == {s \in DcTime \X DcTime : s[1] <= s[2]}
Sorted(spans) ==
  /\ spans \in Seq(Spans)
  /\ \A i, j \in DOMAIN spans : i < j => spans[i][2] < spans[j][1]
Over(spans, s) == UNION {DcUnits(spans[i]) : i \in s}
Covered(spans) == Over(spans, DOMAIN spans)

LEMMA SpanTypes ==
  /\ \A s \in Spans : s[1] \in Nat /\ s[2] \in Nat /\ s[1] <= s[2] /\ s[2] <= DcEnd
  /\ \A a \in DcTime, b \in DcTime : a <= b => <<a, b>> \in Spans
  /\ DcTime \subseteq Nat
  /\ DcEnd \in Nat
BY DcAssumption DEF Spans, DcTime

LEMMA ElementOf ==
  ASSUME NEW S, NEW s \in Seq(S), NEW i \in DOMAIN s
  PROVE  s[i] \in S
OBVIOUS

LEMMA SortedTypes ==
  ASSUME NEW spans, Sorted(spans)
  PROVE  /\ Len(spans) \in Nat /\ DOMAIN spans = 1..Len(spans)
         /\ \A i \in DOMAIN spans :
              /\ spans[i] \in Spans
              /\ spans[i][1] \in Nat /\ spans[i][2] \in Nat /\ spans[i][1] <= spans[i][2]
<1>1. spans \in Seq(Spans)
  BY DEF Sorted
<1>2. Len(spans) \in Nat /\ DOMAIN spans = 1..Len(spans)
  BY <1>1
<1>3. \A i \in DOMAIN spans : spans[i] \in Spans
  BY <1>1, ElementOf
<1>4. QED
  BY <1>2, <1>3, SpanTypes

(* The active time is the measure of what the spans cover. *)
LEMMA ActiveTimeIsMeasure ==
  ASSUME NEW spans, Sorted(spans), NEW total
  PROVE  DcActiveTime([spans |-> spans, total |-> total]) = Cardinality(Covered(spans))
<1> DEFINE S == DOMAIN spans
           len == [i \in S |-> spans[i][2] - spans[i][1]]
           g == [s \in SUBSET S |-> Cardinality(Over(spans, s))]
<1>1. IsFiniteSet(S)
  <2>1. Len(spans) \in Nat /\ S = 1..Len(spans)
    BY SortedTypes
  <2>2. IsFiniteSet(1..Len(spans))
    BY <2>1, FS_Interval
  <2>3. QED
    BY <2>1, <2>2
<1>2. \A i \in S : IsFiniteSet(DcUnits(spans[i])) /\ Cardinality(DcUnits(spans[i])) = len[i]
  <2>1. SUFFICES ASSUME NEW i \in S
                 PROVE  IsFiniteSet(DcUnits(spans[i])) /\ Cardinality(DcUnits(spans[i])) = len[i]
    OBVIOUS
  <2>2. ASSUME NEW a \in Nat, NEW b \in Nat, a <= b
        PROVE  IsFiniteSet(a..b - 1) /\ Cardinality(a..b - 1) = b - a
    BY <2>2, FS_Interval
  <2>3. spans[i][1] \in Nat /\ spans[i][2] \in Nat /\ spans[i][1] <= spans[i][2]
    BY SortedTypes
  <2>4. QED
    BY <2>2, <2>3 DEF DcUnits
<1>3. \A i, j \in S : i # j => DcUnits(spans[i]) \cap DcUnits(spans[j]) = {}
  <2>1. SUFFICES ASSUME NEW i \in S, NEW j \in S, i # j,
                        NEW x \in DcUnits(spans[i]), x \in DcUnits(spans[j])
                 PROVE  FALSE
    OBVIOUS
  <2>2. i < j \/ j < i
    BY <2>1, SortedTypes
  <2>3. x \in Nat /\ spans[i][1] <= x /\ x < spans[i][2] /\ spans[j][1] <= x /\ x < spans[j][2]
    BY <2>1, SortedTypes DEF DcUnits
  <2>4. spans[i][2] < spans[j][1] \/ spans[j][2] < spans[i][1]
    BY <2>1, <2>2 DEF Sorted
  <2>5. QED
    BY <2>3, <2>4, SortedTypes
<1>4. Covered(spans) \subseteq Nat /\ \A x \in Covered(spans) : x <= DcEnd
  BY SortedTypes, SpanTypes DEF Covered, Over, DcUnits
<1>5. \A s \in SUBSET S : IsFiniteSet(Over(spans, s)) /\ Cardinality(Over(spans, s)) \in Nat
  <2>1. IsFiniteSet(Covered(spans))
    BY <1>4, SpanTypes, FS_BoundedSetOfNaturals
  <2>2. \A s \in SUBSET S : Over(spans, s) \subseteq Covered(spans)
    BY DEF Covered, Over
  <2>3. QED
    BY <2>1, <2>2, FS_Subset, FS_CardinalityType
<1>6. ASSUME NEW s \in SUBSET S, s # {}, NEW x \in s
      PROVE  Cardinality(Over(spans, s)) = len[x] + Cardinality(Over(spans, s \ {x}))
  <2> DEFINE rest == Over(spans, s \ {x})
  <2>1. Over(spans, s) = DcUnits(spans[x]) \cup rest
    BY DEF Over
  <2>2. DcUnits(spans[x]) \cap rest = {}
    BY <1>3 DEF Over
  <2>3. Cardinality(DcUnits(spans[x]) \cap rest) = 0
    BY <2>2, FS_EmptySet
  <2>4. s \ {x} \in SUBSET S
    OBVIOUS
  <2>5. /\ IsFiniteSet(DcUnits(spans[x])) /\ Cardinality(DcUnits(spans[x])) = len[x]
        /\ IsFiniteSet(rest) /\ Cardinality(rest) \in Nat /\ len[x] \in Int
    BY <1>2, <1>5, <2>4, SortedTypes
  <2> HIDE DEF rest, len
  <2>6. Cardinality(Over(spans, s)) = len[x] + Cardinality(rest) - 0
    BY <2>1, <2>3, <2>5, FS_Union
  <2>7. QED
    BY <2>5, <2>6 DEF rest
<1>7. Over(spans, {}) = {} /\ Cardinality(Over(spans, {})) = 0
  BY FS_EmptySet DEF Over
<1>8. Summed(S, len, g)
  <2>1. ASSUME NEW s \in SUBSET S, s # {}
        PROVE  g[s] = len[CHOOSE x \in s : TRUE] + g[s \ {CHOOSE x \in s : TRUE}]
    <3> DEFINE x == CHOOSE y \in s : TRUE
    <3>1. x \in s /\ s \ {x} \in SUBSET S
      BY <2>1
    <3> HIDE DEF x
    <3>2. g[s] = len[x] + g[s \ {x}]
      BY <1>6, <2>1, <3>1
    <3>3. QED
      BY <3>2 DEF x
  <2>2. g[{}] = 0
    BY <1>7
  <2> HIDE DEF len
  <2>3. QED
    BY <2>1, <2>2, Zenon DEF Summed
<1>9. DcActiveTime([spans |-> spans, total |-> total]) = g[S]
  <2> HIDE DEF g
  <2>1. QED
    BY <1>1, <1>8, ActiveTimeIsSum
<1>10. QED
  BY <1>9 DEF Covered

(* A sorted sequence in which the spans from first to end - 1 are replaced *)
(* by one that covers the same time is sorted.                             *)
Replaced(spans, first, u, end) ==
  SubSeq(spans, 1, first - 1) \o <<u>> \o SubSeq(spans, end, Len(spans))

LEMMA Concatenated ==
  ASSUME NEW S, NEW p \in Seq(S), NEW q \in Seq(S)
  PROVE  /\ p \o q \in Seq(S)
         /\ Len(p \o q) = Len(p) + Len(q)
         /\ \A i \in 1..Len(p) + Len(q) :
              (p \o q)[i] = IF i <= Len(p) THEN p[i] ELSE q[i - Len(p)]
OBVIOUS

IsReplaced(r, spans, first, u, end) ==
  /\ r \in Seq(Spans)
  /\ Len(r) = Len(spans) + 1 - (end - first)
  /\ \A i \in 1..Len(r) : r[i] = IF i < first THEN spans[i]
                                 ELSE IF i = first THEN u
                                 ELSE spans[i - 1 + (end - first)]

LEMMA ReplacedElements ==
  ASSUME NEW spans \in Seq(Spans), NEW u \in Spans,
         NEW first \in 1..Len(spans) + 1, NEW end \in first..Len(spans) + 1
  PROVE  IsReplaced(Replaced(spans, first, u, end), spans, first, u, end)
<1> DEFINE L == Len(spans)
           a == SubSeq(spans, 1, first - 1)
           c == SubSeq(spans, end, L)
<1>1. L \in Nat /\ first \in Nat /\ end \in Nat /\ 1 <= first /\ first <= end /\ end <= L + 1
  OBVIOUS
<1>2. /\ a \in Seq(Spans) /\ Len(a) = first - 1
      /\ \A i \in 1..first - 1 : a[i] = spans[i]
  BY <1>1
<1>3. /\ c \in Seq(Spans) /\ Len(c) = L + 1 - end
      /\ \A i \in 1..L + 1 - end : c[i] = spans[i + end - 1]
  BY <1>1
<1> HIDE DEF a, c
<1>4. /\ a \o <<u>> \in Seq(Spans) /\ Len(a \o <<u>>) = first
      /\ \A i \in 1..first : (a \o <<u>>)[i] = IF i < first THEN spans[i] ELSE u
  BY <1>1, <1>2
<1> DEFINE b == a \o <<u>>
<1> HIDE DEF b
<1>b. /\ b \in Seq(Spans) /\ Len(b) = first
      /\ \A i \in 1..first : b[i] = IF i < first THEN spans[i] ELSE u
  BY <1>4 DEF b
<1>5. /\ b \o c \in Seq(Spans) /\ Len(b \o c) = first + (L + 1 - end)
      /\ \A i \in 1..first + (L + 1 - end) :
           (b \o c)[i] = IF i <= first THEN b[i] ELSE c[i - first]
  <2>1. /\ b \o c \in Seq(Spans)
        /\ Len(b \o c) = Len(b) + Len(c)
        /\ \A i \in 1..Len(b) + Len(c) :
             (b \o c)[i] = IF i <= Len(b) THEN b[i] ELSE c[i - Len(b)]
    BY <1>3, <1>b, Concatenated
  <2>2. Len(b) = first /\ Len(c) = L + 1 - end
    BY <1>3, <1>b
  <2>3. QED
    BY <2>1, <2>2
<1>6. Replaced(spans, first, u, end) = b \o c
  BY DEF Replaced, a, b, c
<1>7. ASSUME NEW i \in 1..first + (L + 1 - end)
      PROVE  (b \o c)[i] = IF i < first THEN spans[i]
                           ELSE IF i = first THEN u ELSE spans[i - 1 + (end - first)]
  <2>1. CASE i <= first
    BY <1>1, <1>b, <1>5, <2>1
  <2>2. CASE i > first
    <3>1. i - first \in 1..L + 1 - end /\ i - first + end - 1 = i - 1 + (end - first)
      BY <1>1, <2>2
    <3>2. QED
      BY <1>1, <1>3, <1>5, <2>2, <3>1
  <2>3. i \in Nat /\ (i <= first \/ i > first)
    BY <1>1
  <2>4. QED
    BY <2>1, <2>2, <2>3
<1>8. first + (L + 1 - end) = L + 1 - (end - first)
  BY <1>1
<1> HIDE DEF L
<1>9. QED
  BY <1>5, <1>6, <1>7, <1>8, Zenon DEF L, IsReplaced

LEMMA ReplacedIsSorted ==
  ASSUME NEW spans, Sorted(spans), NEW u \in Spans,
         NEW first \in 1..Len(spans) + 1, NEW end \in first..Len(spans) + 1,
         \A n \in 1..Len(spans) : n < first => spans[n][2] < u[1],
         \A n \in 1..Len(spans) : n >= end => u[2] < spans[n][1]
  PROVE  LET r == Replaced(spans, first, u, end) IN
         /\ Sorted(r)
         /\ first \in DOMAIN r
         /\ \A n \in DOMAIN r : n < first => n \in DOMAIN spans /\ r[n] = spans[n]
         /\ Covered(r) = Over(spans, 1..first - 1) \cup DcUnits(u)
                           \cup Over(spans, end..Len(spans))
<1> DEFINE r == Replaced(spans, first, u, end)
           L == Len(spans)
           d == end - first
<1>1. spans \in Seq(Spans) /\ L \in Nat /\ DOMAIN spans = 1..L
  BY SortedTypes DEF Sorted
<1>2. /\ r \in Seq(Spans) /\ Len(r) = L + 1 - d
      /\ \A i \in 1..L + 1 - d : r[i] = IF i < first THEN spans[i]
                                        ELSE IF i = first THEN u ELSE spans[i - 1 + d]
  <2> HIDE DEF r
  <2>1. r = Replaced(spans, first, u, end)
    BY DEF r
  <2>2. IsReplaced(r, spans, first, u, end)
    BY <1>1, <2>1, ReplacedElements
  <2>3. QED
    BY <2>2 DEF IsReplaced
<1>3. /\ first \in Nat /\ end \in Nat /\ d \in Nat /\ 1 <= first /\ end <= L + 1 /\ end = first + d
      /\ DOMAIN r = 1..L + 1 - d
  BY <1>1, <1>2
<1> HIDE DEF r, d
<1>4. u[1] \in Nat /\ u[2] \in Nat /\ u[1] <= u[2]
  BY SpanTypes
<1>5. \A i \in 1..L : spans[i][1] \in Nat /\ spans[i][2] \in Nat /\ spans[i][1] <= spans[i][2]
  BY <1>1, SortedTypes
<1>6. \A i, j \in 1..L : i < j => spans[i][2] < spans[j][1]
  BY <1>1 DEF Sorted
<1>7. ASSUME NEW i \in DOMAIN r, NEW j \in DOMAIN r, i < j
      PROVE  r[i][2] < r[j][1]
  <2>1. i \in Nat /\ j \in Nat /\ 1 <= i /\ j <= L + 1 - d
    BY <1>3
  <2>2. CASE j < first
    <3>1. i \in 1..L /\ j \in 1..L /\ i < first
      BY <1>1, <1>3, <1>7, <2>1, <2>2
    <3>2. r[i] = spans[i] /\ r[j] = spans[j]
      BY <1>2, <1>7, <2>2, <3>1
    <3>3. QED
      BY <1>6, <1>7, <3>1, <3>2
  <2>3. CASE j = first
    BY <1>2, <1>3, <1>7, <2>1, <2>3
  <2>4. CASE j > first
    <3>1. j - 1 + d \in 1..L /\ j - 1 + d >= end /\ r[j] = spans[j - 1 + d]
      BY <1>2, <1>3, <2>1, <2>4
    <3>2. CASE i < first
      <4>1. i \in 1..L /\ i < j - 1 + d /\ r[i] = spans[i]
        BY <1>2, <1>3, <2>1, <2>4, <3>2
      <4>2. QED
        BY <1>6, <3>1, <4>1
    <3>3. CASE i = first
      BY <1>2, <1>3, <2>1, <3>1, <3>3
    <3>4. CASE i > first
      <4>1. i - 1 + d \in 1..L /\ i - 1 + d < j - 1 + d /\ r[i] = spans[i - 1 + d]
        BY <1>2, <1>3, <1>7, <2>1, <3>4
      <4>2. QED
        BY <1>6, <3>1, <4>1
    <3>5. QED
      BY <1>3, <2>1, <3>2, <3>3, <3>4
  <2>5. QED
    BY <1>3, <2>1, <2>2, <2>3, <2>4
<1>8. Sorted(r)
  BY <1>2, <1>7 DEF Sorted
<1>9. /\ first \in DOMAIN r
      /\ \A n \in DOMAIN r : n < first => n \in DOMAIN spans /\ r[n] = spans[n]
  BY <1>1, <1>2, <1>3
<1> DEFINE kept == Over(spans, 1..first - 1) \cup DcUnits(u) \cup Over(spans, end..L)
<1>10. ASSUME NEW n \in DOMAIN r PROVE DcUnits(r[n]) \subseteq kept
  <2>1. CASE n < first
    BY <1>2, <1>3, <2>1 DEF Over
  <2>2. CASE n = first
    BY <1>2, <1>3, <2>2
  <2>3. CASE n > first
    <3>1. n - 1 + d \in end..L /\ r[n] = spans[n - 1 + d]
      BY <1>2, <1>3, <2>3
    <3>2. QED
      BY <3>1 DEF Over
  <2>4. QED
    BY <1>3, <2>1, <2>2, <2>3
<1>11. \A n \in 1..first - 1 : n \in DOMAIN r /\ r[n] = spans[n]
  BY <1>2, <1>3
<1>12. \A n \in end..L : n + 1 - d \in DOMAIN r /\ r[n + 1 - d] = spans[n]
  <2>1. SUFFICES ASSUME NEW n \in end..L
                 PROVE  n + 1 - d \in DOMAIN r /\ r[n + 1 - d] = spans[n]
    OBVIOUS
  <2>2. n + 1 - d > first /\ n + 1 - d \in 1..L + 1 - d /\ (n + 1 - d) - 1 + d = n
    BY <1>1, <1>3
  <2>3. QED
    BY <1>2, <1>3, <2>2
<1>13. r[first] = u
  BY <1>2, <1>3
<1>14. Covered(r) = kept
  <2>1. Covered(r) \subseteq kept
    BY <1>10 DEF Covered, Over
  <2>2. \A n \in DOMAIN r : DcUnits(r[n]) \subseteq Covered(r)
    BY DEF Covered, Over
  <2> HIDE DEF Covered
  <2>3. DcUnits(u) \subseteq Covered(r)
    BY <1>9, <1>13, <2>2
  <2>4. Over(spans, 1..first - 1) \subseteq Covered(r)
    BY <1>11, <2>2 DEF Over
  <2>5. Over(spans, end..L) \subseteq Covered(r)
    BY <1>12, <2>2 DEF Over
  <2>6. QED
    BY <2>1, <2>3, <2>4, <2>5
<1>15. QED
  BY <1>8, <1>9, <1>14 DEF r

(* MergeOrInsert with a hint that no span before it reaches the new one:   *)
(* the spans stay sorted, cover the new time, and the place it went to is  *)
(* a hint for what comes later.                                            *)
Hinted(spans, t, hint) ==
  hint \in 1..Len(spans) + 1 /\ \A n \in 1..Len(spans) : n < hint => spans[n][2] < t[1]

Merged(m, spans, t) ==
  /\ Sorted(m.spans)
  /\ Covered(m.spans) = Covered(spans) \cup DcUnits(t)
  /\ m.at \in DOMAIN m.spans
  /\ \A n \in DOMAIN m.spans : n < m.at => m.spans[n][2] < t[1]

LEMMA ReplacedIsMerged ==
  ASSUME NEW spans, Sorted(spans), NEW t \in Spans, NEW u \in Spans,
         NEW first \in 1..Len(spans) + 1, NEW end \in first..Len(spans) + 1,
         \A n \in 1..Len(spans) : n < first => spans[n][2] < u[1] /\ spans[n][2] < t[1],
         \A n \in 1..Len(spans) : n >= end => u[2] < spans[n][1],
         DcUnits(u) = DcUnits(t) \cup Over(spans, first..end - 1)
  PROVE  Merged([spans |-> Replaced(spans, first, u, end), at |-> first], spans, t)
<1> DEFINE r == Replaced(spans, first, u, end)
           L == Len(spans)
<1>1. L \in Nat /\ DOMAIN spans = 1..L /\ first \in Nat /\ end \in Nat
  BY SortedTypes
<1>2. /\ Sorted(r) /\ first \in DOMAIN r
      /\ \A n \in DOMAIN r : n < first => n \in DOMAIN spans /\ r[n] = spans[n]
      /\ Covered(r) = Over(spans, 1..first - 1) \cup DcUnits(u) \cup Over(spans, end..L)
  BY ReplacedIsSorted
<1> HIDE DEF r
<1>3. 1..L = (1..first - 1) \cup (first..end - 1) \cup (end..L)
  BY <1>1
<1>4. Covered(spans) = Over(spans, 1..first - 1) \cup Over(spans, first..end - 1)
                         \cup Over(spans, end..L)
  BY <1>1, <1>3, Zenon DEF Covered, Over
<1>5. Covered(r) = Covered(spans) \cup DcUnits(t)
  BY <1>2, <1>4
<1>6. \A n \in DOMAIN r : n < first => r[n][2] < t[1]
  BY <1>1, <1>2
<1>7. QED
  BY <1>2, <1>5, <1>6 DEF Merged, r

LEMMA MergeKeeps ==
  ASSUME NEW spans, Sorted(spans), NEW t \in Spans, NEW hint, Hinted(spans, t, hint)
  PROVE  Merged(DcMerge(spans, t, hint), spans, t)
<1> DEFINE L == Len(spans)
           Reaching == {n \in hint..L : spans[n][2] >= t[1]} \cup {L + 1}
           first == Min(Reaching)
           Beyond == {n \in first..L : spans[n][1] > t[2]} \cup {L + 1}
           end == Min(Beyond)
           low == Min({t[1], spans[first][1]})
           high == Max({t[2], spans[end - 1][2]})
           within == first <= L /\ spans[first][1] <= t[1] /\ t[2] <= spans[first][2]
           Around(s) == SubSeq(spans, 1, first - 1) \o <<s>> \o SubSeq(spans, end, L)
<1>1. L \in Nat /\ DOMAIN spans = 1..L /\ hint \in 1..L + 1
  BY SortedTypes DEF Hinted
<1>2. /\ t[1] \in Nat /\ t[2] \in Nat /\ t[1] <= t[2]
      /\ \A n \in 1..L : /\ spans[n] \in Spans /\ spans[n][1] \in Nat /\ spans[n][2] \in Nat
                         /\ spans[n][1] <= spans[n][2]
  BY <1>1, SortedTypes, SpanTypes
<1>3. \A i, j \in 1..L : i < j => spans[i][2] < spans[j][1]
  BY <1>1 DEF Sorted
<1>4. first \in Reaching /\ \A n \in Reaching : first <= n
  <2>1. Reaching \subseteq Nat /\ Reaching # {}
    BY <1>1
  <2> HIDE DEF Reaching
  <2>2. QED
    BY <2>1, MinIsLeast
<1>5. first \in 1..L + 1 /\ \A n \in 1..L : n < first => spans[n][2] < t[1]
  <2> HIDE DEF first
  <2>1. first \in 1..L + 1
    BY <1>1, <1>4
  <2>2. ASSUME NEW n \in 1..L, n < first PROVE spans[n][2] < t[1]
    <3>1. CASE n < hint
      BY <3>1 DEF Hinted
    <3>2. CASE n >= hint
      <4>1. n \notin Reaching
        BY <1>4, <2>1, <2>2
      <4>2. QED
        BY <1>1, <1>2, <3>2, <4>1
    <3>3. QED
      BY <1>1, <3>1, <3>2
  <2>3. QED
    BY <2>1, <2>2
<1>6. first <= L => spans[first][2] >= t[1]
  <2> HIDE DEF first
  <2>1. QED
    BY <1>1, <1>4, <1>5
<1>7. end \in Beyond /\ \A n \in Beyond : end <= n
  <2>1. Beyond \subseteq Nat /\ Beyond # {}
    <3> HIDE DEF first
    <3>1. QED
      BY <1>1, <1>5
  <2> HIDE DEF Beyond
  <2>2. QED
    BY <2>1, MinIsLeast
<1> HIDE DEF first
<1>8. /\ end \in first..L + 1
      /\ \A n \in 1..L : n >= end => t[2] < spans[n][1]
      /\ \A n \in first..end - 1 : n \in 1..L /\ spans[n][1] <= t[2]
  <2> HIDE DEF end
  <2>1. end \in first..L + 1
    BY <1>1, <1>5, <1>7
  <2>2. ASSUME NEW n \in 1..L, n >= end PROVE t[2] < spans[n][1]
    <3>1. end \in 1..L /\ t[2] < spans[end][1]
      BY <1>1, <1>5, <1>7, <2>1, <2>2
    <3>2. n = end \/ spans[end][2] < spans[n][1]
      BY <1>3, <2>2, <3>1
    <3>3. QED
      BY <1>2, <3>1, <3>2
  <2>3. ASSUME NEW n \in first..end - 1 PROVE n \in 1..L /\ spans[n][1] <= t[2]
    <3>1. n \in first..L /\ n \in 1..L /\ n < end
      BY <1>1, <1>5, <2>1
    <3>2. n \notin Beyond
      BY <1>7, <2>1, <3>1
    <3>3. QED
      BY <1>2, <3>1, <3>2
  <2>4. QED
    BY <2>1, <2>2, <2>3
<1> HIDE DEF end
<1>9. DcMerge(spans, t, hint) =
        IF within THEN [spans |-> spans, at |-> first]
        ELSE IF first = end THEN [spans |-> Around(t), at |-> first]
        ELSE [spans |-> Around(<<low, high>>), at |-> first]
  BY DEF DcMerge, DcFrom, first, end
<1>10. CASE within
  <2>1. first \in 1..L
    BY <1>1, <1>5, <1>10
  <2>2. DcUnits(t) \subseteq DcUnits(spans[first])
    BY <1>2, <1>10, <2>1 DEF DcUnits
  <2>3. Covered(spans) = Covered(spans) \cup DcUnits(t)
    BY <1>1, <2>1, <2>2 DEF Covered, Over
  <2>4. DcMerge(spans, t, hint) = [spans |-> spans, at |-> first]
    BY <1>9, <1>10
  <2>5. QED
    BY <1>1, <1>5, <2>1, <2>3, <2>4 DEF Merged
<1>11. CASE ~within /\ first = end
  <2>1. Over(spans, first..end - 1) = {}
    BY <1>1, <1>5, <1>11 DEF Over
  <2>2. Merged([spans |-> Replaced(spans, first, t, end), at |-> first], spans, t)
    BY <1>5, <1>8, <2>1, ReplacedIsMerged
  <2>3. QED
    BY <1>9, <1>11, <2>2 DEF Replaced
<1>12. CASE ~within /\ first # end
  <2> DEFINE u == <<low, high>>
             a == spans[first]
             b == spans[end - 1]
  <2>1. /\ first \in Nat /\ end \in Nat /\ first < end /\ end - 1 \in Nat
        /\ first \in first..end - 1 /\ end - 1 \in first..end - 1
        /\ first \in 1..L /\ end - 1 \in 1..L
    BY <1>1, <1>5, <1>8, <1>12
  <2>2. /\ a[1] \in Nat /\ a[2] \in Nat /\ a[1] <= a[2] /\ a[2] >= t[1]
        /\ b[1] \in Nat /\ b[2] \in Nat /\ b[1] <= b[2] /\ b[1] <= t[2]
        /\ a \in Spans /\ b \in Spans
    BY <1>2, <1>6, <1>8, <2>1
  <2>3. /\ low = IF t[1] <= a[1] THEN t[1] ELSE a[1]
        /\ high = IF t[2] <= b[2] THEN b[2] ELSE t[2]
    BY <1>2, <2>2, MinMaxOfTwo
  <2>4. u \in Spans
    BY <1>2, <2>2, <2>3 DEF Spans
  <2>5. u[1] = low /\ u[2] = high
    OBVIOUS
  <2> HIDE DEF low, high, u
  <2>6. \A n \in 1..L : n < first => spans[n][2] < u[1] /\ spans[n][2] < t[1]
    BY <1>2, <1>3, <1>5, <2>1, <2>3, <2>5
  <2>7. \A n \in 1..L : n >= end => u[2] < spans[n][1]
    <3>1. \A n \in 1..L : n >= end => b[2] < spans[n][1]
      BY <1>3, <2>1
    <3>2. QED
      BY <1>8, <2>3, <2>5, <3>1
  <2>8. \A n \in first..end - 1 : a[1] <= spans[n][1] /\ spans[n][2] <= b[2]
    <3>1. SUFFICES ASSUME NEW n \in first..end - 1
                   PROVE  a[1] <= spans[n][1] /\ spans[n][2] <= b[2]
      OBVIOUS
    <3>2. n \in 1..L /\ (n = first \/ first < n) /\ (n = end - 1 \/ n < end - 1)
      BY <1>8, <2>1
    <3>3. (n = first \/ a[2] < spans[n][1]) /\ (n = end - 1 \/ spans[n][2] < b[1])
      BY <1>3, <2>1, <3>2
    <3>4. spans[n][1] \in Nat /\ spans[n][2] \in Nat
      BY <1>2, <3>2
    <3>5. QED
      BY <2>2, <3>3, <3>4
  <2>9. DcUnits(u) \subseteq DcUnits(t) \cup Over(spans, first..end - 1)
    <3>1. SUFFICES ASSUME NEW x \in DcUnits(u), x \notin DcUnits(t)
                   PROVE  x \in DcUnits(a) \cup DcUnits(b)
      BY <2>1 DEF Over
    <3>2. x \in Nat /\ low <= x /\ x < high
      BY <1>2, <2>2, <2>3, <2>5 DEF DcUnits
    <3>3. x < t[1] \/ x >= t[2]
      BY <1>2, <3>1, <3>2 DEF DcUnits
    <3>4. QED
      BY <1>2, <2>2, <2>3, <3>2, <3>3 DEF DcUnits
  <2>10. DcUnits(t) \subseteq DcUnits(u)
    BY <1>2, <2>2, <2>3, <2>5 DEF DcUnits
  <2>11. Over(spans, first..end - 1) \subseteq DcUnits(u)
    <3>1. SUFFICES ASSUME NEW n \in first..end - 1, NEW x \in DcUnits(spans[n])
                   PROVE  x \in DcUnits(u)
      BY DEF Over
    <3>2. spans[n][1] \in Nat /\ spans[n][2] \in Nat
      BY <1>2, <1>8
    <3>3. x \in Nat /\ spans[n][1] <= x /\ x < spans[n][2]
      BY <3>1, <3>2 DEF DcUnits
    <3>4. a[1] <= spans[n][1] /\ spans[n][2] <= b[2]
      BY <2>8
    <3>5. low \in Nat /\ high \in Nat /\ low <= a[1] /\ b[2] <= high
      BY <1>2, <2>2, <2>3
    <3> HIDE DEF a, b
    <3>6. low <= x /\ x < high
      BY <2>2, <3>2, <3>3, <3>4, <3>5
    <3>7. QED
      BY <2>5, <3>3, <3>5, <3>6 DEF DcUnits
  <2>12. DcUnits(u) = DcUnits(t) \cup Over(spans, first..end - 1)
    BY <2>9, <2>10, <2>11
  <2>13. Merged([spans |-> Replaced(spans, first, u, end), at |-> first], spans, t)
    BY <1>5, <1>8, <2>4, <2>6, <2>7, <2>12, ReplacedIsMerged
  <2>14. QED
    BY <1>9, <1>12, <2>13 DEF Replaced, u
<1>13. QED
  BY <1>10, <1>11, <1>12

LEMMA HintIsHint ==
  ASSUME NEW spans, Sorted(spans), NEW t \in Spans
  PROVE  Hinted(spans, t, DcHint(spans, t))
<1> DEFINE L == Len(spans)
           NotBefore(s) == s[1] > t[1] \/ (s[1] = t[1] /\ s[2] <= t[2])
           T == {n \in 1..L : NotBefore(spans[n])} \cup {L + 1}
           i == Min(T)
<1>1. L \in Nat /\ DOMAIN spans = 1..L
  BY SortedTypes
<1>2. /\ t[1] \in Nat /\ t[2] \in Nat /\ t[1] <= t[2]
      /\ \A n \in 1..L : spans[n][1] \in Nat /\ spans[n][2] \in Nat /\ spans[n][1] <= spans[n][2]
  BY <1>1, SortedTypes, SpanTypes
<1>3. \A m, n \in 1..L : m < n => spans[m][2] < spans[n][1]
  BY <1>1 DEF Sorted
<1>4. i \in T /\ \A n \in T : i <= n
  <2>1. T \subseteq Nat /\ T # {}
    BY <1>1
  <2> HIDE DEF T
  <2>2. QED
    BY <2>1, MinIsLeast
<1>5. DcHint(spans, t) = IF i > 1 THEN i - 1 ELSE i
  BY DEF DcHint, DcFrom
<1> HIDE DEF i
<1>6. i \in 1..L + 1
  BY <1>1, <1>4
<1>7. CASE i > 1
  <2>1. i - 1 \in 1..L /\ i - 1 < i
    BY <1>1, <1>6, <1>7
  <2>2. i - 1 \notin T
    BY <1>4, <1>6, <2>1
  <2>3. spans[i - 1][1] <= t[1]
    BY <1>2, <2>1, <2>2
  <2>4. \A n \in 1..L : n < i - 1 => spans[n][2] < t[1]
    BY <1>2, <1>3, <2>1, <2>3
  <2>5. i - 1 \in 1..L + 1
    BY <1>1, <2>1
  <2>6. QED
    BY <1>5, <1>7, <2>4, <2>5 DEF Hinted
<1>8. CASE i = 1
  BY <1>1, <1>5, <1>6, <1>8 DEF Hinted
<1>9. QED
  BY <1>1, <1>6, <1>7, <1>8

(* The union of two sorted sequences, span by span.                        *)
Adds(spans, others, n, f) ==
  f = [i \in 0..n |->
         IF i = 0 THEN [spans |-> spans, at |-> DcHint(spans, others[1])]
         ELSE DcMerge(f[i - 1].spans, others[i], f[i - 1].at)]

LEMMA AddsExists ==
  ASSUME NEW spans, NEW others, NEW n \in Nat
  PROVE  \E f : Adds(spans, others, n, f)
<1> DEFINE T == {k \in Nat : ~ \E f : Adds(spans, others, k, f)}
           base == [spans |-> spans, at |-> DcHint(spans, others[1])]
<1>1. SUFFICES ASSUME T # {} PROVE FALSE
  OBVIOUS
<1>2. PICK m \in T : \A k \in T : m <= k
  <2>1. T \subseteq Nat
    OBVIOUS
  <2> HIDE DEF T
  <2>2. QED
    BY <1>1, <2>1, LeastNumber
<1>3. m \in Nat /\ ~ \E f : Adds(spans, others, m, f)
  BY <1>2
<1>4. CASE m = 0
  <2> DEFINE g == [i \in 0..0 |-> base]
  <2>1. 0..0 = {0}
    OBVIOUS
  <2>2. Adds(spans, others, 0, g)
    <3> HIDE DEF base
    <3>1. \A i \in 0..0 : i = 0
      OBVIOUS
    <3>2. QED
      BY <3>1, Zenon DEF Adds, base
  <2>3. QED
    BY <1>3, <1>4, <2>2, Zenon
<1>5. CASE m # 0
  <2>1. m - 1 \in Nat /\ m - 1 \notin T
    BY <1>2, <1>3, <1>5
  <2>2. PICK f : Adds(spans, others, m - 1, f)
    BY <2>1
  <2> DEFINE Value(h, i) == IF i = 0 THEN base ELSE DcMerge(h[i - 1].spans, others[i], h[i - 1].at)
             g == [i \in 0..m |-> IF i = m THEN Value(f, m) ELSE f[i]]
  <2>3. f = [i \in 0..m - 1 |-> Value(f, i)]
    BY <2>2, Zenon DEF Adds
  <2> HIDE DEF Value
  <2>4. \A i \in 0..m - 1 : g[i] = f[i] /\ f[i] = Value(f, i)
    BY <1>3, <2>1, <2>3
  <2>5. \A i \in 0..m : g[i] = Value(f, i)
    <3>1. g[m] = Value(f, m)
      BY <1>3
    <3>2. \A i \in 0..m : i = m \/ i \in 0..m - 1
      BY <1>3
    <3> HIDE DEF g
    <3>3. QED
      BY <2>4, <3>1, <3>2, Zenon
  <2>6. \A i \in 0..m : Value(f, i) = Value(g, i)
    <3>1. SUFFICES ASSUME NEW i \in 0..m PROVE Value(f, i) = Value(g, i)
      OBVIOUS
    <3>2. CASE i = 0
      BY <3>2 DEF Value
    <3>3. CASE i # 0
      <4>1. i - 1 \in 0..m - 1
        BY <1>3, <3>3
      <4>2. g[i - 1] = f[i - 1]
        BY <2>4, <4>1
      <4> HIDE DEF g
      <4>3. QED
        BY <3>3, <4>2, Zenon DEF Value
    <3>4. QED
      BY <3>2, <3>3
  <2>7. g = [i \in 0..m |-> Value(g, i)]
    <3>1. \A i \in 0..m : g[i] = Value(g, i)
      BY <2>5, <2>6
    <3>2. g = [i \in 0..m |-> g[i]]
      OBVIOUS
    <3> HIDE DEF g
    <3>3. QED
      BY <3>1, <3>2, Zenon
  <2>8. Adds(spans, others, m, g)
    <3> HIDE DEF g
    <3>1. QED
      BY <2>7, Zenon DEF Adds, Value
  <2>9. QED
    BY <1>3, <2>8, Zenon
<1>6. QED
  BY <1>4, <1>5

LEMMA UniteKeeps ==
  ASSUME NEW spans, Sorted(spans), NEW others, Sorted(others)
  PROVE  /\ Sorted(DcUnite(spans, others))
         /\ Covered(DcUnite(spans, others)) = Covered(spans) \cup Covered(others)
<1> DEFINE N == Len(others)
<1>1. /\ N \in Nat /\ DOMAIN others = 1..N
      /\ \A i \in 1..N : /\ others[i] \in Spans
                         /\ others[i][1] \in Nat /\ others[i][2] \in Nat
                         /\ others[i][1] <= others[i][2]
  BY SortedTypes
<1>2. CASE others = <<>>
  <2>1. Covered(others) = {}
    BY <1>2 DEF Covered, Over
  <2>2. DcUnite(spans, others) = spans
    BY <1>2 DEF DcUnite
  <2>3. QED
    BY <2>1, <2>2
<1>3. CASE others # <<>>
  <2>1. N > 0
    BY <1>1, <1>3 DEF Sorted
  <2> DEFINE f == CHOOSE g : Adds(spans, others, N, g)
  <2>2. Adds(spans, others, N, f)
    <3> HIDE DEF N
    <3>1. QED
      BY <1>1, AddsExists, Zenon
  <2>3. DcUnite(spans, others) = f[N].spans
    BY <1>3 DEF DcUnite, Adds
  <2> HIDE DEF f
  <2>4. f[0] = [spans |-> spans, at |-> DcHint(spans, others[1])]
    BY <1>1, <2>2 DEF Adds
  <2>5. \A i \in 1..N : f[i] = DcMerge(f[i - 1].spans, others[i], f[i - 1].at)
    <3>1. \A i \in 0..N : f[i] = IF i = 0 THEN [spans |-> spans, at |-> DcHint(spans, others[1])]
                                 ELSE DcMerge(f[i - 1].spans, others[i], f[i - 1].at)
      BY <2>2, Zenon DEF Adds
    <3>2. QED
      BY <1>1, <3>1
  <2> DEFINE Good(i) ==
               /\ Sorted(f[i].spans)
               /\ Covered(f[i].spans) = Covered(spans) \cup Over(others, 1..i)
               /\ i < N => Hinted(f[i].spans, others[i + 1], f[i].at)
             Bad == {i \in 0..N : ~Good(i)}
  <2>6. Good(0)
    <3>1. Over(others, 1..0) = {}
      BY DEF Over
    <3>2. others[0 + 1] \in Spans
      BY <1>1, <2>1
    <3>3. QED
      BY <2>4, <3>1, <3>2, HintIsHint
  <2>7. ASSUME NEW i \in 0..N, i # 0, Good(i - 1)
        PROVE  Good(i)
    <3> DEFINE m == f[i]
               before == f[i - 1].spans
    <3>1. /\ i \in 1..N /\ i - 1 \in Nat /\ i - 1 < N /\ (i - 1) + 1 = i /\ i \in Nat
          /\ others[i] \in Spans
      BY <1>1, <2>7
    <3>2. Hinted(before, others[i], f[i - 1].at) /\ Sorted(before)
      BY <2>7, <3>1
    <3>3. Merged(m, before, others[i])
      BY <2>5, <3>1, <3>2, MergeKeeps
    <3>4. Covered(m.spans) = Covered(spans) \cup Over(others, 1..i - 1) \cup DcUnits(others[i])
      BY <2>7, <3>3 DEF Merged
    <3>5. 1..i = (1..i - 1) \cup {i}
      BY <3>1
    <3>6. Over(others, 1..i) = Over(others, 1..i - 1) \cup DcUnits(others[i])
      BY <3>5, Zenon DEF Over
    <3>7. ASSUME i < N PROVE Hinted(m.spans, others[i + 1], m.at)
      <4>1. i + 1 \in 1..N /\ i < i + 1
        BY <1>1, <3>1, <3>7
      <4>2. others[i][2] < others[i + 1][1]
        BY <1>1, <3>1, <4>1 DEF Sorted
      <4>3. others[i][1] < others[i + 1][1]
        BY <1>1, <3>1, <4>1, <4>2
      <4>4. /\ Sorted(m.spans) /\ m.at \in DOMAIN m.spans
            /\ \A n \in DOMAIN m.spans : n < m.at => m.spans[n][2] < others[i][1]
        BY <3>3 DEF Merged
      <4> HIDE DEF m
      <4>5. /\ DOMAIN m.spans = 1..Len(m.spans) /\ Len(m.spans) \in Nat
            /\ \A n \in DOMAIN m.spans : m.spans[n][2] \in Nat
        BY <4>4, SortedTypes
      <4>6. m.at \in 1..Len(m.spans) + 1
        BY <4>4, <4>5
      <4>7. others[i][1] \in Nat /\ others[i + 1][1] \in Nat
        BY <1>1, <3>1, <4>1
      <4>8. \A n \in 1..Len(m.spans) : n < m.at => m.spans[n][2] < others[i + 1][1]
        <5>1. SUFFICES ASSUME NEW n \in 1..Len(m.spans), n < m.at
                       PROVE  m.spans[n][2] < others[i + 1][1]
          OBVIOUS
        <5>2. m.spans[n][2] < others[i][1] /\ m.spans[n][2] \in Nat
          BY <4>4, <4>5, <5>1
        <5>3. QED
          BY <4>3, <4>7, <5>2
      <4>9. QED
        BY <4>6, <4>8 DEF Hinted
    <3>8. QED
      BY <3>3, <3>4, <3>6, <3>7 DEF Merged
  <2>8. Bad = {}
    <3>1. SUFFICES ASSUME Bad # {} PROVE FALSE
      OBVIOUS
    <3>2. Bad \subseteq Nat
      OBVIOUS
    <3> HIDE DEF Good
    <3>3. PICK i \in Bad : \A k \in Bad : i <= k
      BY <3>1, <3>2, LeastNumber
    <3>4. i \in 0..N /\ i # 0
      BY <2>6, <3>3
    <3>5. i - 1 \in 0..N /\ i - 1 \notin Bad
      BY <1>1, <3>3, <3>4
    <3>6. QED
      BY <2>7, <3>3, <3>4, <3>5
  <2>9. Good(N)
    <3> HIDE DEF Good
    <3>1. QED
      BY <1>1, <2>8
  <2>10. QED
    BY <1>1, <2>3, <2>9 DEF Covered
<1>4. QED
  BY <1>2, <1>3

(* A tracker keeps the time its ops were active, within its total.         *)
Trackers == [spans : Seq(Spans), total : Spans]

Tracks(tracker, units) ==
  /\ tracker \in Trackers
  /\ Sorted(tracker.spans)
  /\ Covered(tracker.spans) = units
  /\ units \subseteq DcUnits(tracker.total)

DcInv ==
  /\ dcCores \in [DcCores -> Trackers]
  /\ dcActive \in [DcCores -> SUBSET (0..DcEnd - 1)]
  /\ dcUnited \subseteq DcCores
  /\ \A c \in DcCores : Tracks(dcCores[c], dcActive[c])
  /\ Tracks(dcChip, UNION {dcActive[c] : c \in dcUnited})

LEMMA ExpandCovers ==
  ASSUME NEW s \in Spans, NEW t \in Spans
  PROVE  /\ DcExpand(s, t) \in Spans
         /\ DcUnits(s) \subseteq DcUnits(DcExpand(s, t))
         /\ DcUnits(t) \subseteq DcUnits(DcExpand(s, t))
<1>1. /\ s[1] \in Nat /\ s[2] \in Nat /\ s[1] <= s[2]
      /\ t[1] \in Nat /\ t[2] \in Nat /\ t[1] <= t[2]
  BY SpanTypes
<1>2. CASE s[1] = s[2]
  <2>1. DcExpand(s, t) = t
    BY <1>2 DEF DcExpand
  <2>2. DcUnits(s) = {}
    BY <1>1, <1>2 DEF DcUnits
  <2>3. QED
    BY <2>1, <2>2
<1>3. CASE s[1] # s[2]
  <2> DEFINE low == Min({s[1], t[1]})
             high == Max({s[2], t[2]})
  <2>1. DcExpand(s, t) = <<low, high>>
    BY <1>3 DEF DcExpand
  <2>2. /\ low = IF s[1] <= t[1] THEN s[1] ELSE t[1]
        /\ high = IF s[2] <= t[2] THEN t[2] ELSE s[2]
    BY <1>1, MinMaxOfTwo
  <2> HIDE DEF low, high
  <2>3. <<low, high>> \in Spans
    BY <1>1, <2>2 DEF Spans
  <2>4. DcUnits(s) \subseteq DcUnits(<<low, high>>) /\ DcUnits(t) \subseteq DcUnits(<<low, high>>)
    BY <1>1, <2>2 DEF DcUnits
  <2>5. QED
    BY <2>1, <2>3, <2>4
<1>4. QED
  BY <1>2, <1>3

LEMMA EmptyTracks ==
  Tracks(DcEmpty, {})
<1>1. <<>> \in Seq(Spans) /\ <<0, 0>> \in Spans
  BY SpanTypes DEF DcTime
<1>2. Sorted(<<>>) /\ Covered(<<>>) = {}
  BY <1>1 DEF Sorted, Covered, Over
<1>3. QED
  BY <1>1, <1>2 DEF Tracks, Trackers, DcEmpty

LEMMA DcInitInv == DcInit => DcInv
<1> SUFFICES ASSUME DcInit PROVE DcInv
  OBVIOUS
<1>1. DcEmpty \in Trackers
  BY EmptyTracks DEF Tracks
<1>2. /\ dcCores \in [DcCores -> Trackers] /\ \A c \in DcCores : dcCores[c] = DcEmpty
      /\ dcActive \in [DcCores -> SUBSET (0..DcEnd - 1)] /\ \A c \in DcCores : dcActive[c] = {}
      /\ dcUnited \subseteq DcCores /\ UNION {dcActive[c] : c \in dcUnited} = {}
      /\ dcChip = DcEmpty
  BY <1>1 DEF DcInit
<1>3. QED
  BY <1>2, EmptyTracks DEF DcInv

LEMMA DcNextInv == DcInv /\ [DcNext]_dcVars => DcInv'
<1> SUFFICES ASSUME DcInv, [DcNext]_dcVars PROVE DcInv'
  OBVIOUS
<1>1. ASSUME NEW c \in DcCores, NEW t \in DcSpans, NEW active \in BOOLEAN,
             DcAddInterval(c, t, active)
      PROVE  DcInv'
  <2> DEFINE old == dcCores[c]
             merged == DcMerge(old.spans, t, DcHint(old.spans, t))
             spans == IF active THEN merged.spans ELSE old.spans
             new == [spans |-> spans, total |-> DcExpand(old.total, t)]
             units == IF active THEN dcActive[c] \cup DcUnits(t) ELSE dcActive[c]
  <2>1. t \in Spans /\ DcUnits(t) \subseteq 0..DcEnd - 1
    <3>1. t \in Spans
      BY DcAssumption DEF Spans, DcTime
    <3>2. QED
      BY <3>1, SpanTypes DEF DcUnits
  <2>2. /\ Tracks(old, dcActive[c]) /\ dcActive[c] \subseteq 0..DcEnd - 1
        /\ dcCores \in [DcCores -> Trackers]
        /\ dcActive \in [DcCores -> SUBSET (0..DcEnd - 1)]
    BY DEF DcInv
  <2>3. /\ dcUnited = {} /\ dcUnited' = dcUnited /\ dcChip' = dcChip
        /\ dcCores' = [dcCores EXCEPT ![c] = new]
        /\ dcActive' = [dcActive EXCEPT ![c] = units]
    BY <1>1, <2>2 DEF DcAddInterval
  <2>4. Sorted(old.spans) /\ Covered(old.spans) = dcActive[c] /\ old.total \in Spans
        /\ dcActive[c] \subseteq DcUnits(old.total)
    BY <2>2 DEF Tracks, Trackers
  <2>5. Merged(merged, old.spans, t)
    <3>1. Hinted(old.spans, t, DcHint(old.spans, t))
      BY <2>1, <2>4, HintIsHint
    <3>2. QED
      BY <2>1, <2>4, <3>1, MergeKeeps
  <2> HIDE DEF merged, old
  <2>6. Sorted(spans) /\ Covered(spans) = units
    BY <2>4, <2>5 DEF Merged
  <2>7. DcExpand(old.total, t) \in Spans /\ units \subseteq DcUnits(DcExpand(old.total, t))
    BY <2>1, <2>4, ExpandCovers
  <2> HIDE DEF spans, units
  <2>8. Tracks(new, units) /\ new \in Trackers
    BY <2>6, <2>7 DEF Tracks, Trackers, Sorted
  <2>9. units \in SUBSET (0..DcEnd - 1)
    BY <2>1, <2>2 DEF units
  <2> HIDE DEF new
  <2>10. /\ dcCores' \in [DcCores -> Trackers]
         /\ dcActive' \in [DcCores -> SUBSET (0..DcEnd - 1)]
         /\ \A d \in DcCores : Tracks(dcCores[d], dcActive[d])'
    BY <2>2, <2>3, <2>8, <2>9 DEF DcInv
  <2>11. Tracks(dcChip, UNION {dcActive[d] : d \in dcUnited})'
    BY <2>3 DEF DcInv
  <2>12. QED
    BY <2>3, <2>10, <2>11 DEF DcInv
<1>2. ASSUME NEW c \in DcCores, DcCombineCore(c)
      PROVE  DcInv'
  <2> DEFINE before == UNION {dcActive[d] : d \in dcUnited}
             core == dcCores[c]
             spans == DcUnite(dcChip.spans, core.spans)
             total == DcExpand(dcChip.total, core.total)
  <2>1. /\ dcChip' = [spans |-> spans, total |-> total]
        /\ dcUnited' = dcUnited \cup {c} /\ dcCores' = dcCores /\ dcActive' = dcActive
    BY <1>2 DEF DcCombineCore
  <2>2. Tracks(dcChip, before) /\ Tracks(core, dcActive[c])
    BY DEF DcInv
  <2>3. Sorted(spans) /\ Covered(spans) = before \cup dcActive[c]
    BY <2>2, UniteKeeps DEF Tracks
  <2>4. total \in Spans /\ before \cup dcActive[c] \subseteq DcUnits(total)
    <3>1. dcChip.total \in Spans /\ core.total \in Spans
      BY <2>2 DEF Tracks, Trackers
    <3>2. QED
      BY <2>2, <3>1, ExpandCovers DEF Tracks
  <2> HIDE DEF spans, total, core
  <2>5. Tracks(dcChip', before \cup dcActive[c])
    BY <2>1, <2>3, <2>4 DEF Tracks, Trackers, Sorted
  <2>6. UNION {dcActive'[d] : d \in dcUnited'} = before \cup dcActive[c]
    BY <2>1
  <2>7. QED
    BY <2>1, <2>5, <2>6 DEF DcInv
<1>3. CASE UNCHANGED dcVars
  BY <1>3 DEF dcVars, DcInv
<1>4. QED
  BY <1>1, <1>2, <1>3 DEF DcNext

THEOREM DutySafety == DcSpec => []DcInv
<1>1. QED
  BY DcInitInv, DcNextInv, PTL DEF DcSpec

(* What a tracker says of its time. *)
LEMMA TrackerMeasures ==
  ASSUME NEW tracker, NEW units, Tracks(tracker, units)
  PROVE  /\ DcActiveTime(tracker) = Cardinality(units)
         /\ DcActiveTime(tracker) <= tracker.total[2] - tracker.total[1]
<1>1. tracker = [spans |-> tracker.spans, total |-> tracker.total]
  BY DEF Tracks, Trackers
<1>2. DcActiveTime(tracker) = Cardinality(units)
  <2>1. DcActiveTime([spans |-> tracker.spans, total |-> tracker.total])
          = Cardinality(Covered(tracker.spans))
    BY ActiveTimeIsMeasure DEF Tracks
  <2>2. QED
    BY <1>1, <2>1 DEF Tracks
<1> DEFINE a == tracker.total[1]
           b == tracker.total[2]
<1>3. a \in Nat /\ b \in Nat /\ a <= b /\ DcUnits(tracker.total) = a..b - 1
  BY SpanTypes DEF Tracks, Trackers, DcUnits
<1> HIDE DEF a, b
<1>4. IsFiniteSet(a..b - 1) /\ Cardinality(a..b - 1) = b - a
  BY <1>3, FS_Interval
<1>5. Cardinality(units) <= b - a
  BY <1>3, <1>4, FS_Subset DEF Tracks
<1>6. QED
  BY <1>2, <1>5 DEF a, b

(* For any spans, in any order, and any order of combining the cores: the  *)
(* active time of a core or chip is the measure of the union of its spans, *)
(* and at most its total time.                                             *)
THEOREM ActiveIsMeasured == DcSpec => []DcActiveIsMeasured
<1>1. DcInv => DcActiveIsMeasured
  BY TrackerMeasures DEF DcInv, DcActiveIsMeasured
<1>2. QED
  BY <1>1, DutySafety, PTL

-----------------------------------------------------------------------------
(* StepIntersection.                                                       *)
Steps == Seq(Nat \X Nat)

(* The loop over two sequences of steps, as an equation for its value at   *)
(* any pair of places.                                                     *)
Places(sub, chief) == (1..Len(sub) + 1) \X (1..Len(chief) + 1)

WalkFrom(sub, chief, walk, p) ==
  LET i == p[1] j == p[2] IN
  IF i > Len(sub) \/ j > Len(chief) THEN {}
  ELSE IF SiSpan(sub[i]) = 0 THEN walk[<<i + 1, j>>]
  ELSE IF SiSpan(chief[j]) = 0 THEN walk[<<i, j + 1>>]
  ELSE {p} \cup walk[<<IF sub[i][2] <= chief[j][2] THEN i + 1 ELSE i,
                       IF chief[j][2] <= sub[i][2] THEN j + 1 ELSE j>>]

Walks(sub, chief, walk) ==
  walk = [p \in Places(sub, chief) |-> WalkFrom(sub, chief, walk, p)]

LEMMA ComparedIsWalk ==
  ASSUME NEW sub, NEW chief
  PROVE  SiCompared(sub, chief) = (CHOOSE w : Walks(sub, chief, w))[<<1, 1>>]
BY DEF Walks, SiCompared, WalkFrom, Places

(* How far a place is from the end of both sequences.                      *)
Rank(sub, chief, p) == (Len(sub) + 1 - p[1]) + (Len(chief) + 1 - p[2])
Pairs(sub, chief) == (1..Len(sub)) \X (1..Len(chief))

LEMMA StepTypes ==
  ASSUME NEW s \in Steps
  PROVE  /\ Len(s) \in Nat /\ DOMAIN s = 1..Len(s)
         /\ \A i \in 1..Len(s) : s[i] \in Nat \X Nat
<1>1. s \in Seq(Nat \X Nat)
  BY DEF Steps
<1>2. Len(s) \in Nat /\ DOMAIN s = 1..Len(s)
  BY <1>1
<1>3. \A i \in DOMAIN s : s[i] \in Nat \X Nat
  <2> DEFINE S == Nat \X Nat
  <2>1. s \in Seq(S)
    BY <1>1
  <2> HIDE DEF S
  <2>2. \A i \in DOMAIN s : s[i] \in S
    BY <2>1
  <2>3. QED
    BY <2>2 DEF S
<1>4. QED
  BY <1>2, <1>3

(* The loop goes on to one place nearer to the end, or ends. *)
GoesTo(sub, chief, p, q) ==
  /\ q \in Places(sub, chief)
  /\ Rank(sub, chief, q) < Rank(sub, chief, p)
  /\ \/ \A w : WalkFrom(sub, chief, w, p) = w[q]
     \/ p \in Pairs(sub, chief) /\ \A w : WalkFrom(sub, chief, w, p) = {p} \cup w[q]

LEMMA WalkGoesOn ==
  ASSUME NEW sub \in Steps, NEW chief \in Steps, NEW p \in Places(sub, chief)
  PROVE  \/ \A w : WalkFrom(sub, chief, w, p) = {}
         \/ \E q : GoesTo(sub, chief, p, q)
<1> DEFINE i == p[1]
           j == p[2]
           n == Len(sub)
           m == Len(chief)
<1>1. /\ n \in Nat /\ m \in Nat /\ p = <<i, j>>
      /\ i \in Nat /\ j \in Nat /\ 1 <= i /\ 1 <= j /\ i <= n + 1 /\ j <= m + 1
  BY StepTypes DEF Places
<1>2. ASSUME NEW a \in {i, i + 1}, NEW b \in {j, j + 1}, a + b > i + j, i <= n, j <= m
      PROVE  <<a, b>> \in Places(sub, chief) /\ Rank(sub, chief, <<a, b>>) < Rank(sub, chief, p)
  <2>1. a \in 1..n + 1 /\ b \in 1..m + 1
    BY <1>1, <1>2
  <2>2. QED
    BY <1>1, <1>2, <2>1 DEF Places, Rank
<1>3. CASE i > n \/ j > m
  BY <1>3, Zenon DEF WalkFrom
<1>4. CASE i <= n /\ j <= m
  <2>1. ~ (i > n \/ j > m)
    BY <1>1, <1>4
  <2>2. sub[i] \in Nat \X Nat /\ chief[j] \in Nat \X Nat /\ p \in Pairs(sub, chief)
    BY <1>1, <1>4, StepTypes DEF Pairs
  <2>3. CASE SiSpan(sub[i]) = 0
    <3>1. \A w : WalkFrom(sub, chief, w, p) = w[<<i + 1, j>>]
      BY <2>1, <2>3, Zenon DEF WalkFrom
    <3>2. GoesTo(sub, chief, p, <<i + 1, j>>)
      BY <1>1, <1>2, <1>4, <3>1 DEF GoesTo
    <3>3. QED
      BY <3>2
  <2>4. CASE SiSpan(sub[i]) # 0 /\ SiSpan(chief[j]) = 0
    <3>1. \A w : WalkFrom(sub, chief, w, p) = w[<<i, j + 1>>]
      BY <2>1, <2>4, Zenon DEF WalkFrom
    <3>2. GoesTo(sub, chief, p, <<i, j + 1>>)
      <4>1. /\ <<i, j + 1>> \in Places(sub, chief)
            /\ Rank(sub, chief, <<i, j + 1>>) < Rank(sub, chief, p)
        BY <1>1, <1>2, <1>4
      <4>2. QED
        BY <3>1, <4>1, Zenon DEF GoesTo
    <3>3. QED
      BY <3>2
  <2>5. CASE SiSpan(sub[i]) # 0 /\ SiSpan(chief[j]) # 0
    <3> DEFINE a == IF sub[i][2] <= chief[j][2] THEN i + 1 ELSE i
               b == IF chief[j][2] <= sub[i][2] THEN j + 1 ELSE j
    <3>1. \A w : WalkFrom(sub, chief, w, p) = {p} \cup w[<<a, b>>]
      BY <2>1, <2>5, Zenon DEF WalkFrom
    <3>2. a \in {i, i + 1} /\ b \in {j, j + 1} /\ a + b > i + j
      BY <1>1, <2>2
    <3> HIDE DEF a, b
    <3>3. GoesTo(sub, chief, p, <<a, b>>)
      BY <1>2, <1>4, <2>2, <3>1, <3>2 DEF GoesTo
    <3>4. QED
      BY <3>3
  <2>6. QED
    BY <2>3, <2>4, <2>5
<1>5. QED
  BY <1>1, <1>3, <1>4

LEMMA RankIsNat ==
  ASSUME NEW sub \in Steps, NEW chief \in Steps
  PROVE  \A p \in Places(sub, chief) :
           /\ Rank(sub, chief, p) \in Nat
           /\ Rank(sub, chief, p) <= Len(sub) + Len(chief)
<1>1. Len(sub) \in Nat /\ Len(chief) \in Nat
  BY StepTypes
<1>2. QED
  BY <1>1 DEF Places, Rank

(* Every walk compares steps that exist, ... *)
LEMMA WalkStaysInside ==
  ASSUME NEW sub \in Steps, NEW chief \in Steps, NEW w, Walks(sub, chief, w),
         NEW p \in Places(sub, chief)
  PROVE  w[p] \subseteq Pairs(sub, chief)
<1> DEFINE P == Places(sub, chief)
           R(q) == Rank(sub, chief, q)
           Out == {q \in P : ~ (w[q] \subseteq Pairs(sub, chief))}
           Ranks == {R(q) : q \in Out}
<1>1. SUFFICES ASSUME Out # {} PROVE FALSE
  BY <1>1
<1>2. PICK r \in Ranks : \A s \in Ranks : r <= s
  <2>1. Ranks \subseteq Nat /\ Ranks # {}
    BY <1>1, RankIsNat
  <2>2. QED
    BY <2>1, LeastNumber
<1>3. PICK q \in Out : r = R(q)
  OBVIOUS
<1>4. w[q] = WalkFrom(sub, chief, w, q)
  BY Zenon DEF Walks
<1>5. ~ (w[q] \subseteq Pairs(sub, chief)) /\ q \in P
  BY <1>3
<1>6. PICK t : GoesTo(sub, chief, q, t)
  <2>1. ~ (\A v : WalkFrom(sub, chief, v, q) = {})
    BY <1>4, <1>5
  <2>2. QED
    BY <1>5, <2>1, WalkGoesOn
<1>7. t \in P /\ R(t) < R(q) /\ R(t) \in Nat /\ R(q) \in Nat
  BY <1>3, <1>6, RankIsNat DEF GoesTo
<1>8. w[t] \subseteq Pairs(sub, chief)
  <2>1. t \notin Out
    BY <1>2, <1>3, <1>7
  <2>2. QED
    BY <1>7, <2>1
<1>9. w[q] = w[t] \/ (q \in Pairs(sub, chief) /\ w[q] = {q} \cup w[t])
  BY <1>4, <1>6, Zenon DEF GoesTo
<1>10. QED
  BY <1>5, <1>8, <1>9

(* ... and there is one. *)
WalksUpTo(sub, chief, n, w) ==
  /\ w = [p \in Places(sub, chief) |-> w[p]]
  /\ \A p \in Places(sub, chief) :
       Rank(sub, chief, p) <= n => w[p] = WalkFrom(sub, chief, w, p)

LEMMA WalkLonger ==
  ASSUME NEW sub \in Steps, NEW chief \in Steps, NEW n \in Nat, NEW w,
         n = 0 \/ WalksUpTo(sub, chief, n - 1, w)
  PROVE  \E v : WalksUpTo(sub, chief, n, v)
<1> DEFINE P == Places(sub, chief)
           R(p) == Rank(sub, chief, p)
           v == [p \in P |-> IF R(p) < n THEN w[p] ELSE WalkFrom(sub, chief, w, p)]
<1>1. \A p \in P : R(p) \in Nat
  BY RankIsNat
<1>2. ASSUME NEW p \in P, R(p) <= n
      PROVE  v[p] = WalkFrom(sub, chief, w, p)
  <2>1. CASE R(p) < n
    <3>1. n # 0 /\ R(p) <= n - 1
      BY <1>1, <2>1
    <3>2. w[p] = WalkFrom(sub, chief, w, p)
      BY <3>1 DEF WalksUpTo
    <3>3. QED
      BY <2>1, <3>2
  <2>2. CASE ~ (R(p) < n)
    BY <2>2
  <2>3. QED
    BY <2>1, <2>2
<1>3. ASSUME NEW p \in P, R(p) <= n
      PROVE  WalkFrom(sub, chief, w, p) = WalkFrom(sub, chief, v, p)
  <2>1. CASE \A u : WalkFrom(sub, chief, u, p) = {}
    BY <2>1
  <2>2. ASSUME NEW q, GoesTo(sub, chief, p, q)
        PROVE  WalkFrom(sub, chief, w, p) = WalkFrom(sub, chief, v, p)
    <3>1. q \in P /\ R(q) < n
      BY <1>1, <1>3, <2>2 DEF GoesTo
    <3>2. v[q] = w[q]
      BY <3>1
    <3> HIDE DEF v
    <3>3. QED
      BY <2>2, <3>2, Zenon DEF GoesTo
  <2>3. QED
    BY <2>1, <2>2, WalkGoesOn
<1>4. v = [p \in P |-> v[p]]
  OBVIOUS
<1> HIDE DEF v
<1>5. WalksUpTo(sub, chief, n, v)
  BY <1>2, <1>3, <1>4 DEF WalksUpTo
<1>6. QED
  BY <1>5

LEMMA WalkExists ==
  ASSUME NEW sub \in Steps, NEW chief \in Steps
  PROVE  \E w : Walks(sub, chief, w)
<1> DEFINE T == {n \in Nat : ~ \E w : WalksUpTo(sub, chief, n, w)}
           last == Len(sub) + Len(chief)
<1>1. T = {}
  <2>1. SUFFICES ASSUME T # {} PROVE FALSE
    BY <2>1
  <2>2. PICK m \in T : \A n \in T : m <= n
    <3>1. T \subseteq Nat /\ T # {}
      BY <2>1
    <3> HIDE DEF T
    <3>2. QED
      BY <3>1, LeastNumber
  <2>3. m \in Nat /\ (m = 0 \/ (m - 1 \in Nat /\ m - 1 \notin T))
    BY <2>2
  <2>4. m = 0 \/ \E w : WalksUpTo(sub, chief, m - 1, w)
    BY <2>3
  <2>5. \E v : WalksUpTo(sub, chief, m, v)
    BY <2>3, <2>4, WalkLonger
  <2>6. QED
    BY <2>2, <2>5
<1>2. last \in Nat
  BY StepTypes
<1>3. PICK w : WalksUpTo(sub, chief, last, w)
  BY <1>1, <1>2
<1>4. \A p \in Places(sub, chief) : w[p] = WalkFrom(sub, chief, w, p)
  BY <1>3, RankIsNat DEF WalksUpTo
<1>5. w = [p \in Places(sub, chief) |-> w[p]]
  BY <1>3 DEF WalksUpTo
<1>6. Walks(sub, chief, w)
  BY <1>4, <1>5, Zenon DEF Walks
<1>7. QED
  BY <1>6

LEMMA ComparedInside ==
  ASSUME NEW sub \in Steps, NEW chief \in Steps
  PROVE  SiCompared(sub, chief) \subseteq Pairs(sub, chief)
<1> DEFINE w == CHOOSE v : Walks(sub, chief, v)
<1>1. Walks(sub, chief, w)
  BY WalkExists, Zenon
<1>2. <<1, 1>> \in Places(sub, chief)
  <2>1. Len(sub) \in Nat /\ Len(chief) \in Nat
    BY StepTypes
  <2>2. QED
    BY <2>1 DEF Places
<1> HIDE DEF w
<1>3. w[<<1, 1>>] \subseteq Pairs(sub, chief)
  BY <1>1, <1>2, WalkStaysInside
<1>4. QED
  BY <1>3, ComparedIsWalk DEF w

(* Of finitely many offsets one is best. *)
LEMMA BestExists ==
  ASSUME NEW D, IsFiniteSet(D), D # {}, NEW value, NEW turn,
         \A k \in D : value[k] \in Nat /\ turn[k] \in Int
  PROVE  \E k \in D : \A q \in D : \/ value[q] < value[k]
                                   \/ value[q] = value[k] /\ turn[k] <= turn[q]
<1> DEFINE Better(q, k) == value[q] > value[k] \/ (value[q] = value[k] /\ turn[q] < turn[k])
           Above(k) == {q \in D : Better(q, k)}
           Sizes == {Cardinality(Above(k)) : k \in D}
<1>1. \A k \in D : IsFiniteSet(Above(k)) /\ Cardinality(Above(k)) \in Nat
  BY FS_Subset, FS_CardinalityType
<1>2. PICK n \in Sizes : \A m \in Sizes : n <= m
  <2>1. Sizes \subseteq Nat /\ Sizes # {}
    BY <1>1
  <2> HIDE DEF Sizes
  <2>2. QED
    BY <2>1, LeastNumber
<1>3. PICK k \in D : n = Cardinality(Above(k))
  OBVIOUS
<1>4. ASSUME NEW q \in D, Better(q, k) PROVE FALSE
  <2>1. Above(q) \subseteq Above(k) /\ q \in Above(k) /\ q \notin Above(q)
    BY <1>4
  <2>2. Cardinality(Above(q)) < Cardinality(Above(k))
    <3> HIDE DEF Above
    <3>1. /\ Cardinality(Above(q)) <= Cardinality(Above(k))
          /\ Cardinality(Above(k)) = Cardinality(Above(q)) => Above(k) = Above(q)
      BY <1>1, <2>1, FS_Subset
    <3>2. QED
      BY <1>1, <2>1, <3>1
  <2>3. Cardinality(Above(q)) \in Sizes
    OBVIOUS
  <2> HIDE DEF Above, Sizes
  <2>4. n <= Cardinality(Above(q))
    BY <1>2, <2>3
  <2>5. QED
    BY <1>1, <1>3, <2>2, <2>4
<1>5. QED
  BY <1>4

LEMMA SimilarityIsNat ==
  ASSUME NEW sub \in Steps, NEW chief \in Steps,
         NEW k \in 1 - Len(sub)..Len(chief) - 1
  PROVE  SiSimilarity(sub, chief)[k] \in Nat
<1> DEFINE S == {p \in SiCompared(sub, chief) : p[2] - p[1] = k}
           w == [p \in S |-> SiOverlap(sub[p[1]], chief[p[2]])]
           Sum(f) == f = [s \in SUBSET S |->
                       IF s = {} THEN 0
                       ELSE SiOverlap(sub[(CHOOSE x \in s : TRUE)[1]], chief[(CHOOSE x \in s : TRUE)[2]])
                            + f[s \ {CHOOSE x \in s : TRUE}]]
<1>1. S \subseteq Pairs(sub, chief)
  BY ComparedInside
<1>2. IsFiniteSet(S)
  <2>1. Len(sub) \in Int /\ Len(chief) \in Int
    BY StepTypes
  <2>2. IsFiniteSet(1..Len(sub)) /\ IsFiniteSet(1..Len(chief))
    BY <2>1, FS_Interval
  <2>3. IsFiniteSet(Pairs(sub, chief))
    BY <2>2, FS_Product DEF Pairs
  <2> HIDE DEF S
  <2>4. QED
    BY <1>1, <2>3, FS_Subset
<1>3. \A x \in S : w[x] \in Nat
  <2>1. SUFFICES ASSUME NEW x \in S PROVE SiOverlap(sub[x[1]], chief[x[2]]) \in Nat
    OBVIOUS
  <2> DEFINE s == sub[x[1]]
             t == chief[x[2]]
  <2>2. s[1] \in Nat /\ s[2] \in Nat /\ t[1] \in Nat /\ t[2] \in Nat
    <3>1. x[1] \in 1..Len(sub) /\ x[2] \in 1..Len(chief)
      BY <1>1 DEF Pairs
    <3>2. s \in Nat \X Nat /\ t \in Nat \X Nat
      BY <3>1, StepTypes
    <3>3. QED
      BY <3>2
  <2> HIDE DEF s, t
  <2>3. Max({s[1], t[1]}) \in Nat /\ Min({s[2], t[2]}) \in Nat
    BY <2>2, MinMaxOfTwo
  <2>4. SiOverlap(s, t) \in Nat
    BY <2>3 DEF SiOverlap
  <2>5. QED
    BY <2>4 DEF s, t
<1>4. \A f : Sum(f) <=> Summed(S, w, f)
  <2>1. ASSUME NEW s \in SUBSET S, s # {}
        PROVE  w[CHOOSE x \in s : TRUE]
                 = SiOverlap(sub[(CHOOSE x \in s : TRUE)[1]], chief[(CHOOSE x \in s : TRUE)[2]])
    <3> DEFINE y == CHOOSE x \in s : TRUE
    <3>1. y \in S
      BY <2>1
    <3> HIDE DEF y, S
    <3>2. w[y] = SiOverlap(sub[y[1]], chief[y[2]])
      BY <3>1
    <3>3. QED
      BY <3>2 DEF y
  <2> HIDE DEF S, w
  <2> DEFINE Here(f, s) == IF s = {} THEN 0
                           ELSE SiOverlap(sub[(CHOOSE x \in s : TRUE)[1]],
                                          chief[(CHOOSE x \in s : TRUE)[2]])
                                + f[s \ {CHOOSE x \in s : TRUE}]
             There(f, s) == IF s = {} THEN 0
                            ELSE w[CHOOSE x \in s : TRUE] + f[s \ {CHOOSE x \in s : TRUE}]
  <2>2. ASSUME NEW f, NEW s \in SUBSET S
        PROVE  Here(f, s) = There(f, s)
    <3>1. CASE s = {}
      BY <3>1, Zenon
    <3>2. CASE s # {}
      <4>1. w[CHOOSE x \in s : TRUE]
              = SiOverlap(sub[(CHOOSE x \in s : TRUE)[1]], chief[(CHOOSE x \in s : TRUE)[2]])
        BY <2>1, <3>2
      <4>2. QED
        BY <3>2, <4>1, Zenon
    <3>3. QED
      BY <3>1, <3>2
  <2>3. \A f : Sum(f) <=> f = [s \in SUBSET S |-> Here(f, s)]
    BY Zenon
  <2>4. \A f : Summed(S, w, f) <=> f = [s \in SUBSET S |-> There(f, s)]
    BY Zenon DEF Summed
  <2> HIDE DEF Here, There, Sum
  <2>5. \A f : [s \in SUBSET S |-> Here(f, s)] = [s \in SUBSET S |-> There(f, s)]
    BY <2>2, Zenon
  <2>6. QED
    BY <2>3, <2>4, <2>5, Zenon
<1>5. SiSimilarity(sub, chief)[k] = (CHOOSE f : Sum(f))[S]
  BY DEF SiSimilarity, MapThenSumSet, MapThenFoldSet
<1> HIDE DEF S, w, Sum
<1>6. (CHOOSE f : Sum(f)) = (CHOOSE f : Summed(S, w, f))
  BY <1>4, Zenon
<1>7. (CHOOSE f : Summed(S, w, f))[S] \in Nat
  BY <1>2, <1>3, SumIsNat
<1>8. QED
  BY <1>5, <1>6, <1>7

LEMMA BestOffsetExists ==
  ASSUME NEW sub \in Steps, NEW chief \in Steps, sub # <<>>, chief # <<>>
  PROVE  SiBestOffset(sub, chief) \in 1 - Len(sub)..Len(chief) - 1
<1> DEFINE value == SiSimilarity(sub, chief)
           D == 1 - Len(sub)..Len(chief) - 1
           Turn(k) == IF k >= 0 THEN k ELSE Len(chief) - k
           turn == [k \in D |-> Turn(k)]
<1>1. Len(sub) \in Nat /\ Len(chief) \in Nat /\ Len(sub) >= 1 /\ Len(chief) >= 1
  <2>1. Len(sub) \in Nat /\ Len(chief) \in Nat
    BY StepTypes
  <2>2. Len(sub) # 0 /\ Len(chief) # 0
    BY DEF Steps
  <2>3. QED
    BY <2>1, <2>2
<1>2. IsFiniteSet(D) /\ D # {} /\ DOMAIN value = D
  <2>1. 1 - Len(sub) \in Int /\ Len(chief) - 1 \in Int /\ 0 \in D
    BY <1>1
  <2>2. DOMAIN value = D
    BY DEF SiSimilarity
  <2>3. QED
    BY <2>1, <2>2, FS_Interval
<1>3. \A k \in D : value[k] \in Nat /\ turn[k] \in Int
  <2>1. \A k \in D : value[k] \in Nat
    BY SimilarityIsNat
  <2>2. \A k \in D : turn[k] \in Int
    BY <1>1
  <2>3. QED
    BY <2>1, <2>2
<1>4. SiBestOffset(sub, chief) = CHOOSE k \in DOMAIN value : \A q \in DOMAIN value :
                                    \/ value[q] < value[k]
                                    \/ value[q] = value[k] /\ Turn(k) <= Turn(q)
  BY DEF SiBestOffset
<1>5. \A k \in D : turn[k] = Turn(k)
  OBVIOUS
<1> HIDE DEF value, D, Turn, turn
<1>6. \E k \in D : \A q \in D : \/ value[q] < value[k]
                                \/ value[q] = value[k] /\ turn[k] <= turn[q]
  BY <1>2, <1>3, BestExists
<1>7. \E k \in D : \A q \in D : \/ value[q] < value[k]
                                \/ value[q] = value[k] /\ Turn(k) <= Turn(q)
  BY <1>5, <1>6
<1>8. SiBestOffset(sub, chief) \in D
  BY <1>2, <1>4, <1>7, Zenon
<1>9. QED
  BY <1>8 DEF D

LEMMA MaxIsGreatest ==
  ASSUME NEW T, T \subseteq Nat, T # {}, NEW b \in Nat, \A n \in T : n <= b
  PROVE  Max(T) \in T /\ \A n \in T : n <= Max(T)
<1> DEFINE U == {b - n : n \in T}
<1>1. PICK m \in U : \A n \in U : m <= n
  <2>1. \A n \in T : b - n \in Nat
    OBVIOUS
  <2>2. U \subseteq Nat /\ U # {}
    BY <2>1
  <2> HIDE DEF U
  <2>3. QED
    BY <2>2, LeastNumber
<1>2. PICK k \in T : m = b - k
  OBVIOUS
<1>3. \A n \in T : n <= k
  <2>1. SUFFICES ASSUME NEW n \in T PROVE n <= k
    OBVIOUS
  <2>2. m <= b - n
    BY <1>1
  <2>3. QED
    BY <1>2, <2>2
<1>4. QED
  BY <1>2, <1>3 DEF Max

(* An alignment stays within the steps of its host and those of the chief. *)
Alignments == [sub : Nat, chief : Nat, num : Nat]
Lined(sub, chief, a) ==
  /\ a \in Alignments
  /\ a.sub + a.num <= Len(sub)
  /\ a.chief <= Len(chief)

LEMMA AlignmentLines ==
  ASSUME NEW sub \in Steps, NEW chief \in Steps, chief # <<>>
  PROVE  Lined(sub, chief, SiAlignment(sub, chief))
<1>1. Len(sub) \in Nat /\ Len(chief) \in Nat
  BY StepTypes
<1>2. CASE sub = <<>>
  <2>1. SiAlignment(sub, chief) = [sub |-> 0, chief |-> 0, num |-> 0]
    BY <1>2, Zenon DEF SiAlignment
  <2>2. QED
    BY <1>1, <2>1 DEF Lined, Alignments
<1>3. CASE sub # <<>>
  <2> DEFINE k == SiBestOffset(sub, chief)
             n == Len(sub)
             m == Len(chief)
             bySub == IF k >= 0 THEN 0 ELSE -k
             byChief == IF k >= 0 THEN k ELSE 0
             num == Min({n - bySub, m - byChief})
  <2>1. k \in 1 - n..m - 1
    BY <1>3, BestOffsetExists
  <2>2. SiAlignment(sub, chief) = [sub |-> bySub, chief |-> byChief, num |-> num]
    BY <1>3, Zenon DEF SiAlignment
  <2> HIDE DEF k, n, m
  <2>3. n \in Nat /\ m \in Nat /\ k \in Int /\ 1 - n <= k /\ k <= m - 1
    BY <1>1, <2>1 DEF n, m
  <2>4. /\ bySub \in Nat /\ byChief \in Nat /\ n - bySub \in Nat /\ m - byChief \in Nat
    BY <2>3
  <2> HIDE DEF bySub, byChief
  <2>5. num \in Nat /\ num <= n - bySub
    BY <2>4, MinMaxOfTwo
  <2> HIDE DEF num
  <2>6. bySub + num <= n /\ byChief <= m
    BY <2>3, <2>4, <2>5
  <2> DEFINE a == [sub |-> bySub, chief |-> byChief, num |-> num]
  <2>7. a \in Alignments /\ a.sub + a.num <= n /\ a.chief <= m
    BY <2>4, <2>5, <2>6 DEF Alignments
  <2>8. QED
    BY <2>2, <2>7 DEF Lined, n, m
<1>4. QED
  BY <1>2, <1>3

SiRanges == [begin : Nat, end : Nat, dropped : Nat, empty : BOOLEAN]

SiInv ==
  /\ siInput \in SiInputs \cup {<<>>}
  /\ siInput = <<>> => siChief = {} /\ siAlign = <<>> /\ siRange = <<>>
  /\ siInput # <<>> => siChief \subseteq SiHosts
  /\ siAlign # <<>> =>
       /\ siAlign \in [SiHosts -> Alignments]
       /\ \E c \in SiHosts : \A h \in SiHosts : Lined(SiSteps[h], SiSteps[c], siAlign[h])
  /\ siRange # <<>> => siRange \in SiRanges
  /\ SiStepsExist

LEMMA SiInitInv == SiInit => SiInv
BY DEF SiInit, SiInv, SiStepsExist

LEMMA SiInputSteps ==
  ASSUME SiInv, siInput # <<>>
  PROVE  \A h \in SiHosts : SiSteps[h] \in Steps
BY SiAssumption DEF SiInv, SiHosts, SiSteps, Steps

(* ComputeFinalBounds: what is left after the last begin and before the    *)
(* first end, and not more than asked for.                                 *)
LEMMA BoundInside ==
  ASSUME SiInv, SiBound
  PROVE  siRange' \in SiRanges /\ SiStepsExist'
<1> DEFINE begins == {siAlign[h].chief : h \in SiHosts}
           ends == {siAlign[h].chief + siAlign[h].num : h \in SiHosts}
           begin == Max(begins)
           end == Min(ends)
           kept == Min({end - begin, SiMaxSteps})
<1>1. /\ siAlign # <<>> /\ siInput # <<>> /\ siInput' = siInput /\ siAlign' = siAlign
      /\ siRange' = IF begin > end THEN [begin |-> 0, end |-> 0, dropped |-> 0, empty |-> TRUE]
                    ELSE [begin |-> begin, end |-> begin + kept,
                          dropped |-> end - begin - kept, empty |-> FALSE]
  BY DEF SiBound, SiInv
<1>2. PICK c \in SiHosts : \A h \in SiHosts : Lined(SiSteps[h], SiSteps[c], siAlign[h])
  BY <1>1 DEF SiInv
<1>3. /\ \A h \in SiHosts : Len(SiSteps[h]) \in Nat
      /\ SiSteps' = SiSteps /\ SiHosts' = SiHosts
  BY <1>1, SiInputSteps, StepTypes DEF SiSteps, SiHosts
<1>4. \A h \in SiHosts : /\ siAlign[h].sub \in Nat /\ siAlign[h].chief \in Nat
                         /\ siAlign[h].num \in Nat
                         /\ siAlign[h].sub + siAlign[h].num <= Len(SiSteps[h])
                         /\ siAlign[h].chief <= Len(SiSteps[c])
  BY <1>2 DEF Lined, Alignments
<1>5. begin \in Nat /\ \A h \in SiHosts : siAlign[h].chief <= begin
  <2>1. begins \subseteq Nat /\ begins # {} /\ \A n \in begins : n <= Len(SiSteps[c])
    BY <1>4
  <2>2. \A h \in SiHosts : siAlign[h].chief \in begins
    OBVIOUS
  <2> HIDE DEF begins
  <2>3. Max(begins) \in begins /\ \A n \in begins : n <= Max(begins)
    BY <1>3, <2>1, MaxIsGreatest
  <2>4. QED
    BY <2>1, <2>2, <2>3
<1>6. end \in Nat /\ \A h \in SiHosts : end <= siAlign[h].chief + siAlign[h].num
  <2>1. ends \subseteq Nat /\ ends # {}
    BY <1>4
  <2>2. \A h \in SiHosts : siAlign[h].chief + siAlign[h].num \in ends
    OBVIOUS
  <2> HIDE DEF ends
  <2>3. QED
    BY <2>1, <2>2, MinIsLeast
<1> HIDE DEF begin, end
<1>7. CASE begin > end
  <2>1. siRange' = [begin |-> 0, end |-> 0, dropped |-> 0, empty |-> TRUE]
    BY <1>1, <1>7
  <2>2. QED
    BY <2>1, SiAssumption DEF SiRanges, SiStepsExist, SiNumSteps
<1>8. CASE ~ (begin > end)
  <2>1. siRange' = [begin |-> begin, end |-> begin + kept,
                    dropped |-> end - begin - kept, empty |-> FALSE]
    BY <1>1, <1>8
  <2>2. end - begin \in Nat /\ SiMaxSteps \in Nat
    BY <1>5, <1>6, <1>8, SiAssumption
  <2>3. kept \in Nat /\ kept <= end - begin /\ kept <= SiMaxSteps
    BY <2>2, MinMaxOfTwo
  <2> HIDE DEF kept
  <2>4. siRange' \in SiRanges
    BY <1>5, <1>6, <2>1, <2>2, <2>3 DEF SiRanges
  <2>5. SiNumSteps' = kept
    BY <1>5, <2>1, <2>3 DEF SiNumSteps
  <2>6. \A h \in SiHosts : SiFirst(h)' = siAlign[h].sub + begin - siAlign[h].chief
    BY <1>1, <2>1 DEF SiFirst
  <2>7. ASSUME NEW h \in SiHosts
        PROVE  SiFirst(h)' >= 0 /\ SiFirst(h)' + kept <= Len(SiSteps[h])
    <3> DEFINE bySub == siAlign[h].sub
               byChief == siAlign[h].chief
               num == siAlign[h].num
               length == Len(SiSteps[h])
               first == SiFirst(h)'
    <3>1. /\ bySub \in Nat /\ byChief \in Nat /\ num \in Nat /\ length \in Nat
          /\ begin \in Nat /\ end \in Nat
          /\ bySub + num <= length /\ byChief <= begin /\ end <= byChief + num
          /\ first = bySub + begin - byChief
      BY <1>3, <1>4, <1>5, <1>6, <2>6
    <3> HIDE DEF bySub, byChief, num, length, first
    <3>2. first >= 0 /\ first + kept <= length
      BY <2>3, <3>1
    <3>3. QED
      BY <3>2 DEF length, first
  <2>8. SiStepsExist'
    BY <1>3, <2>2, <2>3, <2>5, <2>7 DEF SiStepsExist
  <2>9. QED
    BY <2>4, <2>8
<1>9. QED
  BY <1>7, <1>8

LEMMA SiNextInv == SiInv /\ [SiNext]_siVars => SiInv'
<1> SUFFICES ASSUME SiInv, [SiNext]_siVars PROVE SiInv'
  OBVIOUS
<1>1. CASE SiRead
  BY <1>1 DEF SiRead, SiInv, SiStepsExist
<1>2. CASE SiFindChief
  <2>1. /\ siInput # <<>> /\ siInput' = siInput /\ siAlign' = siAlign /\ siRange' = siRange
        /\ siChief' \subseteq SiHosts
    BY <1>2 DEF SiFindChief
  <2>2. /\ SiSteps' = SiSteps /\ SiHosts' = SiHosts /\ SiNumSteps' = SiNumSteps
        /\ \A h : SiFirst(h)' = SiFirst(h)
    BY <2>1 DEF SiSteps, SiHosts, SiNumSteps, SiFirst
  <2>3. SiStepsExist'
    BY <2>1, <2>2 DEF SiInv, SiStepsExist
  <2>4. QED
    BY <2>1, <2>2, <2>3 DEF SiInv
<1>3. CASE SiAlignHosts
  <2>1. PICK c \in siChief :
          IF SiSteps[c] = <<>>
          THEN /\ siRange' = [begin |-> 0, end |-> 0, dropped |-> 0, empty |-> FALSE]
               /\ UNCHANGED siAlign
          ELSE /\ siAlign' = [h \in SiHosts |->
                    IF h = c THEN [sub |-> 0, chief |-> 0, num |-> Len(SiSteps[c])]
                             ELSE SiAlignment(SiSteps[h], SiSteps[c])]
               /\ UNCHANGED siRange
    BY <1>3 DEF SiAlignHosts
  <2>2. /\ siAlign = <<>> /\ siRange = <<>> /\ siInput' = siInput /\ siChief' = siChief
        /\ siInput # <<>> /\ c \in SiHosts
    BY <1>3, <2>1 DEF SiAlignHosts, SiInv
  <2>3. SiSteps' = SiSteps /\ SiHosts' = SiHosts
    BY <2>2 DEF SiSteps, SiHosts
  <2>4. CASE SiSteps[c] = <<>>
    <3>1. siRange' = [begin |-> 0, end |-> 0, dropped |-> 0, empty |-> FALSE] /\ siAlign' = <<>>
      BY <2>1, <2>2, <2>4
    <3>2. siRange' \in SiRanges
      BY <3>1 DEF SiRanges
    <3>3. SiNumSteps' = 0 /\ \A h : SiFirst(h)' = 0
      BY <3>1 DEF SiNumSteps, SiFirst
    <3>4. SiStepsExist'
      BY <3>1, <3>3, SiAssumption DEF SiStepsExist
    <3>5. QED
      BY <2>2, <2>3, <3>1, <3>2, <3>4 DEF SiInv
  <2>5. CASE SiSteps[c] # <<>>
    <3> DEFINE align == [h \in SiHosts |->
                 IF h = c THEN [sub |-> 0, chief |-> 0, num |-> Len(SiSteps[c])]
                          ELSE SiAlignment(SiSteps[h], SiSteps[c])]
    <3>1. siAlign' = align /\ siRange' = <<>>
      BY <2>1, <2>2, <2>5
    <3>2. ASSUME NEW h \in SiHosts
          PROVE  Lined(SiSteps[h], SiSteps[c], align[h])
      <4>1. SiSteps[h] \in Steps /\ SiSteps[c] \in Steps
        BY <2>2, SiInputSteps
      <4>2. CASE h = c
        <5>1. align[h] = [sub |-> 0, chief |-> 0, num |-> Len(SiSteps[c])]
          BY <4>2
        <5>2. Len(SiSteps[c]) \in Nat
          BY <4>1, StepTypes
        <5>3. QED
          BY <4>2, <5>1, <5>2 DEF Lined, Alignments
      <4>3. CASE h # c
        <5>1. align[h] = SiAlignment(SiSteps[h], SiSteps[c])
          BY <4>3
        <5>2. QED
          BY <2>5, <4>1, <5>1, AlignmentLines
      <4>4. QED
        BY <4>2, <4>3
    <3>3. align = [h \in SiHosts |-> align[h]]
      OBVIOUS
    <3> HIDE DEF align
    <3>4. align \in [SiHosts -> Alignments]
      BY <3>2, <3>3 DEF Lined
    <3>5. QED
      BY <2>2, <2>3, <3>1, <3>2, <3>4 DEF SiInv, SiStepsExist
  <2>6. QED
    BY <2>4, <2>5
<1>4. CASE SiBound
  <2>1. siInput' = siInput /\ siAlign' = siAlign /\ siChief' = siChief /\ siAlign # <<>>
    BY <1>4 DEF SiBound
  <2>2. SiSteps' = SiSteps /\ SiHosts' = SiHosts
    BY <2>1 DEF SiSteps, SiHosts
  <2>3. siRange' \in SiRanges /\ SiStepsExist'
    BY <1>4, BoundInside
  <2>4. QED
    BY <2>1, <2>2, <2>3 DEF SiInv
<1>5. CASE UNCHANGED siVars
  <2>1. siInput' = siInput /\ siAlign' = siAlign /\ siRange' = siRange /\ siChief' = siChief
    BY <1>5 DEF siVars
  <2>2. /\ SiSteps' = SiSteps /\ SiHosts' = SiHosts /\ SiNumSteps' = SiNumSteps
        /\ \A h : SiFirst(h)' = SiFirst(h)
    BY <2>1 DEF SiSteps, SiHosts, SiNumSteps, SiFirst
  <2>3. QED
    BY <2>1, <2>2 DEF SiInv, SiStepsExist
<1>6. QED
  BY <1>1, <1>2, <1>3, <1>4, <1>5 DEF SiNext

LEMMA SiInvariance == SiSpec => []SiInv
<1>1. QED
  BY SiInitInv, SiNextInv, PTL DEF SiSpec

(* The variables of StepIntersection have their types. *)
THEOREM StepTyping == SiSpec => []SiTypeOK
<1>1. SiInv => SiTypeOK
  BY DEF SiInv, SiTypeOK, Alignments, SiRanges
<1>2. QED
  BY <1>1, SiInvariance, PTL

(* Whatever the hosts recorded and whatever their clocks say: every step   *)
(* that CombineStepDatabase reads exists on every host.                    *)
THEOREM StepsExist == SiSpec => []SiStepsExist
<1>1. SiInv => SiStepsExist
  BY DEF SiInv
<1>2. QED
  BY <1>1, SiInvariance, PTL

-----------------------------------------------------------------------------
(* HeapSimulator: the roots of the chains of buffers that share memory.    *)
HsRooted(can, f) == f = [x \in HsBuffers |-> IF can[x] = HsNone THEN x ELSE f[can[x]]]
HsRootsOf(can) == CHOOSE f : HsRooted(can, f)
HsLinks == [HsBuffers -> HsBuffers \cup {HsNone}]

HsFamily(can, started, f) ==
  /\ can \in HsLinks /\ f \in [HsBuffers -> HsBuffers] /\ started \subseteq HsBuffers
  /\ \A x \in HsBuffers : f[x] = IF can[x] = HsNone THEN x ELSE f[can[x]]
  /\ \A g : HsRooted(can, g) => g = f
  /\ \A x \in started : f[x] \in started /\ can[f[x]] = HsNone
                        /\ can[x] \in started \cup {HsNone}
  /\ \A x \in HsBuffers \ started : can[x] = HsNone

LEMMA RootIsRoot == \A b : HsRoot(b) = HsRootsOf(hsCanonical)[b]
BY Zenon DEF HsRoot, HsRootsOf, HsRooted

LEMMA FamilyRoots ==
  ASSUME NEW can, NEW started, NEW f, HsFamily(can, started, f)
  PROVE  HsRootsOf(can) = f
<1>1. HsRooted(can, f)
  <2> DEFINE Up(x) == IF can[x] = HsNone THEN x ELSE f[can[x]]
  <2>1. f = [x \in HsBuffers |-> f[x]] /\ \A x \in HsBuffers : f[x] = Up(x)
    BY Zenon DEF HsFamily
  <2>2. f = [x \in HsBuffers |-> Up(x)]
    <3> HIDE DEF Up
    <3>1. QED
      BY <2>1, Zenon
  <2>3. QED
    BY <2>2, Zenon DEF HsRooted
<1>2. HsRooted(can, HsRootsOf(can))
  BY <1>1, Zenon DEF HsRootsOf
<1>3. QED
  BY <1>2, Zenon DEF HsFamily

LEMMA FamilyStarts ==
  ASSUME NEW can, NEW started, NEW f, HsFamily(can, started, f), NEW b \in HsBuffers \ started
  PROVE  HsFamily(can, started \cup {b}, f) /\ f[b] = b
<1>1. can[b] = HsNone /\ f[b] = b
  BY DEF HsFamily
<1>2. QED
  BY <1>1 DEF HsFamily

(* A buffer that shares hangs below a started one, and nothing below it.   *)
LEMMA FamilyShares ==
  ASSUME NEW can, NEW started, NEW f, HsFamily(can, started, f),
         NEW b \in HsBuffers \ started, NEW c \in started
  PROVE  HsFamily([can EXCEPT ![b] = c], started \cup {b}, [f EXCEPT ![b] = f[c]])
<1> DEFINE cann == [can EXCEPT ![b] = c]
           ff == [f EXCEPT ![b] = f[c]]
<1>1. /\ can \in HsLinks /\ f \in [HsBuffers -> HsBuffers] /\ started \subseteq HsBuffers
      /\ b \in HsBuffers /\ c \in HsBuffers /\ b # c /\ HsNone \notin HsBuffers
  BY HsAssumption DEF HsFamily
<1>2. /\ cann \in HsLinks /\ ff \in [HsBuffers -> HsBuffers]
      /\ cann[b] = c /\ ff[b] = f[c]
      /\ \A x \in HsBuffers : x # b => cann[x] = can[x] /\ ff[x] = f[x]
  BY <1>1 DEF HsLinks
<1>3. \A x \in HsBuffers : can[x] # b
  BY <1>1 DEF HsFamily
<1>4. \A x \in HsBuffers : can[x] \in HsBuffers \cup {HsNone}
  BY <1>1 DEF HsLinks
<1> HIDE DEF cann, ff
<1>5. ASSUME NEW x \in HsBuffers
      PROVE  ff[x] = IF cann[x] = HsNone THEN x ELSE ff[cann[x]]
  <2>1. CASE x = b
    BY <1>1, <1>2, <2>1
  <2>2. CASE x # b
    <3>1. f[x] = IF can[x] = HsNone THEN x ELSE f[can[x]]
      BY DEF HsFamily
    <3>2. QED
      BY <1>2, <1>3, <1>4, <2>2, <3>1
  <2>3. QED
    BY <2>1, <2>2
<1>6. ASSUME NEW g, HsRooted(cann, g)
      PROVE  g = ff
  <2> DEFINE Up(h, k, x) == IF k[x] = HsNone THEN x ELSE h[k[x]]
             old == [x \in HsBuffers |-> IF x = b THEN b ELSE g[x]]
  <2>1. g = [x \in HsBuffers |-> g[x]] /\ \A x \in HsBuffers : g[x] = Up(g, cann, x)
    BY <1>6, Zenon DEF HsRooted
  <2>2. /\ old[b] = b /\ \A x \in HsBuffers : x # b => old[x] = g[x]
    BY <1>1
  <2>3. old = [x \in HsBuffers |-> old[x]]
    OBVIOUS
  <2> HIDE DEF old
  <2>4. ASSUME NEW x \in HsBuffers
        PROVE  old[x] = Up(old, can, x)
    <3>1. CASE x = b
      <4>1. can[b] = HsNone
        BY DEF HsFamily
      <4>2. QED
        BY <2>2, <3>1, <4>1
    <3>2. CASE x # b
      <4>1. old[x] = g[x] /\ cann[x] = can[x] /\ g[x] = Up(g, cann, x)
        BY <1>2, <2>1, <2>2, <3>2
      <4>2. can[x] # HsNone => old[can[x]] = g[can[x]]
        BY <1>3, <1>4, <2>2
      <4>3. QED
        BY <4>1, <4>2
    <3>3. QED
      BY <3>1, <3>2
  <2>5. HsRooted(can, old)
    <3>1. old = [x \in HsBuffers |-> Up(old, can, x)]
      <4> HIDE DEF Up
      <4>1. QED
        BY <2>3, <2>4, Zenon
    <3>2. QED
      BY <3>1, Zenon DEF HsRooted
  <2>6. old = f
    BY <2>5, Zenon DEF HsFamily
  <2>7. \A x \in HsBuffers : g[x] = ff[x]
    <3>1. g[b] = g[c]
      BY <1>1, <1>2, <2>1
    <3>2. QED
      BY <1>1, <1>2, <2>2, <2>6, <3>1
  <2>8. ff = [x \in HsBuffers |-> ff[x]]
    BY <1>2
  <2>9. QED
    BY <2>1, <2>7, <2>8, Zenon
<1>7. ASSUME NEW x \in started \cup {b}
      PROVE  /\ ff[x] \in started \cup {b} /\ cann[ff[x]] = HsNone
             /\ cann[x] \in started \cup {b, HsNone}
  <2>1. /\ f[c] \in started /\ can[f[c]] = HsNone
        /\ x # b => f[x] \in started /\ can[f[x]] = HsNone /\ can[x] \in started \cup {HsNone}
    BY <1>7 DEF HsFamily
  <2>2. ff[x] \in started /\ can[ff[x]] = HsNone /\ ff[x] # b
    BY <1>1, <1>2, <1>7, <2>1
  <2>3. cann[ff[x]] = HsNone
    BY <1>1, <1>2, <2>2
  <2>4. cann[x] \in started \cup {HsNone}
    BY <1>1, <1>2, <1>7, <2>1
  <2>5. QED
    BY <2>2, <2>3, <2>4
<1>8. ASSUME NEW x \in HsBuffers \ (started \cup {b})
      PROVE  cann[x] = HsNone
  BY <1>2, <1>8 DEF HsFamily
<1>9. HsFamily(cann, started \cup {b}, ff)
  BY <1>1, <1>2, <1>5, <1>6, <1>7, <1>8 DEF HsFamily
<1>10. QED
  BY <1>9 DEF cann, ff
-----------------------------------------------------------------------------
(* What a trace takes and frees, with the roots f; e is its next event.    *)
HsEvents == [kind : {"ALLOC", "SHARE_WITH", "FREE"}, buffer : HsBuffers, of : HsBuffers \cup {HsNone}]
Takes(t, f, r, n) == {i \in 1..n : f[t[i].buffer] = r /\ t[i].kind # "FREE"}
Frees(t, f, r, n) == {i \in 1..n : f[t[i].buffer] = r /\ t[i].kind = "FREE"}
Held(t, f, r, n) == Cardinality(Takes(t, f, r, n)) - Cardinality(Frees(t, f, r, n))
StartedIn(t) == {t[i].buffer : i \in DOMAIN t}
AgreeOn(t, f, g) == \A i \in DOMAIN t : g[t[i].buffer] = f[t[i].buffer]
Change(e) == IF e.kind = "FREE" THEN -1 ELSE 1

LEMMA HeldFinite ==
  ASSUME NEW t, NEW f, NEW r, NEW n \in Nat
  PROVE  /\ IsFiniteSet(Takes(t, f, r, n)) /\ IsFiniteSet(Frees(t, f, r, n))
         /\ Cardinality(Takes(t, f, r, n)) \in Nat /\ Cardinality(Frees(t, f, r, n)) \in Nat
         /\ Held(t, f, r, n) \in Int
<1>1. IsFiniteSet(1..n)
  BY FS_Interval
<1>2. Takes(t, f, r, n) \in SUBSET (1..n) /\ Frees(t, f, r, n) \in SUBSET (1..n)
  BY DEF Takes, Frees
<1>3. IsFiniteSet(Takes(t, f, r, n)) /\ IsFiniteSet(Frees(t, f, r, n))
  BY <1>1, <1>2, FS_Subset
<1>4. QED
  BY <1>3, FS_CardinalityType DEF Held

LEMMA HeldIsHeld ==
  ASSUME NEW r, NEW n \in Nat
  PROVE  HsHeld(r, n) = Held(hsTrace, HsRootsOf(hsCanonical), r, n)
<1> DEFINE mine == {i \in 1..n : HsRoot(hsTrace[i].buffer) = r}
           frees == {i \in mine : hsTrace[i].kind = "FREE"}
           f == HsRootsOf(hsCanonical)
<1>1. mine = {i \in 1..n : f[hsTrace[i].buffer] = r}
  BY RootIsRoot, Zenon
<1>2. HsHeld(r, n) = Cardinality(mine \ frees) - Cardinality(frees)
  BY Zenon DEF HsHeld
<1> HIDE DEF f
<1>3. mine \ frees = Takes(hsTrace, f, r, n) /\ frees = Frees(hsTrace, f, r, n)
  BY <1>1 DEF Takes, Frees
<1>4. QED
  BY <1>2, <1>3 DEF Held, f

LEMMA HeldByStarted ==
  ASSUME NEW t \in Seq(HsEvents), NEW f, NEW r, NEW n \in 0..Len(t), Held(t, f, r, n) # 0
  PROVE  n # 0 /\ \E b \in StartedIn(t) : f[b] = r
<1>1. /\ Takes(t, f, r, n) = {} => Cardinality(Takes(t, f, r, n)) = 0
      /\ Frees(t, f, r, n) = {} => Cardinality(Frees(t, f, r, n)) = 0
  BY FS_EmptySet
<1>2. Takes(t, f, r, n) # {} \/ Frees(t, f, r, n) # {}
  BY <1>1 DEF Held
<1>3. \E i \in 1..n : f[t[i].buffer] = r
  BY <1>2 DEF Takes, Frees
<1>4. 1..n \subseteq DOMAIN t
  BY LenProperties
<1>5. QED
  BY <1>3, <1>4 DEF StartedIn

LEMMA HeldBefore ==
  ASSUME NEW t \in Seq(HsEvents), NEW e \in HsEvents, NEW f, NEW g, AgreeOn(t, f, g),
         NEW r, NEW n \in 0..Len(t)
  PROVE  Held(Append(t, e), g, r, n) = Held(t, f, r, n)
<1> DEFINE u == Append(t, e)
<1>1. \A i \in 1..n : u[i] = t[i] /\ i \in DOMAIN t
  BY AppendProperties, LenProperties
<1>2. \A i \in 1..n : g[u[i].buffer] = f[t[i].buffer]
  BY <1>1, Zenon DEF AgreeOn
<1> HIDE DEF u
<1>3. Takes(u, g, r, n) = Takes(t, f, r, n) /\ Frees(u, g, r, n) = Frees(t, f, r, n)
  BY <1>1, <1>2 DEF Takes, Frees
<1>4. QED
  BY <1>3 DEF Held, u

LEMMA HeldAfter ==
  ASSUME NEW t \in Seq(HsEvents), NEW e \in HsEvents, NEW f, NEW g, AgreeOn(t, f, g), NEW r
  PROVE  Held(Append(t, e), g, r, Len(t) + 1)
           = Held(t, f, r, Len(t)) + (IF g[e.buffer] = r THEN Change(e) ELSE 0)
<1> DEFINE u == Append(t, e)
           n == Len(t)
<1>1. n \in Nat /\ u[n + 1] = e /\ \A i \in 1..n : u[i] = t[i] /\ i \in DOMAIN t
  BY AppendProperties, LenProperties
<1>2. \A i \in 1..n : g[u[i].buffer] = f[t[i].buffer]
  BY <1>1, Zenon DEF AgreeOn
<1> HIDE DEF u, n
<1>3. 1..(n + 1) = (1..n) \cup {n + 1} /\ n + 1 \notin 1..n
  BY <1>1
<1>4. /\ Takes(u, g, r, n + 1) = IF g[e.buffer] = r /\ e.kind # "FREE"
                                 THEN Takes(t, f, r, n) \cup {n + 1} ELSE Takes(t, f, r, n)
      /\ Frees(u, g, r, n + 1) = IF g[e.buffer] = r /\ e.kind = "FREE"
                                 THEN Frees(t, f, r, n) \cup {n + 1} ELSE Frees(t, f, r, n)
  BY <1>1, <1>2, <1>3 DEF Takes, Frees
<1>5. n + 1 \notin Takes(t, f, r, n) /\ n + 1 \notin Frees(t, f, r, n)
  BY <1>3 DEF Takes, Frees
<1>6. /\ Cardinality(Takes(t, f, r, n) \cup {n + 1}) = Cardinality(Takes(t, f, r, n)) + 1
      /\ Cardinality(Frees(t, f, r, n) \cup {n + 1}) = Cardinality(Frees(t, f, r, n)) + 1
  BY <1>1, <1>5, HeldFinite, FS_AddElement
<1>7. /\ Cardinality(Takes(t, f, r, n)) \in Nat /\ Cardinality(Frees(t, f, r, n)) \in Nat
  BY <1>1, HeldFinite
<1>8. Held(u, g, r, n + 1) = Held(t, f, r, n) + (IF g[e.buffer] = r THEN Change(e) ELSE 0)
  <2>1. CASE g[e.buffer] # r
    BY <1>4, <1>7, <2>1 DEF Held
  <2>2. CASE g[e.buffer] = r /\ e.kind = "FREE"
    <3>1. /\ Cardinality(Takes(u, g, r, n + 1)) = Cardinality(Takes(t, f, r, n))
          /\ Cardinality(Frees(u, g, r, n + 1)) = Cardinality(Frees(t, f, r, n)) + 1
      BY <1>4, <1>6, <2>2, Zenon
    <3>2. QED
      BY <1>7, <2>2, <3>1 DEF Held, Change
  <2>3. CASE g[e.buffer] = r /\ e.kind # "FREE"
    <3>1. /\ Cardinality(Takes(u, g, r, n + 1)) = Cardinality(Takes(t, f, r, n)) + 1
          /\ Cardinality(Frees(u, g, r, n + 1)) = Cardinality(Frees(t, f, r, n))
      BY <1>4, <1>6, <2>3, Zenon
    <3>2. QED
      BY <1>7, <2>3, <3>1 DEF Held, Change
  <2>4. QED
    BY <2>1, <2>2, <2>3
<1>9. QED
  BY <1>8 DEF u, n
-----------------------------------------------------------------------------
(* The replay has counted the trace t, with the roots f.                   *)
InUseAt(t, f, n) == {r \in HsBuffers : Held(t, f, r, n) > 0}
UseAt(t, f, n) == TotalOf(HsSize, InUseAt(t, f, n))
Counted(t, f, ref) ==
  ref \in [HsBuffers -> Int] /\ \A r \in HsBuffers : ref[r] = Held(t, f, r, Len(t))
Charted(t, f, line, heap) ==
  /\ IsFiniteSet(InUseAt(t, f, Len(t))) /\ heap \in Nat /\ heap = UseAt(t, f, Len(t))
  /\ line \in Seq(Nat) /\ Len(line) = Len(t)
  /\ \A n \in 1..Len(t) : line[n] = UseAt(t, f, n - 1)
Peaked(t, f, peak) ==
  /\ peak.bytes \in Nat /\ peak.at \in Nat
  /\ Len(t) = 0 => peak.bytes = 0
  /\ Len(t) # 0 => /\ peak.at < Len(t) /\ peak.bytes = UseAt(t, f, peak.at + 1)
                   /\ \A n \in 0..Len(t) : /\ UseAt(t, f, n) <= peak.bytes
                                           /\ n <= peak.at => UseAt(t, f, n) < peak.bytes

LEMMA CountedNext ==
  ASSUME NEW t \in Seq(HsEvents), NEW e \in HsEvents, NEW f, NEW g, AgreeOn(t, f, g),
         g[e.buffer] \in HsBuffers, NEW ref, Counted(t, f, ref)
  PROVE  Counted(Append(t, e), g, [ref EXCEPT ![g[e.buffer]] = @ + Change(e)])
<1> DEFINE root == g[e.buffer]
           refn == [ref EXCEPT ![root] = @ + Change(e)]
<1>1. Len(Append(t, e)) = Len(t) + 1 /\ Change(e) \in Int
  BY AppendProperties DEF Change
<1>2. ref \in [HsBuffers -> Int] /\ root \in HsBuffers
  BY DEF Counted
<1>3. refn \in [HsBuffers -> Int]
        /\ \A r \in HsBuffers : refn[r] = ref[r] + (IF root = r THEN Change(e) ELSE 0)
  BY <1>1, <1>2
<1> HIDE DEF refn
<1>4. \A r \in HsBuffers : refn[r] = Held(Append(t, e), g, r, Len(t) + 1)
  BY <1>3, HeldAfter DEF Counted
<1>5. Counted(Append(t, e), g, refn)
  BY <1>1, <1>3, <1>4 DEF Counted
<1>6. QED
  BY <1>5 DEF refn

LEMMA InUseBefore ==
  ASSUME NEW t \in Seq(HsEvents), NEW e \in HsEvents, NEW f, NEW g, AgreeOn(t, f, g),
         NEW n \in 0..Len(t)
  PROVE  /\ InUseAt(Append(t, e), g, n) = InUseAt(t, f, n)
         /\ UseAt(Append(t, e), g, n) = UseAt(t, f, n)
<1> DEFINE u == Append(t, e)
<1>1. \A r : Held(u, g, r, n) = Held(t, f, r, n)
  BY HeldBefore
<1> HIDE DEF u
<1>2. InUseAt(u, g, n) = InUseAt(t, f, n)
  BY <1>1 DEF InUseAt
<1>3. QED
  BY <1>2 DEF UseAt, u

(* The size follows the count of the event's root.                         *)
SizeNext(e, heap, root, count) ==
  IF e.kind # "FREE" /\ count = 1 THEN heap + HsSize[root]
  ELSE IF e.kind = "FREE" /\ count = 0 THEN heap - HsSize[root] ELSE heap

LEMMA ChartedNext ==
  ASSUME NEW t \in Seq(HsEvents), NEW e \in HsEvents, NEW f, NEW g, AgreeOn(t, f, g),
         g[e.buffer] \in HsBuffers, NEW ref, Counted(t, f, ref),
         NEW line, NEW heap, Charted(t, f, line, heap)
  PROVE  Charted(Append(t, e), g, Append(line, heap),
                 SizeNext(e, heap, g[e.buffer], ref[g[e.buffer]] + Change(e)))
<1> DEFINE root == g[e.buffer]
           refn == [ref EXCEPT ![root] = @ + Change(e)]
           u == Append(t, e)
           before == InUseAt(t, f, Len(t))
           after == InUseAt(u, g, Len(u))
           heapn == SizeNext(e, heap, root, ref[root] + Change(e))
<1>1. Len(u) = Len(t) + 1 /\ Change(e) \in {-1, 1} /\ Len(t) \in Nat
  BY AppendProperties, LenProperties DEF Change
<1>2. /\ ref \in [HsBuffers -> Int] /\ root \in HsBuffers
      /\ \A r \in HsBuffers : ref[r] = Held(t, f, r, Len(t))
  BY DEF Counted
<1>3. Counted(u, g, refn)
  BY CountedNext
<1>4. \A r \in HsBuffers : r # root => refn[r] = ref[r]
  BY <1>2
<1>5. refn[root] = ref[root] + Change(e)
  BY <1>2
<1> HIDE DEF u, refn, root
<1>6. before = {r \in HsBuffers : ref[r] > 0} /\ after = {r \in HsBuffers : refn[r] > 0}
  BY <1>2, <1>3 DEF InUseAt, Counted
<1>7. /\ \A r \in HsBuffers : HsSize[r] \in Nat
      /\ before \subseteq HsBuffers /\ IsFiniteSet(before)
      /\ heap \in Nat /\ heap = TotalOf(HsSize, before)
  BY <1>6, HsAssumption DEF Charted, UseAt
<1> HIDE DEF before, after
<1> DEFINE Whole(S) == IsFiniteSet(S) /\ \A r \in S : HsSize[r] \in Nat
<1>8. \A S, r : Whole(S) /\ r \in S => TotalOf(HsSize, S) = HsSize[r] + TotalOf(HsSize, S \ {r})
  BY TotalOfOneMore
<1>9. IsFiniteSet(after) /\ heapn \in Nat /\ heapn = TotalOf(HsSize, after)
  <2>1. CASE e.kind # "FREE" /\ refn[root] = 1
    <3>1. Change(e) = 1 /\ ref[root] = 0 /\ heapn = heap + HsSize[root]
      BY <1>2, <1>5, <2>1 DEF Change, SizeNext
    <3>2. after = before \cup {root} /\ root \notin before /\ after \ {root} = before
      BY <1>2, <1>4, <1>6, <2>1, <3>1
    <3>3. IsFiniteSet(after) /\ \A r \in after : HsSize[r] \in Nat
      BY <1>2, <1>7, <3>2, FS_AddElement
    <3>4. TotalOf(HsSize, after) = HsSize[root] + TotalOf(HsSize, before)
      BY <1>8, <3>2, <3>3
    <3>5. QED
      BY <1>2, <1>7, <3>1, <3>3, <3>4
  <2>2. CASE e.kind = "FREE" /\ refn[root] = 0
    <3>1. Change(e) = -1 /\ ref[root] = 1 /\ heapn = heap - HsSize[root]
      BY <1>2, <1>5, <2>2 DEF Change, SizeNext
    <3>2. after = before \ {root} /\ root \in before
      BY <1>2, <1>4, <1>6, <2>2, <3>1
    <3>3. IsFiniteSet(after) /\ \A r \in after : HsSize[r] \in Nat
      BY <1>7, <3>2, FS_RemoveElement
    <3>4. TotalOf(HsSize, before) = HsSize[root] + TotalOf(HsSize, after)
      BY <1>8, <1>7, <3>2
    <3>5. TotalOf(HsSize, after) \in Nat
      BY <3>3, TotalIsNat
    <3>6. QED
      BY <1>2, <1>7, <3>1, <3>3, <3>4, <3>5
  <2>3. CASE ~(e.kind # "FREE" /\ refn[root] = 1) /\ ~(e.kind = "FREE" /\ refn[root] = 0)
    <3>1. heapn = heap
      BY <1>5, <2>3 DEF SizeNext
    <3>2. refn[root] > 0 <=> ref[root] > 0
      BY <1>1, <1>2, <1>5, <2>3 DEF Change
    <3>3. after = before
      BY <1>4, <1>6, <3>2
    <3>4. QED
      BY <1>7, <3>1, <3>3
  <2>4. QED
    BY <2>1, <2>2, <2>3
<1>10. /\ line \in Seq(Nat) /\ Len(line) = Len(t)
      /\ \A n \in 1..Len(t) : line[n] = UseAt(t, f, n - 1)
  BY DEF Charted
<1> DEFINE linen == Append(line, heap)
<1>11. /\ linen \in Seq(Nat) /\ Len(linen) = Len(u)
       /\ linen[Len(u)] = heap /\ \A n \in 1..Len(t) : linen[n] = line[n]
  BY <1>1, <1>7, <1>10, AppendProperties
<1>12. \A n \in 0..Len(t) : UseAt(u, g, n) = UseAt(t, f, n)
  BY InUseBefore DEF u
<1> HIDE DEF linen, heapn
<1>13. \A n \in 1..Len(u) : linen[n] = UseAt(u, g, n - 1)
  <2>1. heap = UseAt(t, f, Len(t))
    BY DEF Charted
  <2>2. ASSUME NEW n \in 1..Len(u) PROVE linen[n] = UseAt(u, g, n - 1)
    <3>1. CASE n = Len(u)
      <4>1. n - 1 = Len(t) /\ n - 1 \in 0..Len(t)
        BY <1>1, <3>1
      <4>2. QED
        BY <1>11, <1>12, <2>1, <3>1, <4>1
    <3>2. CASE n # Len(u)
      <4>1. n \in 1..Len(t) /\ n - 1 \in 0..Len(t)
        BY <1>1, <3>2
      <4>2. QED
        BY <1>10, <1>11, <1>12, <4>1
    <3>3. QED
      BY <3>1, <3>2
  <2>3. QED
    BY <2>2
<1>14. Charted(u, g, linen, heapn)
  BY <1>9, <1>11, <1>13 DEF Charted, UseAt, after
<1>15. QED
  BY <1>14 DEF u, linen, heapn, root

(* A size before the last event is on the chart.                           *)
OnChart(t, f, line) ==
  \A n \in 0..Len(t) : UseAt(t, f, n) \in Nat /\ UseAt(t, f, n) = line[n + 1]

LEMMA ChartedSizes ==
  ASSUME NEW t \in Seq(HsEvents), NEW f, NEW line, NEW heap, Charted(t, f, line, heap)
  PROVE  OnChart(t, f, Append(line, heap))
<1>1. /\ Len(t) \in Nat /\ line \in Seq(Nat) /\ Len(line) = Len(t) /\ heap \in Nat
      /\ heap = UseAt(t, f, Len(t)) /\ \A n \in 1..Len(t) : line[n] = UseAt(t, f, n - 1)
  BY LenProperties DEF Charted
<1>2. ASSUME NEW n \in 0..Len(t)
      PROVE  UseAt(t, f, n) \in Nat /\ UseAt(t, f, n) = Append(line, heap)[n + 1]
  <2>1. CASE n = Len(t)
    BY <1>1, <2>1, AppendProperties
  <2>2. CASE n # Len(t)
    <3>1. n + 1 \in 1..Len(t) /\ (n + 1) - 1 = n
      BY <1>1, <2>2
    <3>2. line[n + 1] \in Nat /\ Append(line, heap)[n + 1] = line[n + 1]
      BY <1>1, <3>1, AppendProperties, ElementOfSeq
    <3>3. QED
      BY <1>1, <3>1, <3>2
  <2>3. QED
    BY <2>1, <2>2
<1>3. QED
  BY <1>2, Zenon DEF OnChart

(* The first peak: a higher size is a later peak, another one is none.     *)
LEMMA PeakedNext ==
  ASSUME NEW t \in Seq(HsEvents), NEW e \in HsEvents, NEW f, NEW g, AgreeOn(t, f, g),
         NEW line, NEW heap, NEW heapn, NEW peak, NEW peakn,
         Charted(t, f, line, heap), Charted(Append(t, e), g, Append(line, heap), heapn),
         Peaked(t, f, peak), Len(t) = 0 => heap = 0 /\ heapn > 0,
         \/ heapn > peak.bytes /\ peakn.bytes = heapn /\ peakn.at = Len(t)
         \/ heapn <= peak.bytes /\ peakn = peak
  PROVE  Peaked(Append(t, e), g, peakn)
<1> DEFINE u == Append(t, e)
<1>1. Len(u) = Len(t) + 1 /\ Len(t) \in Nat /\ u \in Seq(HsEvents)
  BY AppendProperties, LenProperties
<1>2. \A n \in 0..Len(t) : UseAt(u, g, n) = UseAt(t, f, n) /\ UseAt(t, f, n) \in Nat
  BY InUseBefore, ChartedSizes DEF OnChart
<1>3. heapn \in Nat /\ UseAt(u, g, Len(u)) = heapn /\ heap = UseAt(t, f, Len(t))
  BY DEF Charted
<1>4. \A n \in 0..Len(u) : n \in 0..Len(t) \/ n = Len(u)
  BY <1>1
<1>5. \A n \in 0..Len(t) : UseAt(t, f, n) <= peak.bytes
  <2>1. CASE Len(t) = 0
    BY <1>3, <2>1 DEF Peaked
  <2>2. CASE Len(t) # 0
    BY <2>2 DEF Peaked
  <2>3. QED
    BY <2>1, <2>2
<1>6. peak.bytes \in Nat /\ peak.at \in Nat
  BY DEF Peaked
<1> HIDE DEF u
<1>7. CASE heapn > peak.bytes /\ peakn.bytes = heapn /\ peakn.at = Len(t)
  <2>1. ASSUME NEW n \in 0..Len(u)
        PROVE  UseAt(u, g, n) <= heapn /\ (n <= Len(t) => UseAt(u, g, n) < heapn)
    <3>1. CASE n \in 0..Len(t)
      BY <1>2, <1>3, <1>5, <1>6, <1>7, <3>1
    <3>2. CASE n = Len(u)
      BY <1>1, <1>3, <3>2
    <3>3. QED
      BY <1>4, <3>1, <3>2
  <2>2. QED
    BY <1>1, <1>3, <1>7, <2>1 DEF Peaked, u
<1>8. CASE heapn <= peak.bytes /\ peakn = peak
  <2>1. Len(t) # 0
    BY <1>3, <1>6, <1>8 DEF Peaked
  <2>2. /\ peak.at < Len(t) /\ peak.bytes = UseAt(t, f, peak.at + 1)
        /\ \A n \in 0..Len(t) : n <= peak.at => UseAt(t, f, n) < peak.bytes
    BY <2>1 DEF Peaked
  <2>3. peak.bytes = UseAt(u, g, peak.at + 1) /\ peak.at < Len(u)
    <3>1. peak.at + 1 \in 0..Len(t)
      BY <1>1, <1>6, <2>2
    <3>2. QED
      BY <1>1, <1>2, <1>6, <2>2, <3>1
  <2>4. ASSUME NEW n \in 0..Len(u)
        PROVE  UseAt(u, g, n) <= peak.bytes /\ (n <= peak.at => UseAt(u, g, n) < peak.bytes)
    <3>1. CASE n \in 0..Len(t)
      BY <1>2, <1>5, <2>2, <3>1
    <3>2. CASE n = Len(u)
      BY <1>1, <1>3, <1>6, <1>8, <2>2, <3>2
    <3>3. QED
      BY <1>4, <3>1, <3>2
  <2>5. QED
    BY <1>1, <1>6, <1>8, <2>3, <2>4 DEF Peaked, u
<1>9. QED
  BY <1>7, <1>8
-----------------------------------------------------------------------------
(* The inductive invariant: the chains have roots, and what the replay     *)
(* keeps of the trace t is what the trace says of them.                    *)
NeverOver(t, f) == \A r \in HsBuffers, n \in 0..Len(t) : Held(t, f, r, n) >= 0
Mixed(t) == Cardinality({HsAllocation[b] : b \in StartedIn(t)}) # 1
Shown(t, f, result) ==
  /\ ~ Mixed(t) /\ result.at \in Nat /\ result.at < Len(t) /\ Len(result.sizes) = Len(t) + 1
  /\ \A n \in 0..Len(t) : result.sizes[n + 1] = HsIndefiniteUsage + UseAt(t, f, n)
  /\ result.peak = HsIndefiniteUsage + UseAt(t, f, result.at + 1)
  /\ \A n \in 0..Len(t) : /\ UseAt(t, f, n) <= UseAt(t, f, result.at + 1)
                          /\ n <= result.at => UseAt(t, f, n) < UseAt(t, f, result.at + 1)

HsReplayed(t, can, ref, line, heap, peak) ==
  LET f == HsRootsOf(can) IN
  /\ t \in Seq(HsEvents) /\ HsFamily(can, StartedIn(t), f)
  /\ Counted(t, f, ref) /\ Charted(t, f, line, heap) /\ Peaked(t, f, peak)

HsEnds(t, f, status, result) ==
  /\ status \in {"running", "failed", "done"}
  /\ status # "failed" => NeverOver(t, f)
  /\ status = "failed" => ~ NeverOver(t, f) \/ Mixed(t)
  /\ status = "done" => Shown(t, f, result)

HsInv ==
  /\ HsReplayed(hsTrace, hsCanonical, hsRef, hsTimeline, hsHeap, hsPeak)
  /\ HsEnds(hsTrace, HsRootsOf(hsCanonical), hsStatus, hsResult)

LEMMA HeldAtFirst == ASSUME NEW t, NEW f, NEW r PROVE Held(t, f, r, 0) = 0
<1>1. Takes(t, f, r, 0) = {} /\ Frees(t, f, r, 0) = {}
  BY DEF Takes, Frees
<1>2. QED
  BY <1>1, FS_EmptySet DEF Held

LEMMA UseAtFirst == ASSUME NEW t, NEW f PROVE UseAt(t, f, 0) = 0 /\ InUseAt(t, f, 0) = {}
<1>1. InUseAt(t, f, 0) = {}
  BY HeldAtFirst DEF InUseAt
<1>2. QED
  BY <1>1, TotalOfNone DEF UseAt

LEMMA HsInitInv == HsInit => HsInv
<1> SUFFICES ASSUME HsInit PROVE HsInv
  OBVIOUS
<1> DEFINE f == [b \in HsBuffers |-> b]
<1>1. /\ hsTrace = <<>> /\ hsTrace \in Seq(HsEvents) /\ Len(hsTrace) = 0
      /\ hsTimeline = <<>> /\ hsTimeline \in Seq(Nat) /\ Len(hsTimeline) = 0
      /\ StartedIn(hsTrace) = {}
  BY EmptySeq DEF HsInit, StartedIn
<1>2. HsFamily(hsCanonical, {}, f)
  <2>1. hsCanonical \in HsLinks /\ \A b \in HsBuffers : hsCanonical[b] = HsNone
    BY DEF HsInit, HsLinks
  <2>2. ASSUME NEW g, HsRooted(hsCanonical, g) PROVE g = f
    <3>1. g = [x \in HsBuffers |-> g[x]] /\ \A x \in HsBuffers : g[x] = x
      BY <2>1, <2>2, Zenon DEF HsRooted
    <3>2. QED
      BY <3>1
  <2>3. QED
    BY <2>1, <2>2 DEF HsFamily
<1>3. HsRootsOf(hsCanonical) = f
  BY <1>2, FamilyRoots
<1> HIDE DEF f
<1>4. \A r : Held(hsTrace, f, r, 0) = 0
  BY HeldAtFirst
<1>5. UseAt(hsTrace, f, 0) = 0 /\ InUseAt(hsTrace, f, 0) = {}
  BY UseAtFirst
<1>6. Counted(hsTrace, f, hsRef)
  BY <1>1, <1>4 DEF HsInit, Counted
<1>7. Charted(hsTrace, f, hsTimeline, hsHeap)
  <2>1. /\ InUseAt(hsTrace, f, Len(hsTrace)) = {} /\ UseAt(hsTrace, f, Len(hsTrace)) = 0
        /\ 1..Len(hsTrace) = {} /\ Len(hsTimeline) = Len(hsTrace)
    BY <1>1, <1>5
  <2>2. hsHeap = 0
    BY DEF HsInit
  <2>3. QED
    BY <1>1, <2>1, <2>2, FS_EmptySet DEF Charted
<1>8. Peaked(hsTrace, f, hsPeak)
  BY <1>1 DEF HsInit, Peaked
<1>9. HsEnds(hsTrace, f, hsStatus, hsResult)
  BY <1>1, <1>4 DEF HsInit, HsEnds, NeverOver
<1>10. QED
  BY <1>1, <1>2, <1>3, <1>6, <1>7, <1>8, <1>9 DEF HsInv, HsReplayed

LEMMA StartedNext ==
  ASSUME NEW t \in Seq(HsEvents), NEW e \in HsEvents
  PROVE  StartedIn(Append(t, e)) = StartedIn(t) \cup {e.buffer}
<1>1. /\ DOMAIN t = 1..Len(t) /\ DOMAIN Append(t, e) = 1..(Len(t) + 1) /\ Len(t) \in Nat
      /\ Append(t, e)[Len(t) + 1] = e /\ \A i \in 1..Len(t) : Append(t, e)[i] = t[i]
  BY AppendProperties, LenProperties
<1> DEFINE u == Append(t, e)
<1> HIDE DEF u
<1>2. /\ DOMAIN t = 1..Len(t) /\ DOMAIN u = 1..Len(t) \cup {Len(t) + 1}
      /\ u[Len(t) + 1] = e /\ \A i \in 1..Len(t) : u[i] = t[i]
  BY <1>1 DEF u
<1>3. StartedIn(u) = StartedIn(t) \cup {e.buffer}
  BY <1>2 DEF StartedIn
<1>4. QED
  BY <1>3 DEF u

(* What an event e does, whose roots are then g.                           *)
LEMMA HsEventInv ==
  ASSUME HsInv, hsStatus = "running", NEW e \in HsEvents, NEW g,
         HsFamily(hsCanonical', StartedIn(hsTrace) \cup {e.buffer}, g),
         AgreeOn(hsTrace, HsRootsOf(hsCanonical), g),
         hsTrace' = Append(hsTrace, e), hsTimeline' = Append(hsTimeline, hsHeap),
         hsRef' = [hsRef EXCEPT ![g[e.buffer]] = @ + Change(e)],
         hsHeap' = SizeNext(e, hsHeap, g[e.buffer], hsRef[g[e.buffer]] + Change(e)),
         hsTrace = <<>> => e.kind = "ALLOC" /\ hsRef[g[e.buffer]] = 0,
         \/ hsHeap' > hsPeak.bytes /\ hsPeak'.bytes = hsHeap' /\ hsPeak'.at = Len(hsTimeline)
         \/ hsHeap' <= hsPeak.bytes /\ hsPeak' = hsPeak,
         hsStatus' = IF hsRef'[g[e.buffer]] < 0 THEN "failed" ELSE hsStatus
  PROVE  HsInv'
<1> DEFINE f == HsRootsOf(hsCanonical)
           t == hsTrace
           u == Append(t, e)
           root == g[e.buffer]
<1>1. /\ t \in Seq(HsEvents) /\ HsFamily(hsCanonical, StartedIn(t), f)
      /\ Counted(t, f, hsRef) /\ Charted(t, f, hsTimeline, hsHeap) /\ Peaked(t, f, hsPeak)
  BY DEF HsInv, HsReplayed
<1>2. NeverOver(t, f)
  BY DEF HsInv, HsEnds
<1>3. HsRootsOf(hsCanonical') = g
  BY FamilyRoots
<1>4. root \in HsBuffers /\ e.buffer \in HsBuffers /\ AgreeOn(t, f, g)
  BY DEF HsFamily, HsEvents
<1>5. u \in Seq(HsEvents) /\ Len(u) = Len(t) + 1 /\ Len(t) \in Nat /\ StartedIn(u) = StartedIn(t) \cup {e.buffer}
  BY <1>1, AppendProperties, LenProperties, StartedNext
<1> HIDE DEF f, u
<1>6. Counted(u, g, hsRef')
  BY <1>1, <1>4, CountedNext DEF u
<1>7. Charted(u, g, hsTimeline', hsHeap')
  BY <1>1, <1>4, ChartedNext DEF u
<1>8. Len(t) = 0 => hsHeap = 0 /\ hsHeap' > 0
  <2>1. SUFFICES ASSUME Len(t) = 0 PROVE hsHeap = 0 /\ hsHeap' > 0
    BY <2>1
  <2>2. hsHeap = 0
    BY <1>1, <2>1, UseAtFirst DEF Charted
  <2>3. e.kind = "ALLOC" /\ hsRef[root] = 0
    BY <1>1, <2>1, EmptySeq
  <2>4. hsHeap' = hsHeap + HsSize[root]
    BY <2>3 DEF SizeNext, Change
  <2>5. QED
    BY <1>4, <2>2, <2>4, HsAssumption
<1>9. Peaked(u, g, hsPeak')
  <2>1. Len(hsTimeline) = Len(t)
    BY <1>1 DEF Charted
  <2>2. Charted(Append(t, e), g, Append(hsTimeline, hsHeap), hsHeap')
    BY <1>7 DEF u
  <2>3. Peaked(Append(t, e), g, hsPeak')
    BY <1>1, <1>4, <1>8, <2>1, <2>2, PeakedNext
  <2>4. QED
    BY <2>3 DEF u
<1>10. NeverOver(u, g) <=> hsRef'[root] >= 0
  <2>1. hsRef' \in [HsBuffers -> Int] /\ \A r \in HsBuffers : hsRef'[r] = Held(u, g, r, Len(u))
    BY <1>6 DEF Counted
  <2>2. \A r \in HsBuffers : hsRef[r] >= 0 /\ hsRef[r] \in Int
    BY <1>1, <1>2, <1>5 DEF Counted, NeverOver
  <2>3. \A r \in HsBuffers : r # root => hsRef'[r] = hsRef[r]
    BY <1>1 DEF Counted
  <2>4. \A r \in HsBuffers, n \in 0..Len(t) : Held(u, g, r, n) >= 0
    BY <1>1, <1>2, <1>4, HeldBefore DEF NeverOver, u
  <2>5. ASSUME hsRef'[root] >= 0, NEW r \in HsBuffers, NEW n \in 0..Len(u)
        PROVE  Held(u, g, r, n) >= 0
    <3>1. CASE n \in 0..Len(t)
      BY <2>4, <3>1
    <3>2. CASE n = Len(u)
      BY <2>1, <2>2, <2>3, <2>5, <3>2
    <3>3. QED
      BY <1>5, <3>1, <3>2
  <2>6. NeverOver(u, g) => hsRef'[root] >= 0
    BY <1>4, <1>5, <2>1 DEF NeverOver
  <2>7. QED
    BY <2>5, <2>6 DEF NeverOver
<1>11. hsRef'[root] \in Int
  BY <1>4, <1>6 DEF Counted
<1>12. HsEnds(u, g, hsStatus', hsResult')
  BY <1>10, <1>11 DEF HsEnds
<1>13. HsReplayed(u, hsCanonical', hsRef', hsTimeline', hsHeap', hsPeak')
  BY <1>3, <1>5, <1>6, <1>7, <1>9 DEF HsReplayed
<1>14. QED
  BY <1>3, <1>12, <1>13 DEF HsInv, u

LEMMA HeapBelowPeak ==
  ASSUME NEW t \in Seq(HsEvents), NEW f, NEW line, NEW heap, NEW peak,
         Charted(t, f, line, heap), Peaked(t, f, peak), t # <<>>
  PROVE  heap <= peak.bytes
<1>1. Len(t) \in 0..Len(t) /\ Len(t) # 0
  BY LenProperties, EmptySeq
<1>2. QED
  BY <1>1 DEF Charted, Peaked

LEMMA IndefiniteIsNat == HsIndefiniteUsage \in Nat
<1> DEFINE S == DOMAIN HsIndefinite
           size == [i \in S |-> HsIndefinite[i].size]
           Sum(f) == f = [s \in SUBSET S |->
                       IF s = {} THEN 0
                       ELSE HsIndefinite[CHOOSE x \in s : TRUE].size + f[s \ {CHOOSE x \in s : TRUE}]]
<1>1. \A f : Sum(f) <=> Summed(S, size, f)
  <2>1. ASSUME NEW s \in SUBSET S, s # {}
        PROVE  size[CHOOSE x \in s : TRUE] = HsIndefinite[CHOOSE x \in s : TRUE].size
    BY <2>1
  <2>2. QED
    BY <2>1, Zenon DEF Summed
<1>2. IsFiniteSet(S) /\ \A i \in S : size[i] \in Nat
  <2>1. /\ HsIndefinite \in Seq([size : Nat, buffers : SUBSET Nat])
    BY HsAssumption
  <2>2. S = 1..Len(HsIndefinite) /\ Len(HsIndefinite) \in Nat
    BY <2>1, LenProperties
  <2>3. \A i \in S : HsIndefinite[i] \in [size : Nat, buffers : SUBSET Nat]
    BY <2>1, <2>2, ElementOfSeq
  <2>4. QED
    BY <2>2, <2>3, FS_Interval
<1>3. (CHOOSE f : Summed(S, size, f))[S] \in Nat
  BY <1>2, SumIsNat
<1>4. (CHOOSE f : Sum(f)) = (CHOOSE f : Summed(S, size, f))
  <2> HIDE DEF Sum
  <2>1. QED
    BY <1>1, Zenon
<1>5. HsIndefiniteUsage = (CHOOSE f : Sum(f))[S]
  BY DEF HsIndefiniteUsage, MapThenSumSet, MapThenFoldSet
<1>6. QED
  BY <1>3, <1>4, <1>5

LEMMA HsFinishInv == ASSUME HsInv, HsFinish PROVE HsInv'
<1> DEFINE f == HsRootsOf(hsCanonical)
           t == hsTrace
<1>1. /\ UNCHANGED <<hsTrace, hsRef, hsCanonical, hsTimeline, hsHeap, hsPeak>>
      /\ hsStatus = "running" /\ t # <<>>
  BY DEF HsFinish
<1>2. HsReplayed(t, hsCanonical, hsRef, hsTimeline, hsHeap, hsPeak)
  BY DEF HsInv
<1>3. NeverOver(t, f)
  BY <1>1 DEF HsInv, HsEnds
<1>4. CASE Mixed(t)
  <2>1. hsStatus' = "failed"
    BY <1>4 DEF HsFinish, Mixed, HsStarted, StartedIn
  <2>2. HsEnds(t, f, hsStatus', hsResult')
    BY <1>4, <2>1 DEF HsEnds
  <2>3. QED
    BY <1>1, <1>2, <2>2 DEF HsInv
<1>5. CASE ~ Mixed(t)
  <2>1. /\ hsStatus' = "done" /\ hsResult'.at = hsPeak.at
        /\ hsResult'.peak = hsPeak.bytes + HsIndefiniteUsage
        /\ hsResult'.sizes = [i \in 1..Len(hsTimeline) + 1 |->
                                HsIndefiniteUsage + Append(hsTimeline, hsHeap)[i]]
    <3>1. ~ (Cardinality({HsAllocation[b] : b \in HsStarted}) # 1)
      BY <1>5 DEF Mixed, HsStarted, StartedIn
    <3>2. PICK hbm \in BOOLEAN :
            /\ hsStatus' = "done"
            /\ hsResult' =
                 [hbm |-> hbm, objects |-> HsObjects(hbm),
                  peak |-> hsPeak.bytes + HsIndefiniteUsage, at |-> hsPeak.at,
                  sizes |-> [i \in 1..Len(hsTimeline) + 1 |->
                               HsIndefiniteUsage + Append(hsTimeline, hsHeap)[i]],
                  spans |-> [b \in {x \in HsStarted : hsSpan[x] # <<>>} |->
                               IF hsSpan[b][2] = HsLast THEN <<hsSpan[b][1], Len(hsTrace) - 1>>
                               ELSE hsSpan[b]]]
      BY <3>1, Zenon DEF HsFinish
    <3>3. QED
      BY <3>2
  <2>2. /\ t \in Seq(HsEvents) /\ Charted(t, f, hsTimeline, hsHeap) /\ Peaked(t, f, hsPeak)
    BY <1>2 DEF HsReplayed
  <2>3. Len(hsTimeline) = Len(t) /\ Len(t) \in Nat /\ Len(t) # 0
    BY <1>1, <2>2, LenProperties, EmptySeq DEF Charted
  <2> HIDE DEF f
  <2>4. OnChart(t, f, Append(hsTimeline, hsHeap))
    BY <2>2, ChartedSizes
  <2>5. /\ Len(hsResult'.sizes) = Len(t) + 1
        /\ \A n \in 0..Len(t) : hsResult'.sizes[n + 1] = HsIndefiniteUsage + UseAt(t, f, n)
    <3> DEFINE line == Append(hsTimeline, hsHeap)
    <3> HIDE DEF line
    <3>1. hsResult'.sizes = [i \in 1..Len(t) + 1 |-> HsIndefiniteUsage + line[i]]
      BY <2>1, <2>3 DEF line
    <3>2. \A n \in 0..Len(t) : n + 1 \in 1..Len(t) + 1 /\ UseAt(t, f, n) = line[n + 1]
      BY <2>3, <2>4 DEF line, OnChart
    <3>3. Len(hsResult'.sizes) = Len(t) + 1
      BY <2>3, <3>1
    <3>4. QED
      BY <3>1, <3>2, <3>3
  <2>6. HsIndefiniteUsage \in Nat
    BY IndefiniteIsNat
  <2>7. /\ hsPeak.at \in Nat /\ hsPeak.at < Len(t) /\ hsPeak.bytes = UseAt(t, f, hsPeak.at + 1)
        /\ hsPeak.bytes \in Nat
        /\ \A n \in 0..Len(t) : /\ UseAt(t, f, n) <= hsPeak.bytes
                                /\ n <= hsPeak.at => UseAt(t, f, n) < hsPeak.bytes
    BY <2>2, <2>3 DEF Peaked
  <2>8. hsResult'.peak = HsIndefiniteUsage + UseAt(t, f, hsPeak.at + 1)
    BY <2>1, <2>6, <2>7
  <2>9. Shown(t, f, hsResult')
    BY <1>5, <2>1, <2>5, <2>7, <2>8, Zenon DEF Shown
  <2>10. HsEnds(t, f, hsStatus', hsResult')
    BY <1>3, <2>1, <2>9 DEF HsEnds, f
  <2>11. QED
    BY <1>1, <1>2, <2>10 DEF HsInv, f
<1>6. QED
  BY <1>4, <1>5

LEMMA HsStuttersInv == ASSUME HsInv, UNCHANGED hsVars PROVE HsInv'
BY DEF HsInv, hsVars

LEMMA HsAllocInv == ASSUME HsInv, NEW b \in HsBuffers, HsAlloc(b) PROVE HsInv'
<1> DEFINE f == HsRootsOf(hsCanonical)
           e == [kind |-> "ALLOC", buffer |-> b, of |-> HsNone]
<1>1. /\ hsTrace \in Seq(HsEvents) /\ HsFamily(hsCanonical, StartedIn(hsTrace), f)
      /\ Counted(hsTrace, f, hsRef) /\ Charted(hsTrace, f, hsTimeline, hsHeap)
      /\ Peaked(hsTrace, f, hsPeak)
  BY DEF HsInv, HsReplayed
<1>2. /\ b \notin StartedIn(hsTrace) /\ hsStatus = "running" /\ UNCHANGED <<hsCanonical, hsStatus>>
      /\ hsTrace' = Append(hsTrace, e) /\ hsTimeline' = Append(hsTimeline, hsHeap)
      /\ hsRef' = [hsRef EXCEPT ![b] = @ + 1]
      /\ hsHeap' = hsHeap + HsSize[b]
      /\ hsPeak' = IF hsHeap' > hsPeak.bytes
                   THEN [bytes |-> hsHeap', at |-> HsAt, live |-> hsLive', display |-> hsDisplay']
                   ELSE hsPeak
  BY DEF HsAlloc, HsEvent, IncreaseMemoryUsage, HsStarted, StartedIn
<1>3. e \in HsEvents /\ Change(e) = 1 /\ e.buffer = b /\ e.kind = "ALLOC"
  BY DEF HsEvents, Change
<1> HIDE DEF e, f
<1>4. HsFamily(hsCanonical, StartedIn(hsTrace) \cup {b}, f) /\ f[b] = b
  BY <1>1, <1>2, FamilyStarts
<1>5. Held(hsTrace, f, b, Len(hsTrace)) = 0
  <2>1. \A x \in StartedIn(hsTrace) : f[x] \in StartedIn(hsTrace)
    BY <1>1 DEF HsFamily
  <2>2. Len(hsTrace) \in 0..Len(hsTrace)
    BY <1>1, LenProperties
  <2>3. QED
    BY <1>1, <1>2, <2>1, <2>2, HeldByStarted
<1>6. hsRef \in [HsBuffers -> Int] /\ hsRef[b] = 0 /\ hsRef'[b] = 1
  BY <1>1, <1>2, <1>5 DEF Counted
<1>7. hsHeap' = SizeNext(e, hsHeap, b, hsRef[b] + Change(e))
  BY <1>2, <1>3, <1>6 DEF SizeNext
<1>8. AgreeOn(hsTrace, HsRootsOf(hsCanonical), f)
  BY DEF AgreeOn, f
<1>9. \/ hsHeap' > hsPeak.bytes /\ hsPeak'.bytes = hsHeap' /\ hsPeak'.at = Len(hsTimeline)
      \/ hsHeap' <= hsPeak.bytes /\ hsPeak' = hsPeak
  <2>1. hsHeap \in Nat /\ hsPeak.bytes \in Nat /\ HsSize[b] \in Nat
    BY <1>1, HsAssumption DEF Charted, Peaked
  <2>2. hsHeap' \in Nat
    BY <1>2, <2>1
  <2>3. QED
    BY <1>2, <2>1, <2>2 DEF HsAt
<1>10. HsFamily(hsCanonical', StartedIn(hsTrace) \cup {e.buffer}, f)
  BY <1>2, <1>3, <1>4
<1>11. hsRef' = [hsRef EXCEPT ![f[e.buffer]] = @ + Change(e)]
  BY <1>2, <1>3, <1>4
<1>12. /\ f[e.buffer] = b /\ hsRef[f[e.buffer]] = 0
       /\ hsHeap' = SizeNext(e, hsHeap, f[e.buffer], hsRef[f[e.buffer]] + Change(e))
       /\ hsStatus' = IF hsRef'[f[e.buffer]] < 0 THEN "failed" ELSE hsStatus
  BY <1>2, <1>3, <1>4, <1>6, <1>7
<1>13. QED
  BY <1>2, <1>3, <1>8, <1>9, <1>10, <1>11, <1>12, HsEventInv

LEMMA HsShareInv ==
  ASSUME HsInv, NEW b \in HsBuffers, NEW c \in HsBuffers, HsShareWith(b, c)
  PROVE  HsInv'
<1> DEFINE f == HsRootsOf(hsCanonical)
           e == [kind |-> "SHARE_WITH", buffer |-> b, of |-> c]
           g == [f EXCEPT ![b] = f[c]]
           root == f[c]
<1>1. /\ hsTrace \in Seq(HsEvents) /\ HsFamily(hsCanonical, StartedIn(hsTrace), f)
      /\ Counted(hsTrace, f, hsRef) /\ Charted(hsTrace, f, hsTimeline, hsHeap)
      /\ Peaked(hsTrace, f, hsPeak)
  BY DEF HsInv, HsReplayed
<1>2. /\ b \notin StartedIn(hsTrace) /\ c \in StartedIn(hsTrace)
      /\ hsStatus = "running" /\ hsStatus' = hsStatus
      /\ hsTrace' = Append(hsTrace, e) /\ hsTimeline' = Append(hsTimeline, hsHeap)
      /\ hsCanonical' = [hsCanonical EXCEPT ![b] = c]
  BY DEF HsShareWith, HsEvent, HsStarted, StartedIn
<1>3. /\ hsRef' = [hsRef EXCEPT ![root] = @ + 1]
      /\ IF hsRef'[root] = 1
         THEN /\ hsHeap' = hsHeap + HsSize[root]
              /\ hsPeak' = IF hsHeap' > hsPeak.bytes
                           THEN [bytes |-> hsHeap', at |-> HsAt, live |-> hsLive', display |-> hsDisplay']
                           ELSE hsPeak
         ELSE hsHeap' = hsHeap /\ hsPeak' = hsPeak
  <2>1. HsRoot(c) = root
    BY RootIsRoot
  <2> HIDE DEF f
  <2>2. QED
    BY <2>1 DEF HsShareWith, IncreaseMemoryUsage
<1>4. e \in HsEvents /\ Change(e) = 1 /\ e.buffer = b /\ e.kind = "SHARE_WITH"
  BY DEF HsEvents, Change
<1> HIDE DEF e, f
<1>5. HsFamily(hsCanonical', StartedIn(hsTrace) \cup {b}, g)
  BY <1>1, <1>2, FamilyShares
<1>6. f \in [HsBuffers -> HsBuffers] /\ root \in HsBuffers
  BY <1>1 DEF HsFamily
<1>7. g[b] = root /\ \A x \in HsBuffers : x # b => g[x] = f[x]
  BY <1>6
<1>8. AgreeOn(hsTrace, f, g)
  <2>1. \A x \in StartedIn(hsTrace) : x \in HsBuffers /\ x # b
    BY <1>1, <1>2 DEF HsFamily
  <2>2. QED
    BY <1>7, <2>1 DEF AgreeOn, StartedIn
<1> HIDE DEF g, root
<1>9. hsRef \in [HsBuffers -> Int] /\ hsRef'[root] = hsRef[root] + 1
  BY <1>1, <1>3, <1>6 DEF Counted
<1>10. hsHeap' = SizeNext(e, hsHeap, root, hsRef[root] + Change(e))
  BY <1>3, <1>4, <1>9 DEF SizeNext
<1>11. hsHeap \in Nat /\ hsPeak.bytes \in Nat /\ HsSize[root] \in Nat /\ hsTrace # <<>>
  <2>1. hsTrace # <<>>
    BY <1>2 DEF StartedIn
  <2>2. QED
    BY <1>1, <1>6, <2>1, HsAssumption DEF Charted, Peaked
<1>12. \/ hsHeap' > hsPeak.bytes /\ hsPeak'.bytes = hsHeap' /\ hsPeak'.at = Len(hsTimeline)
       \/ hsHeap' <= hsPeak.bytes /\ hsPeak' = hsPeak
  <2>1. CASE hsRef'[root] = 1
    <3>1. hsHeap' \in Nat
      BY <1>3, <1>11, <2>1
    <3>2. QED
      BY <1>3, <1>11, <2>1, <3>1 DEF HsAt
  <2>2. CASE hsRef'[root] # 1
    <3>1. hsHeap <= hsPeak.bytes
      BY <1>1, <1>11, HeapBelowPeak
    <3>2. QED
      BY <1>3, <2>2, <3>1
  <2>3. QED
    BY <2>1, <2>2
<1>13. hsRef'[root] >= 0
  <2>1. hsRef[root] >= 0
    <3>1. NeverOver(hsTrace, f)
      BY <1>2 DEF HsInv, HsEnds, f
    <3>2. Len(hsTrace) \in 0..Len(hsTrace)
      BY <1>1, LenProperties
    <3>3. QED
      BY <1>1, <1>6, <3>1, <3>2 DEF Counted, NeverOver
  <2>2. QED
    BY <1>6, <1>9, <2>1
<1>14. HsFamily(hsCanonical', StartedIn(hsTrace) \cup {e.buffer}, g) /\ g[e.buffer] = root
  BY <1>4, <1>5, <1>7
<1>15. hsRef' = [hsRef EXCEPT ![root] = @ + Change(e)]
  BY <1>3, <1>4
<1>16. hsStatus' = IF hsRef'[root] < 0 THEN "failed" ELSE hsStatus
  BY <1>2, <1>6, <1>9, <1>13
<1>17. AgreeOn(hsTrace, HsRootsOf(hsCanonical), g)
  BY <1>8 DEF f
<1>18. QED
  BY <1>2, <1>4, <1>10, <1>11, <1>12, <1>14, <1>15, <1>16, <1>17, HsEventInv

LEMMA HsFreeInv == ASSUME HsInv, NEW b \in HsBuffers, HsFree(b) PROVE HsInv'
<1> DEFINE f == HsRootsOf(hsCanonical)
           e == [kind |-> "FREE", buffer |-> b, of |-> HsNone]
           root == f[b]
<1>1. /\ hsTrace \in Seq(HsEvents) /\ HsFamily(hsCanonical, StartedIn(hsTrace), f)
      /\ Counted(hsTrace, f, hsRef) /\ Charted(hsTrace, f, hsTimeline, hsHeap)
      /\ Peaked(hsTrace, f, hsPeak)
  BY DEF HsInv, HsReplayed
<1>2. /\ b \in StartedIn(hsTrace) /\ hsStatus = "running" /\ UNCHANGED <<hsCanonical, hsPeak>>
      /\ hsTrace' = Append(hsTrace, e) /\ hsTimeline' = Append(hsTimeline, hsHeap)
  BY DEF HsFree, HsEvent, HsStarted, StartedIn
<1>3. /\ hsRef' = [hsRef EXCEPT ![root] = @ - 1]
      /\ hsStatus' = IF hsRef'[root] < 0 THEN "failed" ELSE hsStatus
      /\ hsHeap' = IF hsRef'[root] < 0 THEN hsHeap
                   ELSE IF hsRef'[root] = 0 THEN hsHeap - HsSize[root] ELSE hsHeap
  <2>1. HsRoot(b) = root
    BY RootIsRoot
  <2> HIDE DEF f
  <2>2. QED
    BY <2>1 DEF HsFree
<1>4. e \in HsEvents /\ Change(e) = -1 /\ e.buffer = b /\ e.kind = "FREE"
  BY DEF HsEvents, Change
<1> HIDE DEF e, f
<1>5. f \in [HsBuffers -> HsBuffers] /\ root \in HsBuffers
  BY <1>1 DEF HsFamily
<1> HIDE DEF root
<1>6. hsRef \in [HsBuffers -> Int] /\ hsRef[root] \in Int /\ hsRef'[root] = hsRef[root] - 1
  BY <1>1, <1>3, <1>5 DEF Counted
<1>7. hsHeap' = SizeNext(e, hsHeap, root, hsRef[root] + Change(e))
  BY <1>3, <1>4, <1>6 DEF SizeNext
<1>8. hsHeap \in Nat /\ hsPeak.bytes \in Nat /\ HsSize[root] \in Nat /\ hsTrace # <<>>
  <2>1. hsTrace # <<>>
    BY <1>2 DEF StartedIn
  <2>2. QED
    BY <1>1, <1>5, <2>1, HsAssumption DEF Charted, Peaked
<1>9. hsHeap' <= hsPeak.bytes
  <2>1. hsHeap <= hsPeak.bytes
    BY <1>1, <1>8, HeapBelowPeak
  <2>2. QED
    BY <1>3, <1>8, <2>1
<1>10. HsFamily(hsCanonical', StartedIn(hsTrace) \cup {e.buffer}, f) /\ f[e.buffer] = root
  <2>1. StartedIn(hsTrace) \cup {b} = StartedIn(hsTrace)
    BY <1>2
  <2>2. QED
    BY <1>1, <1>2, <1>4, <2>1 DEF root
<1>11. hsRef' = [hsRef EXCEPT ![root] = @ + Change(e)]
  <2>1. hsRef[root] - 1 = hsRef[root] + Change(e)
    BY <1>4, <1>6
  <2>2. QED
    BY <1>3, <2>1
<1>12. AgreeOn(hsTrace, HsRootsOf(hsCanonical), f)
  BY DEF AgreeOn, f
<1>13. QED
  BY <1>2, <1>3, <1>4, <1>7, <1>8, <1>9, <1>10, <1>11, <1>12, HsEventInv

LEMMA HsNextInv == HsInv /\ [HsNext]_hsVars => HsInv'
BY HsAllocInv, HsFreeInv, HsShareInv, HsFinishInv, HsStuttersInv DEF HsNext

(* The replay keeps its invariant: reference counts, sizes, peak and       *)
(* result are those of the trace (ProcessHeapSimulatorTrace).              *)
THEOREM ReplaySafety == HsSpec => []HsInv
<1>1. QED
  BY HsInitInv, HsNextInv, PTL DEF HsSpec

LEMMA HsInvIsReal == HsInv => HsPeakIsReal
<1> SUFFICES ASSUME HsInv PROVE HsPeakIsReal
  OBVIOUS
<1> DEFINE f == HsRootsOf(hsCanonical)
           t == hsTrace
           total == Len(t)
<1>1. t \in Seq(HsEvents) /\ HsFamily(hsCanonical, StartedIn(t), f) /\ total \in Nat
  BY LenProperties DEF HsInv, HsReplayed
<1>2. HsEnds(t, f, hsStatus, hsResult)
  BY DEF HsInv
<1>3. \A n \in 0..total : \A r : HsHeld(r, n) = Held(t, f, r, n) /\ Held(t, f, r, n) \in Int
  BY <1>1, HeldIsHeld, HeldFinite
<1> HIDE DEF f
<1>4. HsStarted = StartedIn(t) /\ StartedIn(t) \subseteq HsBuffers
  BY <1>1 DEF HsStarted, StartedIn, HsFamily
<1>5. \A n \in 0..total : \A r : Held(t, f, r, n) # 0 => r \in HsRoots /\ n # 0
  <2>1. SUFFICES ASSUME NEW n \in 0..total, NEW r, Held(t, f, r, n) # 0 PROVE r \in HsRoots /\ n # 0
    BY <2>1
  <2>2. n # 0 /\ \E b \in StartedIn(t) : f[b] = r
    BY <1>1, <2>1, HeldByStarted
  <2>3. QED
    BY <1>1, <1>4, <2>2 DEF HsFamily, HsRoots
<1>6. HsRoots \subseteq HsBuffers
  BY <1>4 DEF HsRoots
<1>7. \A n \in 0..total : HsUse(n) = UseAt(t, f, n)
  <2>1. ASSUME NEW n \in 0..total PROVE HsUse(n) = UseAt(t, f, n)
    <3>1. HsInUse(n) = InUseAt(t, f, n)
      BY <1>3, <1>5, <1>6 DEF HsInUse, InUseAt
    <3>2. HsUse(n) = TotalOf(HsSize, HsInUse(n))
      BY Zenon DEF HsUse, MapThenSumSet, MapThenFoldSet, TotalOf, Summed
    <3>3. QED
      BY <3>1, <3>2 DEF UseAt
  <2>2. QED
    BY <2>1
<1> DEFINE overfreed == \E r \in HsRoots, n \in 1..total : HsHeld(r, n) < 0
           mixed == Cardinality({HsAllocation[b] : b \in HsStarted}) # 1
<1>8. overfreed <=> ~ NeverOver(t, f)
  <2>1. ASSUME NEW r \in HsRoots, NEW n \in 1..total, HsHeld(r, n) < 0
        PROVE  ~ NeverOver(t, f)
    BY <1>1, <1>3, <1>6, <2>1 DEF NeverOver
  <2>2. ASSUME NEW r \in HsBuffers, NEW n \in 0..total, ~(Held(t, f, r, n) >= 0)
        PROVE  overfreed
    <3>1. Held(t, f, r, n) # 0 /\ HsHeld(r, n) < 0
      BY <1>3, <2>2
    <3>2. r \in HsRoots /\ n \in 1..total
      BY <1>1, <1>5, <3>1
    <3>3. QED
      BY <3>1, <3>2
  <2> HIDE DEF overfreed
  <2>3. ~ NeverOver(t, f) => overfreed
    BY <2>2 DEF NeverOver
  <2>4. overfreed => ~ NeverOver(t, f)
    BY <2>1 DEF overfreed
  <2>5. QED
    BY <2>3, <2>4
<1>9. mixed <=> Mixed(t)
  BY <1>4 DEF Mixed
<1> DEFINE p == hsResult.at
<1>10. ASSUME hsStatus = "done"
       PROVE  /\ ~ mixed /\ Len(hsResult.sizes) = total + 1
              /\ \A n \in 0..total : hsResult.sizes[n + 1] = HsIndefiniteUsage + HsUse(n)
              /\ hsResult.peak = HsIndefiniteUsage + HsUse(p + 1)
              /\ \A n \in 0..total : HsUse(n) <= HsUse(p + 1) /\ (n <= p => HsUse(n) < HsUse(p + 1))
  <2>1. Shown(t, f, hsResult)
    BY <1>2, <1>10 DEF HsEnds
  <2>2. p + 1 \in 0..total
    BY <1>1, <2>1 DEF Shown
  <2>3. HsUse(p + 1) = UseAt(t, f, p + 1)
    BY <1>7, <2>2
  <2>4. QED
    BY <1>7, <1>9, <2>1, <2>3, Zenon DEF Shown
<1>11. /\ overfreed => hsStatus = "failed"
       /\ hsStatus = "failed" => overfreed \/ mixed
  BY <1>2, <1>8, <1>9 DEF HsEnds
<1> HIDE DEF overfreed, mixed, p
<1>12. QED
  BY <1>10, <1>11, Zenon DEF HsPeakIsReal, overfreed, mixed, p

(* For any trace and any buffers, sizes, allocations and order of sharing  *)
(* and freeing: the replay fails exactly if some memory is freed too often *)
(* or there are several allocations, and what it shows are the sizes after *)
(* each event, the peak and its first position (GeneratePreprocessResult). *)
THEOREM PeakIsReal == HsSpec => []HsPeakIsReal
<1>1. QED
  BY ReplaySafety, HsInvIsReal, PTL

(* DerivedLine.                                                            *)
(* The events and the kernels there can be.                                *)
DlEv == [name : {t.module : t \in DlTags} \cup UNION {{p[i] : i \in DOMAIN p} : p \in DlPaths},
         level : DlLevels, begin : Nat, end : Int, group : {t.group : t \in DlTags},
         scope : {t.scope : t \in DlTags} \cup {0}, parent : Nat]
DlKs == [module : {t.module : t \in DlTags}, path : DlPaths, group : {t.group : t \in DlTags},
         scope : {t.scope : t \in DlTags} \cup {0}, begin : Nat, end : Nat]

(* The lines while the kernel H[Len(H)] is entered: the levels below m     *)
(* have it, the others have H[a] as their last kernel.  The levels begin   *)
(* at f.                                                                   *)
DlAt(l, H, a, m) == IF l < m THEN Len(H) ELSE a

(* The kernels come one after the other.                                   *)
DlTimed(H, a) ==
  /\ H \in Seq(DlKs) /\ a \in 0..Len(H)
  /\ \A n \in 1..Len(H) : H[n].begin < H[n].end
  /\ \A n, o \in 1..Len(H) : n < o => H[n].end <= H[o].begin

(* The last events of the levels are a stack: each lies under the one      *)
(* before it.                                                              *)
DlStack(ev, la, f) ==
  /\ ev \in Seq(DlEv) /\ la \in [DlLevels -> 0..Len(ev)]
  /\ \A l \in DlLevels : la[l] # 0 =>
       /\ f <= l /\ ev[la[l]].level = l
       /\ l = f => ev[la[l]].parent = 0
       /\ l > f => la[l - 1] # 0 /\ ev[la[l]].parent = la[l - 1]
  /\ \A l, o \in DlLevels : l <= o /\ la[l] # 0 /\ la[o] # 0 => ev[la[l]].begin <= ev[la[o]].begin

(* The last event of a level ends with the last kernel that has reached    *)
(* it, and no event later.                                                 *)
DlEnds(ev, la, H, a, m) ==
  /\ \A i \in 1..Len(ev) :
       /\ DlAt(ev[i].level, H, a, m) > 0
       /\ ev[i].begin < H[DlAt(ev[i].level, H, a, m)].end
       /\ ev[i].end <= H[DlAt(ev[i].level, H, a, m)].end
  /\ \A l \in DlLevels : la[l] # 0 =>
       /\ ev[la[l]].end = H[DlAt(l, H, a, m)].end
       /\ \E n \in 1..Len(H) :
            /\ H[n].begin = ev[la[l]].begin /\ H[n].end <= ev[la[l]].end
            /\ l <= Len(H[n].path)

(* The events of a level do not overlap, and none is empty.                *)
DlApart(ev) ==
  /\ \A i \in 1..Len(ev) : ev[i].begin < ev[i].end
  /\ \A i, j \in 1..Len(ev) : i < j /\ ev[i].level = ev[j].level => ev[i].end <= ev[j].begin

(* The event i is the last one of its level.                               *)
DlOpen(la, i) == \E l \in DlLevels : la[l] = i

(* A closed event c below an open one p: a later kernel has extended p.    *)
DlOutgrown(c, p, H) ==
  \E n \in 1..Len(H) : /\ H[n].end = p.end /\ c.end <= H[n].begin /\ c.begin <= H[n].begin
                       /\ p.level <= Len(H[n].path)
(* Below a closed one. *)
DlSettled(c, p, H) ==
  /\ \/ c.end <= p.end
     \/ \E n \in 1..Len(H) : c.end <= H[n].begin /\ H[n].end - H[n].begin < DlNs * (c.level - 2)
  /\ c.level >= 2 /\ c.begin = p.begin /\ c.end = p.end =>
       \E n \in 1..Len(H) : /\ H[n].end - H[n].begin < DlNs * (Len(H[n].path) + 1)
                            /\ c.begin <= H[n].begin
                            /\ H[n].begin < c.end + DlNs * Len(H[n].path)

(* The events form a tree, whose closed events stay within closed parents. *)
DlTree(ev, la, H, f) ==
  \A i \in 1..Len(ev) :
    LET c == ev[i] p == ev[c.parent] IN
    /\ f <= c.level
    /\ c.parent # 0 =>
         /\ c.parent \in 1..i - 1 /\ p.level = c.level - 1 /\ p.begin <= c.begin
         /\ DlOpen(la, c.parent) => DlOpen(la, i) \/ DlOutgrown(c, p, H)
         /\ ~DlOpen(la, c.parent) => DlSettled(c, p, H)

(* The kernel k is found on the level l, and in full while that event is   *)
(* open.                                                                   *)
DlFoundAt(ev, la, k, l) ==
  \E i \in 1..Len(ev) :
    /\ ev[i].level = l /\ ev[i].name = k.path[l] /\ ev[i].group = k.group
    /\ ev[i].begin <= k.begin /\ k.end < ev[i].end + DlNs * l
    /\ DlOpen(la, i) => k.end <= ev[i].end

(* Every kernel is found on each level it has reached.                     *)
DlFound(ev, la, H, a, m) ==
  \A n \in 1..Len(H) : \A l \in 1..Len(H[n].path) :
    n <= a \/ l < m => DlFoundAt(ev, la, H[n], l)

(* The lines s, whichever level the kernel has reached.                    *)
DlLines(s, H, a, m, f) ==
  /\ s = [events |-> s.events, last |-> s.last]
  /\ DlTimed(H, a) /\ DlStack(s.events, s.last, f) /\ DlEnds(s.events, s.last, H, a, m)
  /\ DlApart(s.events) /\ DlTree(s.events, s.last, H, f) /\ DlFound(s.events, s.last, H, a, m)

(* The invariant, between two kernels.                                     *)
DlInv ==
  LET s == [events |-> dlEvents, last |-> dlLast] IN
  /\ dlGpu \in BOOLEAN /\ dlClosed \in BOOLEAN
  /\ DlLines(s, dlInputs, Len(dlInputs), 0, IF dlGpu THEN 0 ELSE 1)
  /\ dlClosed => ~dlGpu /\ \A l \in DlLevels : dlLast[l] = 0

(* An event that gives no more nanoseconds is too short for one more.      *)
LEMMA ShortAsCut ==
  ASSUME NEW d \in Int, NEW b \in Nat \ {0}, NEW c \in Nat, ~(c < d \div b - 1)
  PROVE  d < b * (c + 2)
<1>1. b \in Int /\ b > 0
  OBVIOUS
<1>2. d \div b \in Int /\ d < b * (d \div b) + b
  BY <1>1
<1>3. d \div b <= c + 1
  BY <1>2
<1>4. b * (d \div b) <= b * (c + 1)
  BY <1>1, <1>2, <1>3
<1>5. b * (c + 2) = b * (c + 1) + b
  OBVIOUS
<1>6. QED
  BY <1>2, <1>4, <1>5

(* The loop of AdjustDurationForTraceViewer over the levels lo to hi.      *)
DlCuts(ns, lo, hi, most, same) ==
  ns = [l \in lo..hi |-> IF l = lo THEN 0
                         ELSE IF ns[l - 1] < most /\ l \in same THEN ns[l - 1] + 1 ELSE ns[l - 1]]

(* The loop of AdjustDurationForTraceViewer is a recursion that has a      *)
(* solution.                                                               *)
LEMMA CutsExist ==
  ASSUME NEW lo \in Nat, NEW hi \in Nat, lo <= hi, NEW most, NEW same
  PROVE  \E ns : DlCuts(ns, lo, hi, most, same)
<1> DEFINE Bad == {n \in Nat : lo <= n /\ ~ \E ns : DlCuts(ns, lo, n, most, same)}
<1>1. SUFFICES ASSUME Bad # {} PROVE FALSE
  OBVIOUS
<1>2. PICK n \in Bad : \A o \in Bad : n <= o
  BY <1>1, LeastNumber
<1>3. CASE n = lo
  <2>1. DlCuts([l \in lo..lo |-> 0], lo, lo, most, same)
    BY DEF DlCuts
  <2>2. QED
    BY <1>2, <1>3, <2>1
<1>4. CASE n # lo
  <2>1. n \in Nat /\ n - 1 \in Nat /\ lo <= n - 1 /\ n - 1 \notin Bad
    BY <1>2, <1>4
  <2>2. PICK f : DlCuts(f, lo, n - 1, most, same)
    BY <2>1
  <2> DEFINE g == [l \in lo..n |-> IF l < n THEN f[l]
                                   ELSE IF f[n - 1] < most /\ n \in same THEN f[n - 1] + 1 ELSE f[n - 1]]
  <2>3. \A l \in lo..n - 1 : g[l] = f[l]
    BY <2>1
  <2>4. \A l \in lo..n - 1 :
          f[l] = IF l = lo THEN 0
                 ELSE IF f[l - 1] < most /\ l \in same THEN f[l - 1] + 1 ELSE f[l - 1]
    BY <2>2, <2>1 DEF DlCuts
  <2>5. ASSUME NEW l \in lo..n
        PROVE  g[l] = IF l = lo THEN 0
                      ELSE IF g[l - 1] < most /\ l \in same THEN g[l - 1] + 1 ELSE g[l - 1]
    <3>1. CASE l = n
      <4>1. l - 1 \in lo..n - 1 /\ l # lo
        BY <3>1, <2>1, <1>4
      <4>2. g[l - 1] = f[l - 1]
        BY <4>1, <2>3
      <4>3. QED
        BY <4>1, <4>2, <3>1, <2>1
    <3>2. CASE l = lo /\ l # n
      BY <3>2, <2>1, <2>3, <2>4
    <3>3. CASE l # lo /\ l # n
      <4>1. l \in lo..n - 1 /\ l - 1 \in lo..n - 1
        BY <3>3, <2>1
      <4>2. g[l] = f[l] /\ g[l - 1] = f[l - 1]
        BY <4>1, <2>3
      <4>3. QED
        BY <4>1, <4>2, <2>4, <3>3
    <3>4. QED
      BY <3>1, <3>2, <3>3
  <2>6. DlCuts(g, lo, n, most, same)
    BY <2>5 DEF DlCuts
  <2>7. QED
    BY <1>2, <2>6
<1>5. QED
  BY <1>3, <1>4

(* A deeper event loses no less, at most one nanosecond a level, and more  *)
(* than its parent if they have one span and it is long enough.            *)
LEMMA CutsAre ==
  ASSUME NEW lo \in Nat, NEW hi \in Nat, lo <= hi, NEW most, NEW same, NEW ns,
         DlCuts(ns, lo, hi, most, same)
  PROVE  /\ ns[lo] = 0
         /\ \A l \in lo..hi : ns[l] \in Nat /\ ns[l] <= l - lo
         /\ \A l \in lo + 1..hi :
              ns[l] = IF ns[l - 1] < most /\ l \in same THEN ns[l - 1] + 1 ELSE ns[l - 1]
<1>1. \A l \in lo..hi :
        ns[l] = IF l = lo THEN 0
                ELSE IF ns[l - 1] < most /\ l \in same THEN ns[l - 1] + 1 ELSE ns[l - 1]
  BY DEF DlCuts
<1> DEFINE Bad == {l \in lo..hi : ~(ns[l] \in Nat /\ ns[l] <= l - lo)}
<1>2. Bad = {}
  <2>1. SUFFICES ASSUME Bad # {} PROVE FALSE
    OBVIOUS
  <2>2. Bad \subseteq Nat
    OBVIOUS
  <2>3. PICK l \in Bad : \A o \in Bad : l <= o
    BY <2>1, <2>2, LeastNumber
  <2>4. l # lo
    BY <2>3, <1>1
  <2>5. l - 1 \in lo..hi /\ l - 1 \notin Bad
    BY <2>3, <2>4
  <2>6. ns[l - 1] \in Nat /\ ns[l - 1] <= l - 1 - lo
    BY <2>5
  <2>7. ns[l] = ns[l - 1] \/ ns[l] = ns[l - 1] + 1
    BY <1>1, <2>3, <2>4
  <2>8. QED
    BY <2>3, <2>6, <2>7
<1>3. QED
  BY <1>1, <1>2

(* None loses more than most nanoseconds.                                  *)
LEMMA CutsStop ==
  ASSUME NEW lo \in Nat, NEW hi \in Nat, lo <= hi, NEW most \in Int, NEW same, NEW ns,
         DlCuts(ns, lo, hi, most, same)
  PROVE  \A l \in lo..hi : ns[l] = 0 \/ ns[l] <= most
<1> DEFINE Bad == {l \in lo..hi : ~(ns[l] = 0 \/ ns[l] <= most)}
<1>1. SUFFICES ASSUME Bad # {} PROVE FALSE
  OBVIOUS
<1>2. PICK l \in Bad : \A o \in Bad : l <= o
  <2>1. Bad \subseteq Nat
    OBVIOUS
  <2> HIDE DEF Bad
  <2>2. QED
    BY <1>1, <2>1, LeastNumber
<1>3. /\ ns[lo] = 0
      /\ \A x \in lo..hi : ns[x] \in Nat
      /\ \A x \in lo + 1..hi :
           ns[x] = IF ns[x - 1] < most /\ x \in same THEN ns[x - 1] + 1 ELSE ns[x - 1]
  BY CutsAre
<1>4. l \in lo + 1..hi /\ l - 1 \in lo..hi /\ ~(l <= l - 1)
  BY <1>2, <1>3
<1>5. ns[l - 1] = 0 \/ ns[l - 1] <= most
  BY <1>2, <1>4
<1>6. ns[l] = (IF ns[l - 1] < most /\ l \in same THEN ns[l - 1] + 1 ELSE ns[l - 1]) /\ ns[l - 1] \in Nat
  BY <1>3, <1>4
<1>7. ns[l] = 0 \/ ns[l] <= most
  BY <1>5, <1>6
<1>8. QED
  BY <1>2, <1>7

(* An event gives a nanosecond only if it has one more.                    *)
LEMMA CutLeavesOne ==
  ASSUME NEW d \in Int, NEW b \in Nat \ {0}, NEW c \in Nat, c <= d \div b - 1
  PROVE  b * (c + 1) <= d
<1>1. b \in Int /\ b > 0
  OBVIOUS
<1>2. d \div b \in Int /\ b * (d \div b) <= d
  BY <1>1
<1>3. c + 1 <= d \div b
  BY <1>2
<1>4. b * (c + 1) <= b * (d \div b)
  BY <1>1, <1>2, <1>3
<1>5. QED
  BY <1>2, <1>4

(* The levels of a line.                                                   *)
LEMMA DepthIsNat ==
  /\ DlDepth \in Nat /\ DlLevels = 0..DlDepth /\ DlNs \in Nat /\ DlNs > 0
  /\ \A p \in DlPaths : /\ Len(p) \in Nat /\ Len(p) > 0 /\ Len(p) <= DlDepth
                        /\ DOMAIN p = 1..Len(p)
<1>1. ASSUME NEW p \in DlPaths
      PROVE  Len(p) \in Nat /\ Len(p) > 0 /\ DOMAIN p = 1..Len(p)
  <2>1. p \in Seq({p[i] : i \in DOMAIN p}) /\ p # <<>>
    BY DlAssumption
  <2> DEFINE S == {p[i] : i \in DOMAIN p}
  <2>2. p \in Seq(S)
    BY <2>1
  <2> HIDE DEF S
  <2>3. QED
    BY <2>1, <2>2
<1> DEFINE value == [p \in DlPaths |-> Len(p)]
           turn == [p \in DlPaths |-> 0]
<1>2. PICK b \in DlPaths : \A q \in DlPaths : \/ value[q] < value[b]
                                              \/ value[q] = value[b] /\ turn[b] <= turn[q]
  <2>1. \A p \in DlPaths : value[p] \in Nat /\ turn[p] \in Int
    BY <1>1
  <2>2. IsFiniteSet(DlPaths) /\ DlPaths # {}
    BY DlAssumption
  <2> HIDE DEF value, turn
  <2>3. QED
    BY <2>1, <2>2, BestExists
<1>3. \A q \in DlPaths : Len(q) <= Len(b)
  BY <1>1, <1>2
<1>4. \E x \in {Len(p) : p \in DlPaths} : \A y \in {Len(p) : p \in DlPaths} : x >= y
  BY <1>1, <1>3
<1>5. DlDepth \in {Len(p) : p \in DlPaths} /\ \A y \in {Len(p) : p \in DlPaths} : DlDepth >= y
  BY <1>4 DEF DlDepth, Max
<1>6. DlNs \in Nat /\ DlNs > 0
  BY DlAssumption
<1>7. QED
  BY <1>1, <1>5, <1>6 DEF DlLevels

(* The stack over a level that is open has a topmost one.                  *)
DlTop(la, level) ==
  CHOOSE t \in level..DlDepth : /\ \A l \in level..t : la[l] # 0
                                /\ t < DlDepth => la[t + 1] = 0

LEMMA TopIsTop ==
  ASSUME NEW la, NEW level \in DlLevels, la[level] # 0
  PROVE  /\ DlTop(la, level) \in level..DlDepth
         /\ \A l \in level..DlTop(la, level) : la[l] # 0
         /\ DlTop(la, level) < DlDepth => la[DlTop(la, level) + 1] = 0
<1> DEFINE Ends == {t \in level..DlDepth : t < DlDepth => la[t + 1] = 0}
<1>1. level \in Nat /\ DlDepth \in Nat /\ level <= DlDepth
  BY DepthIsNat
<1>2. Ends \subseteq Nat /\ DlDepth \in Ends
  BY <1>1
<1>3. PICK t \in Ends : \A o \in Ends : t <= o
  <2> HIDE DEF Ends
  <2>1. QED
    BY <1>2, LeastNumber
<1>4. \A l \in level..t : la[l] # 0
  <2>1. SUFFICES ASSUME NEW l \in level..t, la[l] = 0 PROVE FALSE
    OBVIOUS
  <2>2. l # level /\ l - 1 \in level..DlDepth /\ l - 1 < DlDepth
    BY <2>1, <1>1, <1>3
  <2>3. l - 1 \in Ends
    BY <2>1, <2>2
  <2>4. QED
    BY <2>3, <1>3, <1>1
<1>5. \E x \in level..DlDepth : (\A l \in level..x : la[l] # 0) /\ (x < DlDepth => la[x + 1] = 0)
  BY <1>3, <1>4
<1>6. QED
  BY <1>5, Zenon DEF DlTop

(* DlReset(s, L), for the levels from m: each open event of the stack      *)
(* loses cut[l] nanoseconds.                                               *)
DlCutBy(ev, la, r, m, cut, top) ==
  /\ cut \in [DlLevels -> Nat] /\ top \in DlLevels
  /\ \A l \in DlLevels : cut[l] = 0 \/ cut[l] <= l - 1
  /\ m \in DlLevels => cut[m] = 0
  /\ \A l \in DlLevels : l > m /\ la[l] # 0 => 
       /\ l <= top /\ la[top] # 0
       /\ cut[l - 1] <= cut[l]
       /\ cut[l] = 0 \/ DlNs * (cut[l] + 1) <= ev[la[top]].end - ev[la[top]].begin
       /\ l >= 2 /\ cut[l - 1] = cut[l] /\ DlSpan(ev[la[l]]) = DlSpan(ev[la[l - 1]]) =>
            ev[la[top]].end - ev[la[top]].begin < DlNs * (cut[l] + 2)
  /\ r \in Seq(DlEv) /\ Len(r) = Len(ev)
  /\ \A i \in 1..Len(ev) :
       /\ r[i].level = ev[i].level /\ r[i].parent = ev[i].parent /\ r[i].begin = ev[i].begin
       /\ r[i].name = ev[i].name /\ r[i].group = ev[i].group
       /\ ~(\E l \in DlLevels : l >= m /\ la[l] = i) => r[i].end = ev[i].end
  /\ \A l \in DlLevels : l >= m /\ la[l] # 0 => r[la[l]].end = ev[la[l]].end - DlNs * cut[l]

(* The stack has no gaps.                                                  *)
LEMMA OpenBelow ==
  ASSUME NEW ev, NEW la, NEW f \in {0, 1}, DlStack(ev, la, f), NEW l \in DlLevels, la[l] # 0,
         NEW j \in Nat, f <= j, j <= l
  PROVE  la[j] # 0
<1> DEFINE Bad == {d \in Nat : j <= l - d /\ la[l - d] = 0}
<1>1. SUFFICES ASSUME la[j] = 0 PROVE FALSE
  OBVIOUS
<1>2. l \in Nat /\ l <= DlDepth /\ DlDepth \in Nat /\ DlLevels = 0..DlDepth
  BY DepthIsNat
<1>3. l - j \in Nat /\ l - (l - j) = j
  BY <1>2
<1>4. l - j \in Bad
  BY <1>1, <1>3
<1>5. PICK d \in Bad : \A o \in Bad : d <= o
  <2>1. Bad \subseteq Nat /\ Bad # {}
    BY <1>4
  <2> HIDE DEF Bad
  <2>2. QED
    BY <2>1, LeastNumber
<1>6. d \in Nat /\ j <= l - d /\ la[l - d] = 0 /\ d # 0
  <2>1. l - 0 = l
    BY <1>2
  <2>2. QED
    BY <1>5, <2>1
<1>7. d - 1 \notin Bad
  BY <1>5, <1>6
<1>8. la[l - (d - 1)] # 0 /\ l - (d - 1) \in DlLevels /\ l - (d - 1) > f
  BY <1>7, <1>6, <1>2
<1>9. la[(l - (d - 1)) - 1] # 0
  BY <1>8 DEF DlStack
<1>10. (l - (d - 1)) - 1 = l - d
  BY <1>6, <1>2
<1>11. QED
  BY <1>9, <1>10, <1>6

(* DlShrink is that loop, from the level that is reset to the top of the   *)
(* stack.                                                                  *)
LEMMA ShrinkIsCuts ==
  ASSUME NEW s, NEW level \in DlLevels, s.last[level] # 0
  PROVE  DlCuts(DlShrink(s, level), level, DlTop(s.last, level),
                (s.events[s.last[DlTop(s.last, level)]].end - s.events[s.last[DlTop(s.last, level)]].begin) \div DlNs - 1,
                {l \in DlLevels : DlSpan(s.events[s.last[l]]) = DlSpan(s.events[s.last[l - 1]])})
<1> DEFINE top == DlTop(s.last, level)
           most == (s.events[s.last[top]].end - s.events[s.last[top]].begin) \div DlNs - 1
           same == {l \in DlLevels : DlSpan(s.events[s.last[l]]) = DlSpan(s.events[s.last[l - 1]])}
           Is(ns) == ns = [l \in level..top |->
                             IF l = level THEN 0
                             ELSE IF ns[l - 1] < most /\ DlSpan(s.events[s.last[l]]) = DlSpan(s.events[s.last[l - 1]])
                             THEN ns[l - 1] + 1 ELSE ns[l - 1]]
<1>1. DlShrink(s, level) = CHOOSE ns : Is(ns)
  BY Zenon DEF DlShrink, DlTop
<1>2. top \in level..DlDepth /\ level \in Nat /\ DlDepth \in Nat /\ DlLevels = 0..DlDepth
  BY TopIsTop, DepthIsNat
<1> HIDE DEF top, most
<1>3. \A ns : Is(ns) <=> DlCuts(ns, level, top, most, same)
  <2>1. \A l \in level..top : l \in same <=> DlSpan(s.events[s.last[l]]) = DlSpan(s.events[s.last[l - 1]])
    BY <1>2
  <2> HIDE DEF same
  <2>2. QED
    BY <2>1 DEF DlCuts
<1>4. \E ns : DlCuts(ns, level, top, most, same)
  <2> HIDE DEF same
  <2>1. top \in Nat /\ level <= top
    BY <1>2
  <2>2. QED
    BY <2>1, <1>2, CutsExist
<1> HIDE DEF Is, same
<1>5. Is(CHOOSE ns : Is(ns))
  BY <1>3, <1>4
<1>6. QED
  BY <1>1, <1>3, <1>5 DEF top, most, same

(* DlAdjust takes these nanoseconds from the events of the stack, and      *)
(* leaves the others alone.                                                *)
LEMMA AdjustCuts ==
  ASSUME NEW s, NEW f \in {0, 1}, DlStack(s.events, s.last, f), NEW m \in Nat, f <= m,
         NEW A \in Nat, A = IF m = 0 THEN 1 ELSE m
  PROVE  \E cut, top : DlCutBy(s.events, s.last, DlAdjust(s, A), m, cut, top)
<1> DEFINE ev == s.events
           la == s.last
<1>1. ev \in Seq(DlEv) /\ la \in [DlLevels -> 0..Len(ev)] /\ Len(ev) \in Nat /\ DOMAIN ev = 1..Len(ev)
  BY DEF DlStack
<1>2. /\ DlDepth \in Nat /\ DlLevels = 0..DlDepth /\ DlNs \in Nat /\ DlNs > 0 /\ 0 \in DlLevels
      /\ f <= A /\ m <= A /\ A >= 1
  BY DepthIsNat
<1>3. \A l, o \in DlLevels : la[l] # 0 /\ la[l] = la[o] => l = o
  BY DEF DlStack
<1>4. \A l, j \in DlLevels : la[l] # 0 /\ f <= j /\ j <= l => la[j] # 0
  BY <1>2, OpenBelow
<1>5. CASE A > DlDepth \/ la[A] = 0
  <2>1. DlAdjust(s, A) = ev
    BY <1>5 DEF DlAdjust
  <2>2. ASSUME NEW l \in DlLevels, l > m, la[l] # 0 PROVE FALSE
    <3>1. A <= l /\ A \in DlLevels
      BY <2>2, <1>2
    <3>2. la[A] # 0
      BY <3>1, <2>2, <1>4, <1>2
    <3>3. QED
      BY <3>1, <3>2, <1>2, <1>5
  <2> DEFINE cut == [l \in DlLevels |-> 0]
  <2>3. \A l \in DlLevels : la[l] # 0 => ev[la[l]].end = ev[la[l]].end - DlNs * cut[l]
    <3>1. SUFFICES ASSUME NEW l \in DlLevels, la[l] # 0
                   PROVE  ev[la[l]].end = ev[la[l]].end - DlNs * cut[l]
      OBVIOUS
    <3>2. ev[la[l]] \in DlEv
      BY <1>1, <3>1
    <3>3. ev[la[l]].end \in Int /\ cut[l] = 0
      BY <3>2 DEF DlEv
    <3>4. QED
      BY <3>3, <1>2
  <2>4. DlCutBy(ev, la, ev, m, cut, 0)
    <3> HIDE DEF ev, la
    <3>1. cut \in [DlLevels -> Nat] /\ \A l \in DlLevels : cut[l] = 0
      OBVIOUS
    <3> HIDE DEF cut
    <3>2. QED
      BY <1>1, <1>2, <2>2, <2>3, <3>1 DEF DlCutBy
  <2>5. QED
    BY <2>1, <2>4
<1>6. CASE A <= DlDepth /\ la[A] # 0
  <2> DEFINE top == DlTop(la, A)
             ns == DlShrink(s, A)
             most == (ev[la[top]].end - ev[la[top]].begin) \div DlNs - 1
             same == {l \in DlLevels : DlSpan(ev[la[l]]) = DlSpan(ev[la[l - 1]])}
             cut == [l \in DlLevels |-> IF l \in A..top THEN ns[l] ELSE 0]
             r == DlAdjust(s, A)
  <2>1. A \in DlLevels
    BY <1>6, <1>2
  <2>2. /\ top \in A..DlDepth /\ top \in DlLevels /\ \A l \in A..top : la[l] # 0
        /\ top < DlDepth => la[top + 1] = 0
    BY <2>1, <1>6, <1>2, TopIsTop
  <2>3. DlCuts(ns, A, top, most, same)
    BY <2>1, <1>6, ShrinkIsCuts
  <2>4. r = [i \in DOMAIN ev |->
               IF \E l \in DOMAIN ns : la[l] = i
               THEN LET l == CHOOSE k \in DOMAIN ns : la[k] = i IN
                    [ev[i] EXCEPT !.end = @ - DlNs * ns[l]]
               ELSE ev[i]]
    <3>1. ~(A > DlDepth \/ la[A] = 0)
      BY <1>6, <1>2
    <3>2. QED
      BY <3>1, Zenon DEF DlAdjust
  <2> HIDE DEF r, ns, most, same, top
  <2>5. DOMAIN ns = A..top /\ top \in Nat /\ A <= top /\ A..top \subseteq DlLevels
    BY <2>3, <2>2, <1>2 DEF DlCuts
  <2>6. /\ ns[A] = 0
        /\ \A l \in A..top : ns[l] \in Nat /\ ns[l] <= l - A
        /\ \A l \in A + 1..top :
             ns[l] = IF ns[l - 1] < most /\ l \in same THEN ns[l - 1] + 1 ELSE ns[l - 1]
    <3>1. A \in Nat /\ top \in Nat /\ A <= top
      BY <2>5
    <3>2. QED
      BY <2>3, <3>1, CutsAre
  <2>7. \A l \in DlLevels : l >= A /\ la[l] # 0 => l \in A..top
    <3>1. SUFFICES ASSUME NEW l \in DlLevels, l >= A, la[l] # 0, l > top PROVE FALSE
      BY <1>2, <2>5
    <3>2. top + 1 \in DlLevels /\ f <= top + 1 /\ top + 1 <= l /\ top < DlDepth
      BY <3>1, <1>2, <2>5
    <3>3. QED
      BY <3>1, <3>2, <2>2, <1>4
  <2>8. \A l \in A..top : (CHOOSE k \in DOMAIN ns : la[k] = la[l]) = l
    BY <2>2, <2>5, <1>3
  <2>9. ASSUME NEW i \in 1..Len(ev)
        PROVE  /\ r[i] \in DlEv
               /\ r[i].level = ev[i].level /\ r[i].parent = ev[i].parent /\ r[i].begin = ev[i].begin
               /\ r[i].name = ev[i].name /\ r[i].group = ev[i].group
               /\ ~(\E l \in A..top : la[l] = i) => r[i].end = ev[i].end
               /\ \A l \in A..top : la[l] = i => r[i].end = ev[i].end - DlNs * ns[l]
    <3>1. ev[i] \in DlEv
      BY <1>1
    <3>2. CASE \E l \in A..top : la[l] = i
      <4>1. PICK l \in A..top : la[l] = i
        BY <3>2
      <4>2. r[i] = [ev[i] EXCEPT !.end = @ - DlNs * ns[l]]
        <5>1. (CHOOSE k \in DOMAIN ns : la[k] = i) = l
          BY <4>1, <2>8, Zenon
        <5>2. (\E k \in DOMAIN ns : la[k] = i) /\ i \in DOMAIN ev
          BY <4>1, <2>5, <1>1
        <5>3. QED
          BY <5>1, <5>2, <2>4, Zenon
      <4>3. DlNs * ns[l] \in Int /\ \A k \in A..top : la[k] = i => k = l
        <5> DEFINE x == ns[l]
        <5>1. x \in Int
          BY <4>1, <2>6
        <5> HIDE DEF x
        <5>2. DlNs * x \in Int
          BY <5>1, <1>2
        <5>3. \A k \in A..top : la[k] = i => k = l
          BY <4>1, <1>3, <2>2, <2>5
        <5>4. QED
          BY <5>2, <5>3 DEF x
      <4>4. QED
        BY <3>1, <4>1, <4>2, <4>3 DEF DlEv
    <3>3. CASE ~ \E l \in A..top : la[l] = i
      BY <3>1, <3>3, <2>4, <2>5, <1>1
    <3>4. QED
      BY <3>2, <3>3
  <2>10. r \in Seq(DlEv) /\ Len(r) = Len(ev)
    <3>1. DOMAIN r = 1..Len(ev)
      BY <2>4, <1>1
    <3>2. r = [i \in 1..Len(ev) |-> r[i]]
      BY <2>4, <1>1
    <3>3. r \in [1..Len(ev) -> DlEv]
      BY <3>2, <2>9
    <3>4. QED
      BY <3>1, <3>3, <1>1
  <2>11. /\ cut \in [DlLevels -> Nat]
         /\ \A l \in DlLevels : cut[l] = 0 \/ cut[l] <= l - 1
         /\ m \in DlLevels => cut[m] = 0
    <3>1. ASSUME NEW l \in DlLevels PROVE cut[l] \in Nat /\ (cut[l] = 0 \/ cut[l] <= l - 1)
      BY <2>6, <1>2
    <3>2. m \in DlLevels => cut[m] = 0
      BY <2>6, <1>2
    <3>3. QED
      BY <3>1, <3>2
  <2>12. ASSUME NEW l \in DlLevels, l > m, la[l] # 0
         PROVE  /\ l <= top /\ la[top] # 0 /\ cut[l - 1] <= cut[l]
                /\ cut[l] = 0 \/ DlNs * (cut[l] + 1) <= ev[la[top]].end - ev[la[top]].begin
                /\ l >= 2 /\ cut[l - 1] = cut[l] /\ DlSpan(ev[la[l]]) = DlSpan(ev[la[l - 1]]) =>
                     ev[la[top]].end - ev[la[top]].begin < DlNs * (cut[l] + 2)
    <3>1. l \in A..top /\ cut[l] = ns[l] /\ l - 1 \in DlLevels
      BY <2>7, <2>12, <1>2
    <3>2. la[top] # 0 /\ la[top] \in 1..Len(ev)
      BY <2>2, <2>5, <1>1
    <3>3. CASE l = A
      <4>1. cut[l] = 0 /\ cut[l - 1] = 0 /\ ~(l >= 2)
        BY <3>3, <3>1, <2>6, <1>2, <2>12
      <4>2. QED
        BY <4>1, <3>1, <3>2
    <3>4. CASE l # A
      <4>1. l \in A + 1..top /\ l - 1 \in A..top /\ cut[l - 1] = ns[l - 1]
        BY <3>1, <3>4, <1>2, <2>5
      <4>2. cut[l] = IF cut[l - 1] < most /\ l \in same THEN cut[l - 1] + 1 ELSE cut[l - 1]
        BY <4>1, <3>1, <2>6
      <4>3. cut[l] \in Nat /\ cut[l - 1] \in Nat
        BY <4>1, <3>1, <2>6
      <4>4. ASSUME cut[l - 1] = cut[l], DlSpan(ev[la[l]]) = DlSpan(ev[la[l - 1]])
            PROVE  ev[la[top]].end - ev[la[top]].begin < DlNs * (cut[l] + 2)
        <5>1. l \in same
          BY <4>4 DEF same
        <5>2. ~(cut[l] < most)
          BY <5>1, <4>2, <4>3, <4>4
        <5>3. ev[la[top]] \in DlEv
          BY <3>2, <1>1
        <5>4. ev[la[top]].end - ev[la[top]].begin \in Int
          BY <5>3 DEF DlEv
        <5>5. DlNs \in Nat \ {0}
          BY <1>2
        <5> DEFINE d == ev[la[top]].end - ev[la[top]].begin
                   c == cut[l]
        <5>6. ~(c < d \div DlNs - 1)
          BY <5>2 DEF most
        <5>7. d \in Int /\ c \in Nat
          BY <5>4, <4>3
        <5> HIDE DEF d, c
        <5>8. d < DlNs * (c + 2)
          BY <5>5, <5>6, <5>7, ShortAsCut
        <5>9. QED
          BY <5>8 DEF d, c
      <4>5. cut[l - 1] <= cut[l]
        BY <4>2, <4>3
      <4>6. cut[l] = 0 \/ DlNs * (cut[l] + 1) <= ev[la[top]].end - ev[la[top]].begin
        <5>1. SUFFICES ASSUME cut[l] # 0
                       PROVE  DlNs * (cut[l] + 1) <= ev[la[top]].end - ev[la[top]].begin
          OBVIOUS
        <5>2. ev[la[top]] \in DlEv
          BY <3>2, <1>1
        <5>3. ev[la[top]].end - ev[la[top]].begin \in Int
          BY <5>2 DEF DlEv
        <5> DEFINE d == ev[la[top]].end - ev[la[top]].begin
                   c == cut[l]
        <5>4. d \in Int /\ c \in Nat /\ DlNs \in Nat \ {0}
          BY <5>3, <4>3, <1>2
        <5>5. most = d \div DlNs - 1
          BY DEF most
        <5> HIDE DEF d
        <5>6. most \in Int
          <6>1. DlNs \in Int /\ DlNs > 0
            BY <1>2
          <6>2. d \div DlNs \in Int
            BY <5>4, <6>1
          <6>3. QED
            BY <5>5, <6>2
        <5>7. c <= most
          <6>1. A \in Nat /\ top \in Nat /\ A <= top
            BY <2>5
          <6>2. \A x \in A..top : ns[x] = 0 \/ ns[x] <= most
            BY <2>3, <5>6, <6>1, CutsStop
          <6>3. QED
            BY <3>1, <5>1, <6>2
        <5> HIDE DEF c
        <5>8. DlNs * (c + 1) <= d
          BY <5>4, <5>5, <5>7, CutLeavesOne
        <5>9. QED
          BY <5>8 DEF c, d
      <4>7. QED
        BY <3>1, <3>2, <4>4, <4>5, <4>6, <2>5
    <3>5. QED
      BY <3>3, <3>4
  <2>13. \A i \in 1..Len(ev) : ~(\E l \in DlLevels : l >= m /\ la[l] = i) => r[i].end = ev[i].end
    <3>1. SUFFICES ASSUME NEW i \in 1..Len(ev), ~(\E l \in DlLevels : l >= m /\ la[l] = i)
                   PROVE  r[i].end = ev[i].end
      OBVIOUS
    <3>2. \A l \in A..top : l \in DlLevels /\ l >= m
      BY <2>5, <1>2
    <3>3. ~(\E l \in A..top : la[l] = i)
      BY <3>1, <3>2
    <3>4. QED
      BY <3>3, <2>9
  <2>14. ASSUME NEW l \in DlLevels, l >= m, la[l] # 0
         PROVE  r[la[l]].end = ev[la[l]].end - DlNs * cut[l]
    <3>1. la[l] \in 1..Len(ev)
      BY <1>1, <2>14
    <3>2. CASE l \in A..top
      BY <3>1, <3>2, <2>9
    <3>3. CASE l \notin A..top
      <4>1. cut[l] = 0 /\ ev[la[l]] \in DlEv
        BY <3>3, <3>1, <1>1
      <4>2. \A k \in A..top : la[k] # la[l]
        BY <3>3, <1>3, <2>14, <2>5
      <4>3. r[la[l]].end = ev[la[l]].end
        BY <4>2, <3>1, <2>9
      <4>4. QED
        BY <4>1, <4>3, <1>2 DEF DlEv
    <3>4. QED
      BY <3>2, <3>3
  <2>15. DlCutBy(ev, la, r, m, cut, top)
    <3> HIDE DEF cut, ev, la
    <3>1. top \in DlLevels
      BY <2>2
    <3>2. QED
      BY <3>1, <2>9, <2>10, <2>11, <2>12, <2>13, <2>14 DEF DlCutBy
  <2>16. QED
    BY <2>15 DEF r
<1>7. QED
  BY <1>5, <1>6, <1>1, <1>2

(* Nanoseconds compare as their counts.                                    *)
LEMMA Scaled ==
  ASSUME NEW x \in Int, NEW y \in Int
  PROVE  /\ DlNs * x \in Int /\ DlNs * y \in Int /\ DlNs * 0 = 0
         /\ x <= y => DlNs * x <= DlNs * y
         /\ x < y => DlNs * x < DlNs * y
         /\ 0 <= x => 0 <= DlNs * x
<1>1. DlNs \in Int /\ DlNs > 0
  BY DepthIsNat
<1>2. DlNs * x \in Int /\ DlNs * y \in Int /\ DlNs * 0 = 0
  BY <1>1
<1>3. x <= y => DlNs * x <= DlNs * y
  BY <1>1
<1>4. x < y => DlNs * x < DlNs * y
  BY <1>1
<1>5. 0 <= x => 0 <= DlNs * x
  BY <1>1
<1>6. QED
  BY <1>2, <1>3, <1>4, <1>5

(* An event is open only as the last one of its own level.                 *)
LEMMA OpenAtItsLevel ==
  ASSUME NEW ev, NEW la, NEW f, DlStack(ev, la, f), NEW i \in 1..Len(ev)
  PROVE  DlOpen(la, i) <=> la[ev[i].level] = i
<1>1. ev[i] \in DlEv /\ Len(ev) \in Nat
  BY DEF DlStack
<1>2. ev[i].level \in DlLevels
  BY <1>1 DEF DlEv
<1>3. \A l \in DlLevels : la[l] = i => ev[i].level = l
  BY DEF DlStack
<1>4. QED
  BY <1>2, <1>3 DEF DlOpen

(* What a reset leaves of each event. *)
DlAfter(ev, la, rv, ra, m, cut, i) ==
  /\ ev[i] \in DlEv /\ rv[i] \in DlEv
  /\ rv[i].level = ev[i].level /\ rv[i].parent = ev[i].parent /\ rv[i].begin = ev[i].begin
  /\ rv[i].name = ev[i].name /\ rv[i].group = ev[i].group
  /\ DlOpen(la, i) <=> la[ev[i].level] = i
  /\ DlOpen(ra, i) <=> la[ev[i].level] = i /\ ev[i].level < m
  /\ IF la[ev[i].level] = i /\ ev[i].level >= m
     THEN rv[i].end = ev[i].end - DlNs * cut[ev[i].level]
     ELSE rv[i].end = ev[i].end
  /\ rv[i].end <= ev[i].end

(* What a reset does to each event.                                        *)
LEMMA ResetEvents ==
  ASSUME NEW ev, NEW la, NEW f \in {0, 1}, DlStack(ev, la, f), NEW m \in Nat, NEW rv, NEW cut, NEW top,
         DlCutBy(ev, la, rv, m, cut, top),
         NEW ra, ra = [l \in DlLevels |-> IF l < m THEN la[l] ELSE 0]
  PROVE  Len(rv) = Len(ev) /\ \A i \in 1..Len(ev) : DlAfter(ev, la, rv, ra, m, cut, i)
<1>1. Len(rv) = Len(ev) /\ ev \in Seq(DlEv) /\ rv \in Seq(DlEv) /\ cut \in [DlLevels -> Nat]
  BY DEF DlCutBy, DlStack
<1>2. ASSUME NEW i \in 1..Len(ev) PROVE DlAfter(ev, la, rv, ra, m, cut, i)
  <2>1. ev[i] \in DlEv /\ rv[i] \in DlEv
    BY <1>1
  <2>2. ev[i].level \in DlLevels /\ ev[i].end \in Int /\ rv[i].end \in Int /\ DlLevels \subseteq Nat
    BY <2>1, DepthIsNat DEF DlEv
  <2>3. DlOpen(la, i) <=> la[ev[i].level] = i
    BY OpenAtItsLevel
  <2>4. \A l \in DlLevels : la[l] = i => ev[i].level = l
    BY DEF DlStack
  <2>5. DlOpen(ra, i) <=> la[ev[i].level] = i /\ ev[i].level < m
    <3>1. i # 0 /\ i \in Nat
      BY <1>1 DEF DlCutBy
    <3>2. ASSUME NEW l \in DlLevels, ra[l] = i
          PROVE  la[ev[i].level] = i /\ ev[i].level < m
      <4>1. l < m /\ la[l] = i
        BY <3>1, <3>2
      <4>2. QED
        BY <4>1, <2>4
    <3>3. ASSUME la[ev[i].level] = i, ev[i].level < m
          PROVE  ra[ev[i].level] = i
      BY <3>3, <2>2
    <3>4. QED
      BY <3>2, <3>3, <2>2 DEF DlOpen
  <2>6. /\ rv[i].level = ev[i].level /\ rv[i].parent = ev[i].parent /\ rv[i].begin = ev[i].begin
        /\ rv[i].name = ev[i].name /\ rv[i].group = ev[i].group
        /\ ~(\E l \in DlLevels : l >= m /\ la[l] = i) => rv[i].end = ev[i].end
    BY DEF DlCutBy
  <2>7. CASE la[ev[i].level] = i /\ ev[i].level >= m
    <3>1. la[ev[i].level] # 0
      BY <2>7
    <3>2. rv[i].end = ev[i].end - DlNs * cut[ev[i].level]
      BY <2>7, <3>1, <2>2 DEF DlCutBy
    <3>3. cut[ev[i].level] \in Nat
      BY <1>1, <2>2
    <3>4. DlNs * cut[ev[i].level] \in Int /\ 0 <= DlNs * cut[ev[i].level]
      <4> DEFINE c == cut[ev[i].level]
      <4>1. c \in Int /\ 0 <= c
        BY <3>3
      <4> HIDE DEF c
      <4>2. DlNs * c \in Int /\ 0 <= DlNs * c
        BY <4>1, Scaled
      <4>3. QED
        BY <4>2 DEF c
    <3>5. rv[i].end <= ev[i].end
      BY <3>2, <3>4, <2>2
    <3>6. QED
      BY <2>1, <2>3, <2>5, <2>6, <2>7, <3>2, <3>5 DEF DlAfter
  <2>8. CASE ~(la[ev[i].level] = i /\ ev[i].level >= m)
    <3>1. rv[i].end = ev[i].end
      BY <2>8, <2>4, <2>6
    <3>2. QED
      BY <2>1, <2>2, <2>3, <2>5, <2>6, <2>8, <3>1 DEF DlAfter
  <2>9. QED
    BY <2>7, <2>8
<1>3. QED
  BY <1>1, <1>2

(* A reset leaves a shorter stack.                                         *)
LEMMA ResetStack ==
  ASSUME NEW ev, NEW la, NEW f \in {0, 1}, DlStack(ev, la, f), NEW m \in Nat, NEW rv, NEW cut, NEW top,
         DlCutBy(ev, la, rv, m, cut, top),
         NEW ra, ra = [l \in DlLevels |-> IF l < m THEN la[l] ELSE 0]
  PROVE  DlStack(rv, ra, f)
<1>1. Len(rv) = Len(ev) /\ rv \in Seq(DlEv) /\ Len(ev) \in Nat /\ la \in [DlLevels -> 0..Len(ev)]
  BY DEF DlCutBy, DlStack
<1>2. DlLevels = 0..DlDepth /\ DlDepth \in Nat
  BY DepthIsNat
<1>3. ra \in [DlLevels -> 0..Len(rv)]
  BY <1>1
<1>4. \A i \in 1..Len(ev) :
        rv[i].level = ev[i].level /\ rv[i].parent = ev[i].parent /\ rv[i].begin = ev[i].begin
  BY DEF DlCutBy
<1>5. \A l \in DlLevels : ra[l] # 0 => l < m /\ ra[l] = la[l] /\ la[l] \in 1..Len(ev)
  BY <1>1
<1>6. ASSUME NEW l \in DlLevels, ra[l] # 0
      PROVE  /\ f <= l /\ rv[ra[l]].level = l
             /\ l = f => rv[ra[l]].parent = 0
             /\ l > f => ra[l - 1] # 0 /\ rv[ra[l]].parent = ra[l - 1]
  <2>1. l < m /\ ra[l] = la[l] /\ la[l] \in 1..Len(ev)
    BY <1>5, <1>6
  <2>2. /\ f <= l /\ ev[la[l]].level = l
        /\ l = f => ev[la[l]].parent = 0
        /\ l > f => la[l - 1] # 0 /\ ev[la[l]].parent = la[l - 1]
    BY <2>1 DEF DlStack
  <2>3. l > f => l - 1 \in DlLevels /\ l - 1 < m
    BY <2>1, <1>2
  <2>4. l > f => ra[l - 1] = la[l - 1]
    BY <2>3
  <2>5. QED
    BY <2>1, <2>2, <2>4, <1>4
<1>7. ASSUME NEW l \in DlLevels, NEW o \in DlLevels, l <= o, ra[l] # 0, ra[o] # 0
      PROVE  rv[ra[l]].begin <= rv[ra[o]].begin
  <2>1. ev[la[l]].begin <= ev[la[o]].begin
    BY <1>7, <1>5 DEF DlStack
  <2>2. QED
    BY <2>1, <1>4, <1>5, <1>7
<1>8. QED
  BY <1>1, <1>3, <1>6, <1>7 DEF DlStack

(* The types of a kernel.                                                  *)
LEMMA EndsInTime ==
  ASSUME NEW H, NEW a, DlTimed(H, a), NEW n \in 1..Len(H)
  PROVE  H[n] \in DlKs /\ H[n].begin \in Nat /\ H[n].end \in Nat /\ H[n].begin < H[n].end
         /\ H[n].path \in DlPaths /\ Len(H[n].path) \in Nat /\ Len(H) \in Nat /\ a \in Nat
<1>1. H \in Seq(DlKs) /\ a \in 0..Len(H) /\ H[n].begin < H[n].end
  BY DEF DlTimed
<1>2. H[n] \in DlKs /\ Len(H) \in Nat
  BY <1>1
<1>3. H[n].path \in DlPaths /\ H[n].begin \in Nat /\ H[n].end \in Nat
  BY <1>2 DEF DlKs
<1>4. QED
  BY <1>1, <1>2, <1>3, DepthIsNat

(* No event ends later for a reset.                                        *)
LEMMA ResetEnds ==
  ASSUME NEW ev, NEW la, NEW f \in {0, 1}, DlStack(ev, la, f), NEW m \in Nat, NEW rv, NEW cut, NEW ra,
         Len(rv) = Len(ev), \A i \in 1..Len(ev) : DlAfter(ev, la, rv, ra, m, cut, i),
         \A l \in DlLevels : ra[l] = IF l < m THEN la[l] ELSE 0,
         NEW H, NEW a, DlTimed(H, a), DlEnds(ev, la, H, a, m)
  PROVE  DlEnds(rv, ra, H, a, m)
<1>1. ASSUME NEW i \in 1..Len(rv)
      PROVE  /\ DlAt(rv[i].level, H, a, m) > 0
             /\ rv[i].begin < H[DlAt(rv[i].level, H, a, m)].end
             /\ rv[i].end <= H[DlAt(rv[i].level, H, a, m)].end
  <2> DEFINE n == DlAt(ev[i].level, H, a, m)
  <2>1. i \in 1..Len(ev) /\ DlAfter(ev, la, rv, ra, m, cut, i)
    OBVIOUS
  <2>2. n > 0 /\ ev[i].begin < H[n].end /\ ev[i].end <= H[n].end
    BY <2>1 DEF DlEnds
  <2>3. n \in 1..Len(H)
    BY <2>2 DEF DlAt, DlTimed
  <2>4. H[n].end \in Nat
    BY <2>3, EndsInTime
  <2>5. /\ rv[i].level = ev[i].level /\ rv[i].begin = ev[i].begin /\ rv[i].end <= ev[i].end
        /\ rv[i].end \in Int /\ ev[i].end \in Int
    BY <2>1 DEF DlAfter, DlEv
  <2> HIDE DEF n
  <2>6. rv[i].end <= H[n].end
    BY <2>2, <2>4, <2>5
  <2>7. QED
    BY <2>2, <2>5, <2>6 DEF n
<1>2. ASSUME NEW l \in DlLevels, ra[l] # 0
      PROVE  /\ rv[ra[l]].end = H[DlAt(l, H, a, m)].end
             /\ \E n \in 1..Len(H) :
                  /\ H[n].begin = rv[ra[l]].begin /\ H[n].end <= rv[ra[l]].end
                  /\ l <= Len(H[n].path)
  <2>1. l < m /\ ra[l] = la[l] /\ la[l] # 0
    BY <1>2
  <2>2. la[l] \in 1..Len(ev) /\ ev[la[l]].level = l
    BY <2>1 DEF DlStack
  <2>3. rv[la[l]].begin = ev[la[l]].begin /\ rv[la[l]].end = ev[la[l]].end
    <3>1. l \in Nat /\ ~(l >= m)
      BY <2>1, DepthIsNat
    <3>2. DlAfter(ev, la, rv, ra, m, cut, la[l])
      BY <2>2
    <3>3. QED
      BY <3>1, <3>2, <2>2 DEF DlAfter
  <2>4. /\ ev[la[l]].end = H[DlAt(l, H, a, m)].end
        /\ \E n \in 1..Len(H) :
             /\ H[n].begin = ev[la[l]].begin /\ H[n].end <= ev[la[l]].end
             /\ l <= Len(H[n].path)
    BY <2>1 DEF DlEnds
  <2>5. QED
    BY <2>1, <2>3, <2>4
<1>3. QED
  BY <1>1, <1>2 DEF DlEnds

(* Events that are shrunk do not come to overlap, and each keeps at least  *)
(* a nanosecond: it is no shorter than the topmost of the stack.           *)
LEMMA ResetApart ==
  ASSUME NEW ev, NEW la, NEW f \in {0, 1}, DlStack(ev, la, f), NEW m \in Nat, NEW rv, NEW cut, NEW top,
         NEW ra, DlCutBy(ev, la, rv, m, cut, top),
         Len(rv) = Len(ev), \A i \in 1..Len(ev) : DlAfter(ev, la, rv, ra, m, cut, i), DlApart(ev),
         NEW H, NEW a, DlTimed(H, a), DlEnds(ev, la, H, a, m)
  PROVE  DlApart(rv)
<1>1. ASSUME NEW i \in 1..Len(rv), NEW j \in 1..Len(rv), i < j, rv[i].level = rv[j].level
      PROVE  rv[i].end <= rv[j].begin
  <2>1. i \in 1..Len(ev) /\ j \in 1..Len(ev)
    OBVIOUS
  <2>2. /\ rv[i].level = ev[i].level /\ rv[j].level = ev[j].level /\ rv[j].begin = ev[j].begin
        /\ rv[i].end <= ev[i].end /\ rv[i].end \in Int /\ ev[i].end \in Int /\ ev[j].begin \in Nat
    BY <2>1 DEF DlAfter, DlEv
  <2>3. ev[i].end <= ev[j].begin
    BY <1>1, <2>1, <2>2 DEF DlApart
  <2>4. QED
    BY <2>2, <2>3
<1>2. ASSUME NEW i \in 1..Len(rv) PROVE rv[i].begin < rv[i].end
  <2> DEFINE l == ev[i].level
             t == la[top]
             c == cut[l]
  <2>1. /\ i \in 1..Len(ev) /\ ev[i].begin < ev[i].end /\ rv[i].begin = ev[i].begin
        /\ ev[i].begin \in Nat /\ ev[i].end \in Int /\ l \in DlLevels /\ l \in Nat
    BY DepthIsNat DEF DlApart, DlAfter, DlEv
  <2>2. CASE ~(la[l] = i /\ l >= m)
    <3>1. rv[i].end = ev[i].end
      BY <2>1, <2>2 DEF DlAfter
    <3>2. QED
      BY <2>1, <3>1
  <2>3. CASE la[l] = i /\ l >= m
    <3>1. rv[i].end = ev[i].end - DlNs * c /\ c \in Nat /\ la[l] # 0
      BY <2>1, <2>3 DEF DlAfter, DlCutBy
    <3>2. CASE c = 0
      <4>1. DlNs * 0 = 0
        BY DepthIsNat
      <4>2. QED
        BY <2>1, <3>1, <3>2, <4>1
    <3>3. CASE c # 0
      <4>1. l > m
        BY <2>1, <2>3, <3>3 DEF DlCutBy
      <4>2. l <= top /\ t # 0 /\ top \in DlLevels /\ DlNs * (c + 1) <= ev[t].end - ev[t].begin
        BY <4>1, <2>1, <3>1, <3>3 DEF DlCutBy
      <4>3. ev[i].begin <= ev[t].begin /\ t \in 1..Len(ev) /\ ev[t].level = top
        BY <4>2, <2>1, <2>3, <3>1 DEF DlStack
      <4>4. ev[t].begin \in Nat /\ ev[t].end \in Int /\ top \in Nat
        BY <4>2, <4>3, DepthIsNat DEF DlAfter, DlEv
      <4>5. DlAt(l, H, a, m) = a /\ DlAt(top, H, a, m) = a
        BY <4>1, <4>2, <4>4, <2>1 DEF DlAt
      <4>6. ev[t].end = ev[i].end
        BY <4>2, <4>5, <2>1, <2>3, <3>1 DEF DlEnds
      <4>7. c \in Int /\ c + 1 \in Int /\ c < c + 1
        BY <3>1
      <4> HIDE DEF c, l, t
      <4>8. DlNs * c \in Int /\ DlNs * (c + 1) \in Int /\ DlNs * c < DlNs * (c + 1)
        BY <4>7, Scaled
      <4> DEFINE y == DlNs * c
                 z == DlNs * (c + 1)
      <4>9. y \in Int /\ z \in Int /\ y < z /\ z <= ev[i].end - ev[t].begin /\ rv[i].end = ev[i].end - y
        BY <4>2, <4>6, <4>8, <3>1
      <4> HIDE DEF y, z
      <4>10. QED
        BY <4>9, <4>3, <4>4, <2>1
    <3>4. QED
      BY <3>2, <3>3
  <2>4. QED
    BY <2>2, <2>3
<1>3. QED
  BY <1>1, <1>2 DEF DlApart

(* A kernel is still found on an event that is closed: what the event      *)
(* loses is less than its level in nanoseconds.                            *)
LEMMA ResetFound ==
  ASSUME NEW ev, NEW la, NEW f \in {0, 1}, DlStack(ev, la, f), NEW m \in Nat, NEW rv, NEW cut,
         NEW top, NEW ra, DlCutBy(ev, la, rv, m, cut, top),
         Len(rv) = Len(ev), \A i \in 1..Len(ev) : DlAfter(ev, la, rv, ra, m, cut, i),
         NEW H, NEW a, DlTimed(H, a), DlFound(ev, la, H, a, m)
  PROVE  DlFound(rv, ra, H, a, m)
<1>1. SUFFICES ASSUME NEW n \in 1..Len(H), NEW l \in 1..Len(H[n].path), n <= a \/ l < m
               PROVE  DlFoundAt(rv, ra, H[n], l)
  BY DEF DlFound
<1>2. DlFoundAt(ev, la, H[n], l)
  BY <1>1 DEF DlFound
<1>3. PICK i \in 1..Len(ev) :
        /\ ev[i].level = l /\ ev[i].name = H[n].path[l] /\ ev[i].group = H[n].group
        /\ ev[i].begin <= H[n].begin /\ H[n].end < ev[i].end + DlNs * l
        /\ DlOpen(la, i) => H[n].end <= ev[i].end
  BY <1>2, Zenon DEF DlFoundAt
<1>4. /\ H[n].end \in Nat /\ l \in Int /\ l > 0 /\ DlLevels \subseteq Nat
  BY EndsInTime, DepthIsNat
<1>5. DlAfter(ev, la, rv, ra, m, cut, i)
  OBVIOUS
<1>6. /\ rv[i].level = l /\ rv[i].begin = ev[i].begin /\ rv[i].name = ev[i].name
      /\ rv[i].group = ev[i].group /\ rv[i].end \in Int /\ ev[i].end \in Int /\ l \in DlLevels
  BY <1>3, <1>5 DEF DlAfter, DlEv
<1>7. H[n].end < rv[i].end + DlNs * l /\ (DlOpen(ra, i) => H[n].end <= rv[i].end)
  <2>1. CASE la[l] = i /\ l >= m
    <3>1. rv[i].end = ev[i].end - DlNs * cut[l] /\ DlOpen(la, i) /\ ~DlOpen(ra, i)
      BY <2>1, <1>3, <1>4, <1>5, <1>6 DEF DlAfter
    <3>2. cut[l] \in Nat /\ (cut[l] = 0 \/ cut[l] <= l - 1)
      BY <1>6 DEF DlCutBy
    <3>3. cut[l] \in Int /\ cut[l] < l
      BY <3>2, <1>4
    <3>4. DlNs * cut[l] < DlNs * l /\ DlNs * cut[l] \in Int /\ DlNs * l \in Int
      BY <3>3, <1>4, Scaled
    <3>5. H[n].end <= ev[i].end
      BY <3>1, <1>3
    <3>6. QED
      BY <3>1, <3>4, <3>5, <1>4, <1>6
  <2>2. CASE ~(la[l] = i /\ l >= m)
    <3>1. rv[i].end = ev[i].end /\ (DlOpen(ra, i) => DlOpen(la, i))
      BY <2>2, <1>3, <1>4, <1>5 DEF DlAfter
    <3>2. QED
      BY <3>1, <1>3
  <2>3. QED
    BY <2>1, <2>2
<1>8. QED
  BY <1>3, <1>6, <1>7 DEF DlFoundAt

(* What was outgrown before its parent loses x nanoseconds and is closed   *)
(* lies within it still, or the kernel that did it is short.               *)
LEMMA OutgrownSettles ==
  ASSUME NEW H, NEW a, DlTimed(H, a), NEW c, NEW p, NEW q, NEW x \in Nat,
         DlOutgrown(c, p, H), c.level \in Nat, c.level >= 1, p.level = c.level - 1,
         x = 0 \/ x <= p.level - 1, q.end = p.end - DlNs * x, q.begin = p.begin,
         c.begin \in Int, c.end \in Int, p.end \in Int
  PROVE  DlSettled(c, q, H)
<1>1. PICK n \in 1..Len(H) : /\ H[n].end = p.end /\ c.end <= H[n].begin /\ c.begin <= H[n].begin
                             /\ p.level <= Len(H[n].path)
  BY DEF DlOutgrown
<1> DEFINE b == H[n].begin
           e == H[n].end
           w == Len(H[n].path)
           l == c.level
<1>2. b \in Nat /\ e \in Nat /\ b < e /\ w \in Nat
  BY EndsInTime
<1>3. l \in Nat /\ l >= 1 /\ l - 1 <= w /\ (x = 0 \/ x <= l - 2) /\ c.end <= b /\ c.begin <= b /\ e = p.end
  BY <1>1
<1>4. DlNs * x \in Int /\ q.end = e - DlNs * x
  BY <1>3, Scaled
<1> HIDE DEF b, e, w, l
<1>5. c.end <= q.end \/ (c.end <= b /\ e - b < DlNs * (l - 2))
  <2>1. CASE x = 0
    <3>1. DlNs * x = 0
      BY <2>1, Scaled
    <3>2. QED
      BY <3>1, <1>2, <1>3, <1>4
  <2>2. CASE x # 0
    <3>1. DlNs * x <= DlNs * (l - 2) /\ DlNs * (l - 2) \in Int
      <4>1. l - 2 \in Int /\ x \in Int /\ x <= l - 2
        BY <2>2, <1>3
      <4>2. QED
        BY <4>1, Scaled
    <3>2. QED
      BY <3>1, <1>2, <1>3, <1>4
  <2>3. QED
    BY <2>1, <2>2
<1>6. ASSUME l >= 2, c.end = q.end
      PROVE  e - b < DlNs * (w + 1) /\ b < c.end + DlNs * w
  <2>1. x <= w
    BY <1>6, <1>3, <1>2
  <2>2. DlNs * x <= DlNs * w /\ DlNs * w \in Int
    <3>1. x \in Int /\ w \in Int /\ x <= w
      BY <2>1, <1>2
    <3>2. QED
      BY <3>1, Scaled
  <2>3. DlNs * w < DlNs * (w + 1) /\ DlNs * (w + 1) \in Int
    <3>1. w \in Int /\ w + 1 \in Int /\ w < w + 1
      BY <1>2
    <3>2. QED
      BY <3>1, Scaled
  <2>4. QED
    BY <2>2, <2>3, <1>2, <1>3, <1>4, <1>6
<1>7. QED
  BY <1>3, <1>5, <1>6 DEF DlSettled, b, e, w, l

(* Two events of a stack that are closed together.                         *)
LEMMA StackSettles ==
  ASSUME NEW ev, NEW la, NEW f \in {0, 1}, DlStack(ev, la, f), NEW m \in Nat, f <= m, NEW rv, NEW cut,
         NEW top, NEW ra, DlCutBy(ev, la, rv, m, cut, top),
         \A i \in 1..Len(ev) : DlAfter(ev, la, rv, ra, m, cut, i),
         NEW H, NEW a, DlTimed(H, a), DlEnds(ev, la, H, a, m),
         NEW l \in DlLevels, l > m, la[l] # 0, la[l - 1] # 0
  PROVE  DlSettled(rv[la[l]], rv[la[l - 1]], H)
<1> DEFINE i == la[l]
           j == la[l - 1]
           E == H[a].end
           t == la[top]
<1>1. l \in Nat /\ l >= 1 /\ l - 1 \in DlLevels /\ l - 1 >= m /\ DlLevels \subseteq Nat
  BY DepthIsNat
<1>2. i \in 1..Len(ev) /\ j \in 1..Len(ev) /\ ev[i].level = l /\ ev[j].level = l - 1
  BY <1>1 DEF DlStack
<1>3. /\ top \in DlLevels /\ cut \in [DlLevels -> Nat]
      /\ cut[l - 1] = 0 \/ cut[l - 1] <= l - 2
      /\ l <= top /\ la[top] # 0 /\ cut[l - 1] <= cut[l]
      /\ l >= 2 /\ cut[l - 1] = cut[l] /\ DlSpan(ev[la[l]]) = DlSpan(ev[la[l - 1]]) =>
           ev[la[top]].end - ev[la[top]].begin < DlNs * (cut[l] + 2)
  <2>1. /\ top \in DlLevels /\ cut \in [DlLevels -> Nat]
        /\ \A o \in DlLevels : cut[o] = 0 \/ cut[o] <= o - 1
    BY DEF DlCutBy
  <2>2. /\ l <= top /\ la[top] # 0 /\ cut[l - 1] <= cut[l]
        /\ l >= 2 /\ cut[l - 1] = cut[l] /\ DlSpan(ev[la[l]]) = DlSpan(ev[la[l - 1]]) =>
             ev[la[top]].end - ev[la[top]].begin < DlNs * (cut[l] + 2)
    BY DEF DlCutBy
  <2>3. cut[l - 1] = 0 \/ cut[l - 1] <= l - 2
    BY <2>1, <1>1
  <2>4. QED
    BY <2>1, <2>2, <2>3
<1>4. top \in Nat /\ top > m /\ t \in 1..Len(ev) /\ ev[t] \in DlEv
  BY <1>1, <1>3 DEF DlStack
<1>5. ev[i].end = E /\ ev[j].end = E /\ ev[t].end = E
  BY <1>1, <1>3, <1>4 DEF DlEnds, DlAt
<1>6. /\ rv[i].level = l /\ rv[i].begin = ev[i].begin /\ rv[j].begin = ev[j].begin
      /\ rv[i].end = E - DlNs * cut[l] /\ rv[j].end = E - DlNs * cut[l - 1]
  <2>1. DlAfter(ev, la, rv, ra, m, cut, i) /\ DlAfter(ev, la, rv, ra, m, cut, j)
    BY <1>2
  <2>2. l >= m /\ l - 1 >= m
    BY <1>1
  <2>3. QED
    BY <2>1, <2>2, <1>2, <1>5 DEF DlAfter
<1>7. ev[i].begin <= ev[t].begin
  BY <1>3 DEF DlStack
<1>8. E \in Int /\ ev[t].begin \in Nat /\ ev[i].begin \in Nat
  <2>1. ev[i] \in DlEv
    BY <1>2 DEF DlStack
  <2>2. QED
    BY <2>1, <1>4, <1>5 DEF DlEv
<1>9. cut[l] \in Nat /\ cut[l - 1] \in Nat
  BY <1>1, <1>3
<1> HIDE DEF i, j, E, t
<1>10. DlNs * cut[l] \in Int /\ DlNs * cut[l - 1] \in Int /\ DlNs * cut[l - 1] <= DlNs * cut[l]
  <2> DEFINE c == cut[l]
             d == cut[l - 1]
  <2>1. c \in Int /\ d \in Int /\ d <= c
    BY <1>9, <1>3
  <2> HIDE DEF c, d
  <2>2. DlNs * c \in Int /\ DlNs * d \in Int /\ DlNs * d <= DlNs * c
    BY <2>1, Scaled
  <2>3. QED
    BY <2>2 DEF c, d
<1>11. rv[i].end <= rv[j].end
  BY <1>6, <1>8, <1>10
<1>12. ASSUME l >= 2, rv[i].begin = rv[j].begin, rv[i].end = rv[j].end
       PROVE  \E n \in 1..Len(H) : /\ H[n].end - H[n].begin < DlNs * (Len(H[n].path) + 1)
                                   /\ rv[i].begin <= H[n].begin
                                   /\ H[n].begin < rv[i].end + DlNs * Len(H[n].path)
  <2>1. cut[l - 1] = cut[l]
    <3> DEFINE c == cut[l]
               d == cut[l - 1]
    <3>1. c \in Int /\ d \in Int /\ d <= c /\ DlNs * c = DlNs * d
      BY <1>9, <1>3, <1>6, <1>8, <1>10, <1>12
    <3> HIDE DEF c, d
    <3>2. d < c => DlNs * d < DlNs * c /\ DlNs * d \in Int
      BY <3>1, Scaled
    <3>3. c = d
      BY <3>1, <3>2
    <3>4. QED
      BY <3>3 DEF c, d
  <2>2. DlSpan(ev[la[l]]) = DlSpan(ev[la[l - 1]])
    BY <1>5, <1>6, <1>12 DEF DlSpan, i, j
  <2>3. ev[t].end - ev[t].begin < DlNs * (cut[l] + 2)
    BY <1>3, <1>12, <2>1, <2>2 DEF t
  <2>4. PICK n \in 1..Len(H) : /\ H[n].begin = ev[t].begin /\ H[n].end <= ev[t].end
                               /\ top <= Len(H[n].path)
    BY <1>3 DEF DlEnds, t
  <2> DEFINE b == H[n].begin
             e == H[n].end
             w == Len(H[n].path)
             x == cut[l]
  <2>5. b \in Nat /\ e \in Nat /\ b < e /\ w \in Nat /\ b = ev[t].begin /\ e <= E /\ l <= w
    BY <2>4, EndsInTime, <1>5, <1>3, <1>4
  <2>6. x \in Nat /\ x <= l - 2 /\ E - b < DlNs * (x + 2) /\ rv[i].end = E - DlNs * x
    <3>1. x \in Nat /\ x <= l - 2
      BY <1>3, <1>9, <2>1, <1>12, <1>1
    <3>2. E - b < DlNs * (x + 2)
      BY <2>3, <2>5, <1>5
    <3>3. rv[i].end = E - DlNs * x
      BY <1>6
    <3>4. QED
      BY <3>1, <3>2, <3>3
  <2> HIDE DEF b, e, w, x
  <2>7. x + 2 < w + 1 /\ x + 2 \in Int /\ w + 1 \in Int
    BY <2>5, <2>6, <1>1
  <2>8. DlNs * (x + 2) < DlNs * (w + 1) /\ DlNs * (x + 2) \in Int /\ DlNs * (w + 1) \in Int
    BY <2>7, Scaled
  <2>9. x <= w /\ x \in Int /\ w \in Int
    BY <2>5, <2>6, <1>1
  <2>10. DlNs * x <= DlNs * w /\ DlNs * x \in Int /\ DlNs * w \in Int
    BY <2>9, Scaled
  <2>11. /\ e - b < DlNs * (w + 1) /\ rv[i].begin <= b
         /\ b < rv[i].end + DlNs * w
    <3>1. e - b < DlNs * (w + 1)
      <4> DEFINE y == DlNs * (x + 2)
                 z == DlNs * (w + 1)
      <4>1. y \in Int /\ z \in Int /\ y < z /\ E - b < y
        BY <2>6, <2>8
      <4> HIDE DEF y, z
      <4>2. e - b < z
        BY <4>1, <2>5, <1>8
      <4>3. QED
        BY <4>2 DEF z
    <3>2. rv[i].begin <= b
      BY <2>5, <1>6, <1>7
    <3>3. b < rv[i].end + DlNs * w
      BY <2>5, <2>6, <2>10, <1>8
    <3>4. QED
      BY <3>1, <3>2, <3>3
  <2>12. QED
    BY <2>11 DEF b, e, w
<1>13. DlSettled(rv[i], rv[j], H)
  BY <1>6, <1>11, <1>12 DEF DlSettled
<1>14. QED
  BY <1>13 DEF i, j

(* A reset keeps the tree.                                                 *)
LEMMA ResetTree ==
  ASSUME NEW ev, NEW la, NEW f \in {0, 1}, DlStack(ev, la, f), NEW m \in Nat, f <= m, NEW rv, NEW cut,
         NEW top, NEW ra, DlCutBy(ev, la, rv, m, cut, top), Len(rv) = Len(ev),
         \A i \in 1..Len(ev) : DlAfter(ev, la, rv, ra, m, cut, i),
         NEW H, NEW a, DlTimed(H, a), DlEnds(ev, la, H, a, m), DlTree(ev, la, H, f),
         m > f => a < Len(H) /\ m - 1 <= Len(H[Len(H)].path)
  PROVE  DlTree(rv, ra, H, f)
<1>1. Len(ev) \in Nat /\ ev \in Seq(DlEv) /\ la \in [DlLevels -> 0..Len(ev)] /\ cut \in [DlLevels -> Nat]
  BY DEF DlStack, DlCutBy
<1>2. SUFFICES ASSUME NEW i \in 1..Len(ev)
               PROVE  /\ f <= rv[i].level
                      /\ rv[i].parent # 0 =>
                           /\ rv[i].parent \in 1..i - 1
                           /\ rv[rv[i].parent].level = rv[i].level - 1
                           /\ rv[rv[i].parent].begin <= rv[i].begin
                           /\ DlOpen(ra, rv[i].parent) =>
                                DlOpen(ra, i) \/ DlOutgrown(rv[i], rv[rv[i].parent], H)
                           /\ ~DlOpen(ra, rv[i].parent) => DlSettled(rv[i], rv[rv[i].parent], H)
  BY DEF DlTree
<1>3. DlAfter(ev, la, rv, ra, m, cut, i)
  OBVIOUS
<1>4. rv[i].level = ev[i].level /\ rv[i].parent = ev[i].parent /\ rv[i].begin = ev[i].begin
  BY <1>3 DEF DlAfter
<1>5. f <= ev[i].level
  BY DEF DlTree
<1>6. CASE ev[i].parent = 0
  BY <1>4, <1>5, <1>6
<1>7. CASE ev[i].parent # 0
  <2> DEFINE j == ev[i].parent
             l == ev[i].level
  <2>1. /\ j \in 1..i - 1 /\ ev[j].level = l - 1 /\ ev[j].begin <= ev[i].begin
        /\ DlOpen(la, j) => DlOpen(la, i) \/ DlOutgrown(ev[i], ev[j], H)
        /\ ~DlOpen(la, j) => DlSettled(ev[i], ev[j], H)
    BY <1>7 DEF DlTree
  <2>2. j \in 1..Len(ev)
    BY <2>1, <1>1
  <2>3. DlAfter(ev, la, rv, ra, m, cut, j)
    BY <2>2
  <2>4. f <= l - 1
    BY <2>1, <2>2 DEF DlTree
  <2>5. /\ ev[i] \in DlEv /\ ev[j] \in DlEv /\ rv[i] \in DlEv /\ rv[j] \in DlEv
        /\ rv[j].level = l - 1 /\ rv[j].begin = ev[j].begin /\ rv[i].level = l
        /\ DlOpen(la, i) <=> la[l] = i
        /\ DlOpen(la, j) <=> la[l - 1] = j
        /\ DlOpen(ra, i) <=> la[l] = i /\ l < m
        /\ DlOpen(ra, j) <=> la[l - 1] = j /\ l - 1 < m
    BY <1>3, <2>1, <2>3 DEF DlAfter
  <2>6. l \in DlLevels /\ l \in Nat /\ l >= 1 /\ l - 1 \in DlLevels /\ DlLevels \subseteq Nat
    <3>1. l \in DlLevels /\ ev[j].level \in DlLevels
      BY <2>5 DEF DlEv
    <3>2. QED
      BY <3>1, <2>1, <2>4, DepthIsNat
  <2>7. /\ la[l] = i => la[l - 1] = j
    BY <2>4, <2>6, <1>1 DEF DlStack
  <2>8. ~(la[l] = i /\ l >= m) => rv[i].end = ev[i].end
    BY <1>3 DEF DlAfter
  <2>9. ~(la[l - 1] = j /\ l - 1 >= m) => rv[j].end = ev[j].end
    BY <2>1, <2>3 DEF DlAfter
  <2> HIDE DEF j, l
  <2>10. ASSUME DlOpen(ra, j) PROVE DlOpen(ra, i) \/ DlOutgrown(rv[i], rv[j], H)
    <3>1. la[l - 1] = j /\ l - 1 < m /\ DlOpen(la, j) /\ rv[j].end = ev[j].end
      BY <2>5, <2>6, <2>9, <2>10
    <3>2. CASE la[l] = i /\ l >= m
      <4>1. l = m /\ m > f
        BY <3>1, <3>2, <2>4, <2>6
      <4>2. a < Len(H) /\ m - 1 <= Len(H[Len(H)].path)
        BY <4>1
      <4>3. cut[l] = 0
        BY <4>1, <2>6 DEF DlCutBy
      <4>4. rv[i].end = ev[i].end
        <5>1. rv[i].end = ev[i].end - DlNs * cut[l]
          BY <1>3, <3>2 DEF DlAfter, l
        <5>2. DlNs * cut[l] = 0
          BY <4>3, Scaled
        <5>3. QED
          BY <5>1, <5>2, <2>5 DEF DlEv
      <4>5. /\ ev[i].end = H[a].end /\ a > 0 /\ ev[i].begin < H[a].end
        <5>1. la[l] # 0 /\ ev[la[l]].end = H[DlAt(l, H, a, m)].end /\ DlAt(l, H, a, m) = a
          BY <3>2, <4>1, <2>6 DEF DlEnds, DlAt
        <5>2. DlAt(l, H, a, m) > 0 /\ ev[i].begin < H[DlAt(l, H, a, m)].end
          BY DEF DlEnds, l
        <5>3. QED
          BY <5>1, <5>2, <3>2
      <4>6. ev[j].end = H[Len(H)].end
        <5>1. la[l - 1] # 0 /\ DlAt(l - 1, H, a, m) = Len(H)
          BY <3>1, <2>1, <2>2 DEF DlAt
        <5>2. ev[la[l - 1]].end = H[DlAt(l - 1, H, a, m)].end
          BY <5>1, <2>6 DEF DlEnds
        <5>3. QED
          BY <5>1, <5>2, <3>1
      <4>7. a \in 1..Len(H) /\ Len(H) \in 1..Len(H) /\ a < Len(H)
        BY <4>2, <4>5 DEF DlTimed
      <4>8. H[a].end <= H[Len(H)].begin /\ H[a].end \in Nat /\ H[Len(H)].begin \in Nat
        <5>1. H[a].end <= H[Len(H)].begin
          BY <4>7 DEF DlTimed
        <5>2. QED
          BY <5>1, <4>7, EndsInTime
      <4>9. ev[i].begin \in Nat
        BY <2>5 DEF DlEv
      <4>10. /\ H[Len(H)].end = rv[j].end /\ rv[i].end <= H[Len(H)].begin
             /\ rv[i].begin <= H[Len(H)].begin /\ rv[j].level <= Len(H[Len(H)].path)
        BY <4>1, <4>2, <4>4, <4>5, <4>6, <4>8, <4>9, <3>1, <2>5, <1>4
      <4>11. QED
        BY <4>7, <4>10 DEF DlOutgrown
    <3>3. CASE la[l] = i /\ l < m
      BY <3>3, <2>5
    <3>4. CASE la[l] # i
      <4>1. DlOutgrown(ev[i], ev[j], H)
        BY <3>1, <3>4, <2>1, <2>5
      <4>2. rv[i].end = ev[i].end
        BY <3>4, <2>8
      <4>3. QED
        BY <4>1, <4>2, <3>1, <1>4, <2>5, <2>1 DEF DlOutgrown
    <3>5. QED
      BY <3>2, <3>3, <3>4, <2>6
  <2>11. ASSUME ~DlOpen(ra, j) PROVE DlSettled(rv[i], rv[j], H)
    <3>1. CASE la[l - 1] # j
      <4>1. DlSettled(ev[i], ev[j], H)
        BY <3>1, <2>1, <2>5
      <4>2. rv[i].end = ev[i].end /\ rv[j].end = ev[j].end
        BY <3>1, <2>7, <2>8, <2>9
      <4>3. QED
        BY <4>1, <4>2, <1>4, <2>5 DEF DlSettled, l
    <3>2. CASE la[l - 1] = j /\ la[l] = i
      <4>1. l - 1 >= m
        BY <3>2, <2>5, <2>11, <2>6
      <4>2. l > m /\ la[l] # 0 /\ la[l - 1] # 0
        BY <4>1, <3>2, <2>6, <2>2, <1>1
      <4>3. DlSettled(rv[la[l]], rv[la[l - 1]], H)
        BY <4>2, <2>6, StackSettles
      <4>4. QED
        BY <4>3, <3>2
    <3>3. CASE la[l - 1] = j /\ la[l] # i
      <4>1. l - 1 >= m
        BY <3>3, <2>5, <2>11, <2>6
      <4>2. DlOutgrown(ev[i], ev[j], H)
        BY <3>3, <2>1, <2>5
      <4>3. rv[i].end = ev[i].end
        BY <3>3, <2>8
      <4>4. rv[j].end = ev[j].end - DlNs * cut[l - 1]
        BY <2>3, <2>1, <3>3, <4>1 DEF DlAfter
      <4>5. cut[l - 1] \in Nat /\ (cut[l - 1] = 0 \/ cut[l - 1] <= (l - 1) - 1)
        BY <2>6 DEF DlCutBy
      <4>6. DlOutgrown(rv[i], ev[j], H)
        BY <4>2, <4>3, <1>4 DEF DlOutgrown
      <4>7. /\ rv[i].begin \in Int /\ rv[i].end \in Int /\ ev[j].end \in Int
            /\ rv[i].level = l /\ ev[j].level = l - 1 /\ rv[j].begin = ev[j].begin
        BY <2>5, <2>1 DEF DlEv
      <4> DEFINE c == rv[i]
                 p == ev[j]
                 q == rv[j]
                 x == cut[l - 1]
      <4>8. /\ x \in Nat /\ DlOutgrown(c, p, H) /\ c.level \in Nat /\ c.level >= 1
            /\ p.level = c.level - 1 /\ (x = 0 \/ x <= p.level - 1)
            /\ q.end = p.end - DlNs * x /\ q.begin = p.begin
            /\ c.begin \in Int /\ c.end \in Int /\ p.end \in Int
        BY <4>4, <4>5, <4>6, <4>7, <2>6
      <4> HIDE DEF c, p, q, x
      <4>9. DlSettled(c, q, H)
        BY <4>8, OutgrownSettles
      <4>10. QED
        BY <4>9 DEF c, q
    <3>4. QED
      BY <3>1, <3>2, <3>3
  <2>12. QED
    BY <2>1, <2>4, <2>5, <2>10, <2>11, <1>4, <1>5 DEF j, l
<1>8. QED
  BY <1>6, <1>7

(* ResetLastEvents keeps the lines.                                        *)
LEMMA ResetLines ==
  ASSUME NEW s, NEW f \in {0, 1}, NEW L \in Nat, NEW m \in Nat, m = (IF L < f THEN f ELSE L),
         NEW H, NEW a, DlLines(s, H, a, m, f),
         m > f => a < Len(H) /\ m - 1 <= Len(H[Len(H)].path)
  PROVE  /\ DlLines(DlReset(s, L), H, a, m, f)
         /\ \A l \in DlLevels : DlReset(s, L).last[l] = IF l < m THEN s.last[l] ELSE 0
<1> DEFINE A == IF L = 0 THEN 1 ELSE L
           ev == s.events
           la == s.last
           rv == DlAdjust(s, A)
           ra == [l \in DlLevels |-> IF l < m THEN la[l] ELSE 0]
<1>1. A \in Nat /\ A = (IF m = 0 THEN 1 ELSE m) /\ f <= m
  OBVIOUS
<1>2. DlTimed(H, a) /\ DlStack(ev, la, f) /\ DlEnds(ev, la, H, a, m) /\ DlApart(ev)
      /\ DlTree(ev, la, H, f) /\ DlFound(ev, la, H, a, m)
  BY DEF DlLines
<1>3. DlReset(s, L) = [events |-> rv, last |-> ra]
  <2>1. \A l \in DlLevels : (IF l < L THEN la[l] ELSE 0) = IF l < m THEN la[l] ELSE 0
    <3>1. SUFFICES ASSUME NEW l \in DlLevels, L < f, l < f PROVE la[l] = 0
      BY DepthIsNat
    <3>2. l \in Nat
      BY DepthIsNat
    <3>3. QED
      BY <3>1, <3>2, <1>2 DEF DlStack
  <2>2. [l \in DlLevels |-> IF l < L THEN la[l] ELSE 0] = ra
    BY <2>1
  <2>3. QED
    BY <2>2 DEF DlReset
<1>4. PICK cut, top : DlCutBy(ev, la, rv, m, cut, top)
  <2> HIDE DEF A
  <2>1. QED
    BY <1>1, <1>2, AdjustCuts
<1> HIDE DEF A, ev, la, rv
<1>5. ra = [l \in DlLevels |-> IF l < m THEN la[l] ELSE 0]
  OBVIOUS
<1> HIDE DEF ra
<1>6. Len(rv) = Len(ev) /\ \A i \in 1..Len(ev) : DlAfter(ev, la, rv, ra, m, cut, i)
  BY <1>2, <1>4, <1>5, ResetEvents
<1>7. DlStack(rv, ra, f)
  BY <1>2, <1>4, <1>5, ResetStack
<1>8. DlEnds(rv, ra, H, a, m)
  <2>1. \A l \in DlLevels : ra[l] = IF l < m THEN la[l] ELSE 0
    BY <1>5
  <2>2. QED
    BY <2>1, <1>2, <1>6, ResetEnds
<1>9. DlApart(rv)
  BY <1>2, <1>4, <1>6, ResetApart
<1>10. DlTree(rv, ra, H, f)
  BY <1>1, <1>2, <1>4, <1>6, ResetTree
<1>11. DlFound(rv, ra, H, a, m)
  BY <1>2, <1>4, <1>6, ResetFound
<1>12. DlLines([events |-> rv, last |-> ra], H, a, m, f)
  BY <1>2, <1>7, <1>8, <1>9, <1>10, <1>11 DEF DlLines
<1>13. \A l \in DlLevels : ra[l] = IF l < m THEN la[l] ELSE 0
  BY <1>5
<1>14. QED
  BY <1>3, <1>12, <1>13 DEF la

(* The types of an event.                                                  *)
LEMMA EventTypes ==
  ASSUME NEW ev, NEW la, NEW f, DlStack(ev, la, f), NEW i \in 1..Len(ev)
  PROVE  /\ ev[i] \in DlEv /\ ev[i].level \in DlLevels /\ ev[i].level \in Nat
         /\ ev[i].begin \in Nat /\ ev[i].end \in Int /\ ev[i].parent \in Nat /\ Len(ev) \in Nat
<1>1. ev \in Seq(DlEv)
  BY DEF DlStack
<1>2. ev[i] \in DlEv /\ Len(ev) \in Nat
  BY <1>1
<1>3. DlLevels \subseteq Nat
  BY DepthIsNat
<1>4. QED
  BY <1>2, <1>3 DEF DlEv

(* One event of the stack is extended. *)
DlGrown(ev, rv, j, e) ==
  /\ rv \in Seq(DlEv) /\ Len(rv) = Len(ev)
  /\ \A i \in 1..Len(ev) :
       /\ rv[i].level = ev[i].level /\ rv[i].parent = ev[i].parent /\ rv[i].begin = ev[i].begin
       /\ rv[i].name = ev[i].name /\ rv[i].group = ev[i].group
       /\ rv[i].end = IF i = j THEN e ELSE ev[i].end

(* The kernel k is at level m. *)
DlEnters(H, a, m, f) ==
  /\ a + 1 = Len(H) /\ m \in DlLevels /\ f <= m /\ m <= Len(H[Len(H)].path)

(* The last kernel begins after those before it end.                       *)
LEMMA EntersInTime ==
  ASSUME NEW H, NEW a, DlTimed(H, a), NEW m, NEW f \in {0, 1}, DlEnters(H, a, m, f)
  PROVE  /\ Len(H) \in 1..Len(H) /\ a \in Nat /\ a < Len(H) /\ Len(H) \in Nat /\ m \in Nat /\ m <= DlDepth
         /\ H[Len(H)].begin \in Nat /\ H[Len(H)].end \in Nat /\ H[Len(H)].begin < H[Len(H)].end
         /\ a > 0 => H[a].end \in Nat /\ H[a].end <= H[Len(H)].begin
         /\ \A n \in 1..Len(H) : H[n].begin <= H[Len(H)].begin /\ H[n].end <= H[Len(H)].end
<1>1. Len(H) \in Nat /\ a \in Nat /\ a + 1 = Len(H) /\ m \in Nat /\ m <= DlDepth
  BY DepthIsNat DEF DlEnters, DlTimed
<1>2. Len(H) \in 1..Len(H) /\ a < Len(H)
  BY <1>1
<1>3. \A n \in 1..Len(H) : H[n].begin \in Nat /\ H[n].end \in Nat /\ H[n].begin < H[n].end
  BY EndsInTime
<1>4. \A n \in 1..Len(H) : n < Len(H) => H[n].end <= H[Len(H)].begin
  BY <1>2 DEF DlTimed
<1>5. a > 0 => H[a].end \in Nat /\ H[a].end <= H[Len(H)].begin
  BY <1>1, <1>2, <1>3, <1>4
<1>6. \A n \in 1..Len(H) : H[n].begin <= H[Len(H)].begin /\ H[n].end <= H[Len(H)].end
  BY <1>1, <1>2, <1>3, <1>4
<1>7. QED
  BY <1>1, <1>2, <1>3, <1>5, <1>6

(* An event of a level that the kernel has not reached ends before it.     *)
LEMMA EndsBefore ==
  ASSUME NEW ev, NEW la, NEW f \in {0, 1}, DlStack(ev, la, f), NEW H, NEW a, DlTimed(H, a), NEW m,
         DlEnters(H, a, m, f), DlEnds(ev, la, H, a, m), NEW i \in 1..Len(ev), ev[i].level >= m
  PROVE  a > 0 /\ ev[i].begin < H[a].end /\ ev[i].end <= H[a].end
<1>1. ev[i].level \in Nat /\ m \in Nat
  BY EventTypes, EntersInTime
<1>2. DlAt(ev[i].level, H, a, m) = a
  BY <1>1 DEF DlAt
<1>3. QED
  BY <1>2 DEF DlEnds

(* The open event of a level is its latest one: no other is after it.      *)
LEMMA LastOfLevel ==
  ASSUME NEW ev, NEW la, NEW f \in {0, 1}, DlStack(ev, la, f), NEW H, NEW a, DlTimed(H, a), NEW m,
         DlEnters(H, a, m, f), DlEnds(ev, la, H, a, m), DlApart(ev), la[m] # 0,
         NEW i \in 1..Len(ev), ev[i].level = m, la[m] < i
  PROVE  FALSE
<1>1. m \in DlLevels /\ m \in Nat
  BY EntersInTime DEF DlEnters
<1>2. la[m] \in 1..Len(ev) /\ ev[la[m]].level = m
  BY <1>1 DEF DlStack
<1>3. ev[la[m]].end <= ev[i].begin
  BY <1>2 DEF DlApart
<1>4. ev[la[m]].end = H[a].end
  BY <1>1 DEF DlEnds, DlAt
<1>5. a > 0 /\ ev[i].begin < H[a].end
  BY <1>1, EndsBefore
<1>6. H[a].end \in Nat /\ ev[i].begin \in Nat
  BY <1>5, EventTypes, EntersInTime
<1>7. QED
  BY <1>3, <1>4, <1>5, <1>6

(* An event of the stack is extended by the kernel: the ends,              *)
LEMMA GrownEnds ==
  ASSUME NEW ev, NEW la, NEW f \in {0, 1}, DlStack(ev, la, f), NEW H, NEW a, DlTimed(H, a), NEW m,
         DlEnters(H, a, m, f), DlEnds(ev, la, H, a, m), la[m] # 0,
         NEW rv, DlGrown(ev, rv, la[m], H[Len(H)].end)
  PROVE  DlEnds(rv, la, H, a, m + 1)
<1>1. /\ m \in DlLevels /\ m \in Nat /\ Len(H) \in 1..Len(H) /\ a \in Nat /\ a < Len(H)
      /\ H[Len(H)].end \in Nat /\ H[Len(H)].begin \in Nat /\ H[Len(H)].begin < H[Len(H)].end
      /\ a > 0 => H[a].end \in Nat /\ H[a].end <= H[Len(H)].begin /\ DlLevels \subseteq Nat
  BY EntersInTime, DepthIsNat DEF DlEnters
<1>2. Len(rv) = Len(ev) /\ la[m] \in 1..Len(ev) /\ ev[la[m]].level = m /\ DlLevels \subseteq Nat
  BY <1>1, DepthIsNat DEF DlStack, DlGrown
<1>3. ASSUME NEW i \in 1..Len(ev)
      PROVE  /\ DlAt(rv[i].level, H, a, m + 1) > 0
             /\ rv[i].begin < H[DlAt(rv[i].level, H, a, m + 1)].end
             /\ rv[i].end <= H[DlAt(rv[i].level, H, a, m + 1)].end
  <2>1. /\ rv[i].level = ev[i].level /\ rv[i].begin = ev[i].begin
        /\ rv[i].end = IF i = la[m] THEN H[Len(H)].end ELSE ev[i].end
    BY DEF DlGrown
  <2>2. ev[i].level \in Nat /\ ev[i].begin \in Nat /\ ev[i].end \in Int
    BY EventTypes
  <2>3. CASE ev[i].level # m
    <3>1. DlAt(ev[i].level, H, a, m + 1) = DlAt(ev[i].level, H, a, m) /\ i # la[m]
      BY <2>2, <2>3, <1>1, <1>2 DEF DlAt
    <3>2. QED
      BY <3>1, <2>1 DEF DlEnds
  <2>4. CASE ev[i].level = m
    <3>1. DlAt(ev[i].level, H, a, m + 1) = Len(H)
      BY <2>4, <1>1 DEF DlAt
    <3>2. a > 0 /\ ev[i].begin < H[a].end /\ ev[i].end <= H[a].end
      BY <2>4, <1>1, EndsBefore
    <3>3. QED
      BY <3>1, <3>2, <2>1, <2>2, <1>1
  <2>5. QED
    BY <2>3, <2>4
<1>4. ASSUME NEW l \in DlLevels, la[l] # 0
      PROVE  /\ rv[la[l]].end = H[DlAt(l, H, a, m + 1)].end
             /\ \E n \in 1..Len(H) :
                  /\ H[n].begin = rv[la[l]].begin /\ H[n].end <= rv[la[l]].end
                  /\ l <= Len(H[n].path)
  <2>1. la[l] \in 1..Len(ev) /\ ev[la[l]].level = l
    BY <1>4 DEF DlStack
  <2>2. /\ rv[la[l]].begin = ev[la[l]].begin
        /\ rv[la[l]].end = IF la[l] = la[m] THEN H[Len(H)].end ELSE ev[la[l]].end
    BY <2>1 DEF DlGrown
  <2>3. /\ ev[la[l]].end = H[DlAt(l, H, a, m)].end
        /\ \E n \in 1..Len(H) :
             /\ H[n].begin = ev[la[l]].begin /\ H[n].end <= ev[la[l]].end
             /\ l <= Len(H[n].path)
    BY <1>4 DEF DlEnds
  <2>4. CASE l = m
    <3>1. DlAt(l, H, a, m + 1) = Len(H)
      BY <2>4, <1>1 DEF DlAt
    <3>2. \A n \in 1..Len(H) : H[n].end <= H[Len(H)].end
      BY EntersInTime
    <3>3. QED
      BY <3>1, <3>2, <2>2, <2>3, <2>4
  <2>5. CASE l # m
    <3>1. DlAt(l, H, a, m + 1) = DlAt(l, H, a, m) /\ la[l] # la[m]
      BY <2>5, <1>1, <1>2, <2>1 DEF DlAt
    <3>2. QED
      BY <3>1, <2>2, <2>3
  <2>6. QED
    BY <2>4, <2>5
<1>5. QED
  BY <1>2, <1>3, <1>4 DEF DlEnds

(* the stack,                                                              *)
LEMMA GrownStack ==
  ASSUME NEW ev, NEW la, NEW f \in {0, 1}, DlStack(ev, la, f), NEW rv, NEW j, NEW e, DlGrown(ev, rv, j, e)
  PROVE  DlStack(rv, la, f)
<1>1. Len(rv) = Len(ev) /\ rv \in Seq(DlEv) /\ la \in [DlLevels -> 0..Len(rv)]
  BY DEF DlStack, DlGrown
<1>2. \A i \in 1..Len(ev) :
        rv[i].level = ev[i].level /\ rv[i].parent = ev[i].parent /\ rv[i].begin = ev[i].begin
  BY DEF DlGrown
<1>3. \A l \in DlLevels : la[l] # 0 => la[l] \in 1..Len(ev)
  BY DEF DlStack
<1>4. \A l \in DlLevels : la[l] # 0 =>
        /\ f <= l /\ rv[la[l]].level = l
        /\ l = f => rv[la[l]].parent = 0
        /\ l > f => la[l - 1] # 0 /\ rv[la[l]].parent = la[l - 1]
  BY <1>2, <1>3 DEF DlStack
<1>5. \A l, o \in DlLevels : l <= o /\ la[l] # 0 /\ la[o] # 0 => rv[la[l]].begin <= rv[la[o]].begin
  BY <1>2, <1>3 DEF DlStack
<1>6. QED
  BY <1>1, <1>4, <1>5 DEF DlStack

(* the events beside it, which all end before it,                          *)
LEMMA GrownApart ==
  ASSUME NEW ev, NEW la, NEW f \in {0, 1}, DlStack(ev, la, f), NEW H, NEW a, DlTimed(H, a), NEW m,
         DlEnters(H, a, m, f), DlEnds(ev, la, H, a, m), DlApart(ev), la[m] # 0,
         NEW rv, DlGrown(ev, rv, la[m], H[Len(H)].end)
  PROVE  DlApart(rv)
<1>1. Len(rv) = Len(ev) /\ ev[la[m]].level = m /\ la[m] \in 1..Len(ev)
  BY DEF DlGrown, DlStack, DlEnters
<1>2. ASSUME NEW i \in 1..Len(rv)
      PROVE  /\ i \in 1..Len(ev) /\ ev[i].level = rv[i].level /\ rv[i].begin = ev[i].begin
             /\ rv[i].end = IF i = la[m] THEN H[Len(H)].end ELSE ev[i].end
  BY <1>1 DEF DlGrown
<1>3. ASSUME NEW i \in 1..Len(rv), NEW j \in 1..Len(rv), i < j, rv[i].level = rv[j].level
      PROVE  rv[i].end <= rv[j].begin
  <2>1. i # la[m]
    <3>1. SUFFICES ASSUME i = la[m] PROVE FALSE
      OBVIOUS
    <3>2. j \in 1..Len(ev) /\ ev[j].level = m /\ la[m] < j
      BY <3>1, <1>1, <1>2, <1>3
    <3>3. QED
      BY <3>2, LastOfLevel
  <2>2. QED
    BY <2>1, <1>2, <1>3 DEF DlApart
<1>4. ASSUME NEW i \in 1..Len(rv) PROVE rv[i].begin < rv[i].end
  <2>1. CASE i # la[m]
    BY <2>1, <1>2 DEF DlApart
  <2>2. CASE i = la[m]
    <3>1. ev[i].level = m /\ m \in Nat
      BY <2>2, <1>1, EntersInTime
    <3>2. a > 0 /\ ev[i].begin < H[a].end
      BY <3>1, <1>2, EndsBefore
    <3>3. /\ H[Len(H)].begin \in Nat /\ H[Len(H)].end \in Nat /\ H[Len(H)].begin < H[Len(H)].end
          /\ H[a].end \in Nat /\ H[a].end <= H[Len(H)].begin
      BY <3>2, EntersInTime
    <3>4. ev[i].begin \in Nat
      BY <1>2, EventTypes
    <3>5. ev[i].begin < H[Len(H)].end
      BY <3>2, <3>3, <3>4
    <3>6. rv[i].begin = ev[i].begin /\ rv[i].end = H[Len(H)].end
      BY <2>2, <1>2
    <3>7. QED
      BY <3>5, <3>6
  <2>3. QED
    BY <2>1, <2>2
<1>5. QED
  BY <1>3, <1>4 DEF DlApart

(* the tree, in which its closed children are outgrown now,                *)
LEMMA GrownTree ==
  ASSUME NEW ev, NEW la, NEW f \in {0, 1}, DlStack(ev, la, f), NEW H, NEW a, DlTimed(H, a), NEW m,
         DlEnters(H, a, m, f), DlEnds(ev, la, H, a, m), DlTree(ev, la, H, f), la[m] # 0,
         NEW rv, DlGrown(ev, rv, la[m], H[Len(H)].end)
  PROVE  DlTree(rv, la, H, f)
<1>1. /\ m \in DlLevels /\ m \in Nat /\ Len(H) \in 1..Len(H)
      /\ H[Len(H)].end \in Nat /\ H[Len(H)].begin \in Nat
      /\ a > 0 => H[a].end \in Nat /\ H[a].end <= H[Len(H)].begin
      /\ f <= m /\ m <= Len(H[Len(H)].path)
  BY EntersInTime DEF DlEnters
<1>2. /\ Len(rv) = Len(ev) /\ la[m] \in 1..Len(ev) /\ ev[la[m]].level = m /\ Len(ev) \in Nat
      /\ m > f => la[m - 1] # 0 /\ ev[la[m]].parent = la[m - 1]
      /\ m = f => ev[la[m]].parent = 0
  BY <1>1 DEF DlStack, DlGrown
<1>3. SUFFICES ASSUME NEW i \in 1..Len(ev)
               PROVE  /\ f <= rv[i].level
                      /\ rv[i].parent # 0 =>
                           /\ rv[i].parent \in 1..i - 1
                           /\ rv[rv[i].parent].level = rv[i].level - 1
                           /\ rv[rv[i].parent].begin <= rv[i].begin
                           /\ DlOpen(la, rv[i].parent) =>
                                DlOpen(la, i) \/ DlOutgrown(rv[i], rv[rv[i].parent], H)
                           /\ ~DlOpen(la, rv[i].parent) => DlSettled(rv[i], rv[rv[i].parent], H)
  BY <1>2 DEF DlTree
<1>4. /\ rv[i].level = ev[i].level /\ rv[i].parent = ev[i].parent /\ rv[i].begin = ev[i].begin
      /\ rv[i].end = IF i = la[m] THEN H[Len(H)].end ELSE ev[i].end
  BY DEF DlGrown
<1>5. f <= ev[i].level
  BY DEF DlTree
<1>6. DlOpen(la, la[m])
  BY <1>1 DEF DlOpen
<1>7. CASE ev[i].parent # 0
  <2> DEFINE j == ev[i].parent
  <2>1. /\ j \in 1..i - 1 /\ ev[j].level = ev[i].level - 1 /\ ev[j].begin <= ev[i].begin
        /\ DlOpen(la, j) => DlOpen(la, i) \/ DlOutgrown(ev[i], ev[j], H)
        /\ ~DlOpen(la, j) => DlSettled(ev[i], ev[j], H)
    BY <1>7 DEF DlTree
  <2>2. j \in 1..Len(ev) /\ j # i
    BY <2>1, <1>2
  <2>3. /\ rv[j].level = ev[j].level /\ rv[j].begin = ev[j].begin
        /\ rv[j].end = IF j = la[m] THEN H[Len(H)].end ELSE ev[j].end
    BY <2>2 DEF DlGrown
  <2>4. ev[i].level \in Nat /\ ev[i].begin \in Nat /\ ev[i].end \in Int
    BY EventTypes
  <2> HIDE DEF j
  <2>5. ASSUME DlOpen(la, j), ~DlOpen(la, i) PROVE DlOutgrown(rv[i], rv[j], H)
    <3>1. DlOutgrown(ev[i], ev[j], H) /\ i # la[m] /\ rv[i].end = ev[i].end
      BY <2>1, <2>5, <1>4, <1>6
    <3>2. CASE j = la[m]
      <4>1. ev[i].level >= m
        BY <3>2, <2>1, <2>4, <1>2, <1>1
      <4>2. a > 0 /\ ev[i].begin < H[a].end /\ ev[i].end <= H[a].end
        BY <4>1, EndsBefore
      <4>3. /\ H[Len(H)].end = rv[j].end /\ rv[i].end <= H[Len(H)].begin
            /\ rv[i].begin <= H[Len(H)].begin /\ rv[j].level <= Len(H[Len(H)].path)
        BY <4>2, <3>1, <3>2, <2>3, <2>4, <1>1, <1>2, <1>4
      <4>4. QED
        BY <4>3, <1>1 DEF DlOutgrown
    <3>3. CASE j # la[m]
      BY <3>1, <3>3, <2>3, <1>4 DEF DlOutgrown
    <3>4. QED
      BY <3>2, <3>3
  <2>6. ASSUME ~DlOpen(la, j) PROVE DlSettled(rv[i], rv[j], H)
    <3>1. j # la[m] /\ DlSettled(ev[i], ev[j], H)
      BY <2>1, <2>6, <1>6
    <3>2. i # la[m]
      <4>1. SUFFICES ASSUME i = la[m] PROVE FALSE
        OBVIOUS
      <4>2. j = la[m - 1] /\ m > f
        BY <4>1, <1>1, <1>2, <1>7 DEF j
      <4>3. m - 1 \in DlLevels
        BY <4>2, <1>1, DepthIsNat
      <4>4. QED
        BY <4>2, <4>3, <2>6 DEF DlOpen
    <3>3. rv[i].end = ev[i].end /\ rv[j].end = ev[j].end
      BY <3>1, <3>2, <2>3, <1>4
    <3>4. QED
      BY <3>1, <3>3, <2>3, <1>4 DEF DlSettled
  <2>7. QED
    BY <2>1, <2>3, <2>5, <2>6, <1>4, <1>5 DEF j
<1>8. QED
  BY <1>4, <1>5, <1>7

(* and the kernel is found on it.                                          *)
LEMMA GrownFound ==
  ASSUME NEW ev, NEW la, NEW f \in {0, 1}, DlStack(ev, la, f), NEW H, NEW a, DlTimed(H, a), NEW m,
         DlEnters(H, a, m, f), DlEnds(ev, la, H, a, m), DlFound(ev, la, H, a, m), la[m] # 0,
         NEW rv, DlGrown(ev, rv, la[m], H[Len(H)].end), ev[la[m]].group = H[Len(H)].group,
         m > 0 => ev[la[m]].name = H[Len(H)].path[m]
  PROVE  DlFound(rv, la, H, a, m + 1)
<1>1. /\ m \in DlLevels /\ m \in Nat /\ Len(H) \in 1..Len(H) /\ a + 1 = Len(H)
      /\ H[Len(H)].end \in Nat /\ H[Len(H)].begin \in Nat /\ a \in Nat
      /\ a > 0 => H[a].end \in Nat /\ H[a].end <= H[Len(H)].begin /\ H[a].end <= H[Len(H)].end
  <2>1. m \in DlLevels /\ a + 1 = Len(H)
    BY DEF DlEnters
  <2>2. /\ Len(H) \in 1..Len(H) /\ a \in Nat /\ m \in Nat
        /\ H[Len(H)].begin \in Nat /\ H[Len(H)].end \in Nat /\ H[Len(H)].begin < H[Len(H)].end
        /\ a > 0 => H[a].end \in Nat /\ H[a].end <= H[Len(H)].begin
    BY EntersInTime
  <2>3. QED
    BY <2>1, <2>2
<1>2. Len(rv) = Len(ev) /\ la[m] \in 1..Len(ev) /\ ev[la[m]].level = m
  BY <1>1 DEF DlStack, DlGrown
<1>3. a > 0 /\ ev[la[m]].begin < H[a].end /\ ev[la[m]].end <= H[a].end
  BY <1>1, <1>2, EndsBefore
<1>4. ASSUME NEW i \in 1..Len(ev)
      PROVE  /\ rv[i].level = ev[i].level /\ rv[i].begin = ev[i].begin
             /\ rv[i].name = ev[i].name /\ rv[i].group = ev[i].group
             /\ ev[i].end <= rv[i].end /\ rv[i].end \in Int /\ ev[i].end \in Int /\ ev[i].begin \in Nat
             /\ i = la[m] => rv[i].end = H[Len(H)].end
  <2>1. /\ rv[i].level = ev[i].level /\ rv[i].begin = ev[i].begin
        /\ rv[i].name = ev[i].name /\ rv[i].group = ev[i].group
        /\ rv[i].end = IF i = la[m] THEN H[Len(H)].end ELSE ev[i].end
    BY DEF DlGrown
  <2>2. ev[i].end \in Int /\ ev[i].begin \in Nat
    BY EventTypes
  <2>3. QED
    BY <2>1, <2>2, <1>1, <1>3
<1>5. SUFFICES ASSUME NEW n \in 1..Len(H), NEW l \in 1..Len(H[n].path), n <= a \/ l < m + 1
               PROVE  DlFoundAt(rv, la, H[n], l)
  BY DEF DlFound
<1>6. H[n].end \in Nat /\ l \in Nat /\ l > 0 /\ DlNs * l \in Int /\ 0 < DlNs * l
  <2>1. H[n].end \in Nat /\ Len(H[n].path) \in Nat
    BY EndsInTime
  <2>2. l \in Int /\ 0 \in Int /\ 0 < l
    BY <2>1
  <2>3. DlNs * l \in Int /\ DlNs * 0 < DlNs * l /\ DlNs * 0 = 0
    BY <2>2, Scaled
  <2>4. QED
    BY <2>1, <2>2, <2>3
<1>7. CASE n <= a \/ l < m
  <2>1. DlFoundAt(ev, la, H[n], l)
    BY <1>7 DEF DlFound
  <2>2. PICK i \in 1..Len(ev) :
          /\ ev[i].level = l /\ ev[i].name = H[n].path[l] /\ ev[i].group = H[n].group
          /\ ev[i].begin <= H[n].begin /\ H[n].end < ev[i].end + DlNs * l
          /\ DlOpen(la, i) => H[n].end <= ev[i].end
    BY <2>1, Zenon DEF DlFoundAt
  <2> DEFINE z == DlNs * l
  <2>3. z \in Int /\ H[n].end < ev[i].end + z
    BY <2>2, <1>6
  <2> HIDE DEF z
  <2>4. H[n].end < rv[i].end + z /\ (DlOpen(la, i) => H[n].end <= rv[i].end)
    <3>1. ev[i].end <= rv[i].end /\ rv[i].end \in Int /\ ev[i].end \in Int /\ H[n].end \in Nat
      BY <1>4, <1>6
    <3>2. H[n].end < rv[i].end + z
      BY <2>3, <3>1
    <3>3. SUFFICES ASSUME DlOpen(la, i) PROVE H[n].end <= rv[i].end
      BY <3>2
    <3>4. H[n].end <= ev[i].end
      BY <2>2, <3>3
    <3>5. QED
      BY <3>1, <3>4
  <2>5. H[n].end < rv[i].end + DlNs * l
    BY <2>4 DEF z
  <2>6. rv[i].level = l /\ rv[i].name = H[n].path[l] /\ rv[i].group = H[n].group /\ rv[i].begin <= H[n].begin
    BY <2>2, <1>4
  <2>7. QED
    BY <2>4, <2>5, <2>6, <1>2 DEF DlFoundAt
<1>8. CASE ~(n <= a \/ l < m)
  <2>1. n = Len(H) /\ l = m /\ m > 0
    BY <1>1, <1>5, <1>6, <1>8
  <2> DEFINE i == la[m]
  <2>2. /\ i \in 1..Len(rv) /\ rv[i].level = l /\ rv[i].name = H[n].path[l]
        /\ rv[i].group = H[n].group /\ rv[i].end = H[n].end /\ rv[i].begin <= H[n].begin
    BY <2>1, <1>1, <1>2, <1>3, <1>4
  <2> HIDE DEF i
  <2> DEFINE z == DlNs * l
  <2>3. z \in Int /\ 0 < z
    BY <1>6
  <2> HIDE DEF z
  <2>4. H[n].end < rv[i].end + z /\ H[n].end <= rv[i].end
    BY <2>2, <2>3, <1>6
  <2>5. H[n].end < rv[i].end + DlNs * l
    BY <2>4 DEF z
  <2>6. QED
    BY <2>2, <2>4, <2>5 DEF DlFoundAt
<1>9. QED
  BY <1>7, <1>8

(* ExpandOrAddLevelEvent, when the event of the level is extended.         *)
LEMMA GrowLines ==
  ASSUME NEW s, NEW f \in {0, 1}, NEW H, NEW a, NEW m, DlLines(s, H, a, m, f), DlEnters(H, a, m, f),
         s.last[m] # 0, s.events[s.last[m]].group = H[Len(H)].group,
         m > 0 => s.events[s.last[m]].name = H[Len(H)].path[m],
         NEW t, t = [s EXCEPT !.events[s.last[m]].end =
                       IF @ > H[Len(H)].end THEN @ ELSE H[Len(H)].end]
  PROVE  DlLines(t, H, a, m + 1, f) /\ t.last = s.last
<1> DEFINE ev == s.events
           la == s.last
           k == H[Len(H)]
           j == la[m]
           rv == t.events
<1>1. /\ s = [events |-> ev, last |-> la] /\ DlTimed(H, a) /\ DlStack(ev, la, f)
      /\ DlEnds(ev, la, H, a, m) /\ DlApart(ev) /\ DlTree(ev, la, H, f) /\ DlFound(ev, la, H, a, m)
  BY DEF DlLines
<1>2. m \in DlLevels /\ m \in Nat
  BY <1>1, EntersInTime DEF DlEnters
<1>3. j \in 1..Len(ev) /\ ev[j].level = m /\ ev \in Seq(DlEv) /\ Len(ev) \in Nat /\ DOMAIN ev = 1..Len(ev)
  BY <1>1, <1>2 DEF DlStack
<1>4. /\ a > 0 /\ ev[j].end <= H[a].end /\ H[a].end \in Nat /\ H[a].end <= k.begin
      /\ k.begin \in Nat /\ k.end \in Nat /\ k.begin < k.end
  <2>1. a > 0 /\ ev[j].end <= H[a].end
    BY <1>1, <1>2, <1>3, EndsBefore
  <2>2. QED
    BY <2>1, <1>1, EntersInTime
<1>5. ev[j] \in DlEv /\ \A i \in 1..Len(ev) : ev[i] \in DlEv
  BY <1>3
<1>6. ev[j].end \in Int /\ ~(ev[j].end > k.end)
  <2>1. ev[j].end \in Int
    BY <1>5 DEF DlEv
  <2>2. QED
    BY <2>1, <1>4
<1>7. t = [events |-> [ev EXCEPT ![j] = [ev[j] EXCEPT !.end = k.end]], last |-> la]
  <2>1. (IF ev[j].end > k.end THEN ev[j].end ELSE k.end) = k.end
    BY <1>6
  <2>2. QED
    BY <2>1, <1>1
<1>8. rv = [ev EXCEPT ![j] = [ev[j] EXCEPT !.end = k.end]] /\ t.last = la
  BY <1>7
<1> HIDE DEF ev, la, k, j, rv
<1>9. DlGrown(ev, rv, j, k.end)
  <2>1. \A i \in 1..Len(ev) : rv[i] = IF i = j THEN [ev[j] EXCEPT !.end = k.end] ELSE ev[i]
    BY <1>3, <1>8
  <2>2. [ev[j] EXCEPT !.end = k.end] \in DlEv
    <3> DEFINE e == k.end
    <3>1. e \in Int /\ ev[j] \in DlEv
      BY <1>4, <1>5
    <3> HIDE DEF e
    <3>2. [ev[j] EXCEPT !.end = e] \in DlEv
      BY <3>1 DEF DlEv
    <3>3. QED
      BY <3>2 DEF e
  <2>3. rv \in Seq(DlEv) /\ Len(rv) = Len(ev)
    BY <1>3, <1>8, <2>2
  <2>4. \A i \in 1..Len(ev) :
          /\ rv[i].level = ev[i].level /\ rv[i].parent = ev[i].parent /\ rv[i].begin = ev[i].begin
          /\ rv[i].name = ev[i].name /\ rv[i].group = ev[i].group
          /\ rv[i].end = IF i = j THEN k.end ELSE ev[i].end
    BY <2>1, <1>3, <1>5 DEF DlEv
  <2>5. QED
    BY <2>3, <2>4 DEF DlGrown
<1>10. /\ la[m] # 0 /\ DlGrown(ev, rv, la[m], H[Len(H)].end) /\ ev[la[m]].group = H[Len(H)].group
       /\ m > 0 => ev[la[m]].name = H[Len(H)].path[m]
  BY <1>9 DEF ev, la, k, j
<1>11. DlStack(rv, la, f)
  BY <1>1, <1>10, GrownStack
<1>12. DlEnds(rv, la, H, a, m + 1)
  BY <1>1, <1>10, GrownEnds
<1>13. DlApart(rv)
  BY <1>1, <1>10, GrownApart
<1>14. DlTree(rv, la, H, f)
  BY <1>1, <1>10, GrownTree
<1>15. DlFound(rv, la, H, a, m + 1)
  BY <1>1, <1>10, GrownFound
<1>16. t = [events |-> rv, last |-> t.last] /\ t.last = la
  BY <1>7, <1>8 DEF rv
<1>17. DlLines(t, H, a, m + 1, f)
  BY <1>1, <1>11, <1>12, <1>13, <1>14, <1>15, <1>16 DEF DlLines, rv
<1>18. QED
  BY <1>16, <1>17 DEF la

(* An event is added to the stack, after a reset. *)
DlAdded(ev, la, rv, ra, m, f, k) ==
  /\ rv \in Seq(DlEv) /\ Len(rv) = Len(ev) + 1
  /\ \A i \in 1..Len(ev) : rv[i] = ev[i]
  /\ LET new == rv[Len(ev) + 1] IN
       /\ new.level = m /\ new.begin = k.begin /\ new.end = k.end /\ new.group = k.group
       /\ m > 0 => new.name = k.path[m]
       /\ new.parent = IF m = f THEN 0 ELSE la[m - 1]
  /\ ra \in [DlLevels -> 0..Len(rv)]
  /\ \A l \in DlLevels : ra[l] = IF l = m THEN Len(ev) + 1 ELSE la[l]
  /\ \A l \in DlLevels : l >= m => la[l] = 0
  /\ m > f => la[m - 1] # 0

(* The new event is open, and so are those that were.                      *)
LEMMA AddedOpen ==
  ASSUME NEW ev, NEW la, NEW f \in {0, 1}, DlStack(ev, la, f), NEW m \in DlLevels,
         NEW rv, NEW ra, NEW k, DlAdded(ev, la, rv, ra, m, f, k)
  PROVE  /\ DlOpen(ra, Len(ev) + 1)
         /\ \A i \in 1..Len(ev) : DlOpen(ra, i) <=> DlOpen(la, i)
<1>1. Len(ev) \in Nat /\ la[m] = 0
  <2>1. m \in Nat
    BY DepthIsNat
  <2>2. QED
    BY <2>1 DEF DlStack, DlAdded
<1>2. \A l \in DlLevels : ra[l] = IF l = m THEN Len(ev) + 1 ELSE la[l]
  BY DEF DlAdded
<1>3. DlOpen(ra, Len(ev) + 1)
  BY <1>2 DEF DlOpen
<1>4. ASSUME NEW i \in 1..Len(ev) PROVE DlOpen(ra, i) <=> DlOpen(la, i)
  <2>1. \A l \in DlLevels : ra[l] = i <=> la[l] = i
    BY <1>1, <1>2
  <2>2. QED
    BY <2>1 DEF DlOpen
<1>5. QED
  BY <1>3, <1>4

(* The new event is under the last one of the level above: the stack,      *)
LEMMA AddedStack ==
  ASSUME NEW ev, NEW la, NEW f \in {0, 1}, DlStack(ev, la, f), NEW H, NEW a, DlTimed(H, a), NEW m,
         DlEnters(H, a, m, f), DlEnds(ev, la, H, a, m),
         NEW rv, NEW ra, DlAdded(ev, la, rv, ra, m, f, H[Len(H)])
  PROVE  DlStack(rv, ra, f)
<1> DEFINE N == Len(ev) + 1
           k == H[Len(H)]
<1>1. m \in DlLevels /\ m \in Nat /\ f <= m /\ DlLevels = 0..DlDepth /\ DlDepth \in Nat /\ Len(ev) \in Nat
  BY EntersInTime, DepthIsNat DEF DlEnters, DlStack
<1>2. /\ rv \in Seq(DlEv) /\ ra \in [DlLevels -> 0..Len(rv)] /\ Len(rv) = N
      /\ \A i \in 1..Len(ev) : rv[i] = ev[i]
      /\ rv[N].level = m /\ rv[N].begin = k.begin /\ rv[N].parent = IF m = f THEN 0 ELSE la[m - 1]
      /\ \A l \in DlLevels : ra[l] = IF l = m THEN N ELSE la[l]
      /\ \A l \in DlLevels : l >= m => la[l] = 0
      /\ m > f => la[m - 1] # 0
  BY DEF DlAdded
<1> HIDE DEF N, k
<1>3. \A l \in DlLevels : ra[l] # 0 => \/ l = m /\ ra[l] = N
                                       \/ l < m /\ ra[l] = la[l] /\ la[l] \in 1..Len(ev)
  <2>1. \A l \in DlLevels : la[l] # 0 => la[l] \in 1..Len(ev)
    BY DEF DlStack
  <2>2. QED
    BY <2>1, <1>1, <1>2
<1>4. ASSUME NEW l \in DlLevels, ra[l] # 0
      PROVE  /\ f <= l /\ rv[ra[l]].level = l
             /\ l = f => rv[ra[l]].parent = 0
             /\ l > f => ra[l - 1] # 0 /\ rv[ra[l]].parent = ra[l - 1]
  <2>1. CASE l = m /\ ra[l] = N
    <3>1. l > f => l - 1 \in DlLevels /\ ra[l - 1] = la[l - 1]
      BY <2>1, <1>1, <1>2
    <3>2. QED
      BY <2>1, <3>1, <1>1, <1>2
  <2>2. CASE l < m /\ ra[l] = la[l] /\ la[l] \in 1..Len(ev)
    <3>1. /\ f <= l /\ ev[la[l]].level = l
          /\ l = f => ev[la[l]].parent = 0
          /\ l > f => la[l - 1] # 0 /\ ev[la[l]].parent = la[l - 1]
      BY <2>2, <1>4 DEF DlStack
    <3>2. l > f => l - 1 \in DlLevels /\ l - 1 # m /\ ra[l - 1] = la[l - 1]
      BY <2>2, <1>1, <1>2
    <3>3. rv[ra[l]] = ev[la[l]]
      BY <2>2, <1>2
    <3>4. QED
      BY <3>1, <3>2, <3>3
  <2>3. QED
    BY <2>1, <2>2, <1>3, <1>4
<1>5. ASSUME NEW l \in DlLevels, NEW o \in DlLevels, l <= o, ra[l] # 0, ra[o] # 0
      PROVE  rv[ra[l]].begin <= rv[ra[o]].begin
  <2>1. CASE o = m
    <3>1. ra[o] = N /\ rv[ra[o]].begin = k.begin /\ k.begin \in Nat
      BY <2>1, <1>2, EntersInTime DEF k
    <3>2. CASE l = m
      BY <3>1, <3>2, <2>1
    <3>3. CASE l < m
      <4>1. ra[l] = la[l] /\ la[l] \in 1..Len(ev) /\ rv[ra[l]] = ev[la[l]]
        BY <3>3, <1>1, <1>2, <1>3, <1>5
      <4>2. la[l] # 0
        BY <4>1, <1>5
      <4>3. PICK n \in 1..Len(H) : H[n].begin = ev[la[l]].begin
        BY <4>2 DEF DlEnds
      <4>4. H[n].begin <= k.begin
        BY EntersInTime DEF k
      <4>5. QED
        BY <4>1, <4>3, <4>4, <3>1
    <3>4. QED
      BY <3>2, <3>3, <2>1, <1>1, <1>5
  <2>2. CASE o # m
    <3>1. /\ ra[o] = la[o] /\ la[o] \in 1..Len(ev) /\ ra[l] = la[l] /\ la[l] \in 1..Len(ev)
      <4>1. o < m /\ l < m
        BY <2>2, <1>1, <1>3, <1>5
      <4>2. QED
        BY <4>1, <1>1, <1>3, <1>5
    <3>2. ev[la[l]].begin <= ev[la[o]].begin
      BY <3>1, <1>5 DEF DlStack
    <3>3. QED
      BY <3>1, <3>2, <1>2
  <2>3. QED
    BY <2>1, <2>2
<1>6. QED
  BY <1>2, <1>4, <1>5 DEF DlStack

(* the ends,                                                               *)
LEMMA AddedEnds ==
  ASSUME NEW ev, NEW la, NEW f \in {0, 1}, DlStack(ev, la, f), NEW H, NEW a, DlTimed(H, a), NEW m,
         DlEnters(H, a, m, f), DlEnds(ev, la, H, a, m),
         NEW rv, NEW ra, DlAdded(ev, la, rv, ra, m, f, H[Len(H)])
  PROVE  DlEnds(rv, ra, H, a, m + 1)
<1> DEFINE N == Len(ev) + 1
           k == H[Len(H)]
<1>1. /\ m \in DlLevels /\ m \in Nat /\ f <= m /\ DlLevels \subseteq Nat /\ Len(ev) \in Nat
      /\ m <= Len(k.path)
  BY EntersInTime, DepthIsNat DEF DlEnters, DlStack
<1>2. /\ Len(H) \in 1..Len(H) /\ a \in Nat /\ a < Len(H) /\ Len(H) \in Nat
      /\ k.begin \in Nat /\ k.end \in Nat /\ k.begin < k.end
      /\ a > 0 => H[a].end \in Nat /\ H[a].end <= k.begin
  BY EntersInTime
<1>3. /\ Len(rv) = N /\ \A i \in 1..Len(ev) : rv[i] = ev[i]
      /\ rv[N].level = m /\ rv[N].begin = k.begin /\ rv[N].end = k.end
      /\ \A l \in DlLevels : ra[l] = IF l = m THEN N ELSE la[l]
      /\ \A l \in DlLevels : l >= m => la[l] = 0
  BY DEF DlAdded
<1> HIDE DEF k
<1>4. ASSUME NEW i \in 1..Len(rv)
      PROVE  /\ DlAt(rv[i].level, H, a, m + 1) > 0
             /\ rv[i].begin < H[DlAt(rv[i].level, H, a, m + 1)].end
             /\ rv[i].end <= H[DlAt(rv[i].level, H, a, m + 1)].end
  <2>1. CASE i = N
    <3>1. DlAt(m, H, a, m + 1) = Len(H)
      BY <1>1 DEF DlAt
    <3>2. QED
      BY <2>1, <3>1, <1>2, <1>3 DEF k
  <2>2. CASE i # N
    <3>1. i \in 1..Len(ev) /\ rv[i] = ev[i]
      BY <2>2, <1>1, <1>3
    <3>2. ev[i].level \in Nat /\ ev[i].begin \in Nat /\ ev[i].end \in Int
      BY <3>1, EventTypes
    <3>3. CASE ev[i].level = m
      <4>1. DlAt(ev[i].level, H, a, m + 1) = Len(H)
        BY <3>3, <1>1 DEF DlAt
      <4>2. a > 0 /\ ev[i].begin < H[a].end /\ ev[i].end <= H[a].end
        BY <3>1, <3>3, <1>1, EndsBefore
      <4>3. ev[i].begin < k.end /\ ev[i].end <= k.end
        BY <4>2, <3>2, <1>2
      <4>4. QED
        BY <4>1, <4>3, <3>1, <1>2 DEF k
    <3>4. CASE ev[i].level # m
      <4>1. DlAt(ev[i].level, H, a, m + 1) = DlAt(ev[i].level, H, a, m)
        BY <3>2, <3>4, <1>1 DEF DlAt
      <4>2. QED
        BY <4>1, <3>1 DEF DlEnds
    <3>5. QED
      BY <3>3, <3>4
  <2>3. QED
    BY <2>1, <2>2
<1>5. ASSUME NEW l \in DlLevels, ra[l] # 0
      PROVE  /\ rv[ra[l]].end = H[DlAt(l, H, a, m + 1)].end
             /\ \E n \in 1..Len(H) :
                  /\ H[n].begin = rv[ra[l]].begin /\ H[n].end <= rv[ra[l]].end
                  /\ l <= Len(H[n].path)
  <2>1. CASE l = m
    <3>1. DlAt(l, H, a, m + 1) = Len(H) /\ ra[l] = N
      BY <2>1, <1>1, <1>3 DEF DlAt
    <3>2. H[Len(H)].begin = rv[ra[l]].begin /\ H[Len(H)].end <= rv[ra[l]].end /\ l <= Len(H[Len(H)].path)
      BY <2>1, <3>1, <1>1, <1>2, <1>3 DEF k
    <3>3. rv[ra[l]].end = H[DlAt(l, H, a, m + 1)].end
      BY <3>1, <1>3 DEF k
    <3>4. QED
      BY <3>2, <3>3, <1>2
  <2>2. CASE l # m
    <3>1. ra[l] = la[l] /\ la[l] # 0 /\ l < m
      BY <2>2, <1>1, <1>3, <1>5
    <3>2. la[l] \in 1..Len(ev) /\ rv[la[l]] = ev[la[l]]
      BY <3>1, <1>3 DEF DlStack
    <3>3. DlAt(l, H, a, m + 1) = DlAt(l, H, a, m)
      BY <3>1, <1>1 DEF DlAt
    <3>4. /\ ev[la[l]].end = H[DlAt(l, H, a, m)].end
          /\ \E n \in 1..Len(H) :
               /\ H[n].begin = ev[la[l]].begin /\ H[n].end <= ev[la[l]].end
               /\ l <= Len(H[n].path)
      BY <3>1 DEF DlEnds
    <3>5. QED
      BY <3>1, <3>2, <3>3, <3>4
  <2>3. QED
    BY <2>1, <2>2
<1>6. QED
  BY <1>4, <1>5 DEF DlEnds

(* the events beside it, which all end before it begins,                   *)
LEMMA AddedApart ==
  ASSUME NEW ev, NEW la, NEW f \in {0, 1}, DlStack(ev, la, f), NEW H, NEW a, DlTimed(H, a), NEW m,
         DlEnters(H, a, m, f), DlEnds(ev, la, H, a, m), DlApart(ev),
         NEW rv, NEW ra, DlAdded(ev, la, rv, ra, m, f, H[Len(H)])
  PROVE  DlApart(rv)
<1> DEFINE N == Len(ev) + 1
<1>1. /\ Len(rv) = N /\ \A x \in 1..Len(ev) : rv[x] = ev[x]
      /\ rv[N].level = m /\ rv[N].begin = H[Len(H)].begin /\ rv[N].end = H[Len(H)].end
  BY DEF DlAdded
<1>2. ASSUME NEW i \in 1..Len(rv) PROVE rv[i].begin < rv[i].end
  <2>1. CASE i = N
    <3>1. H[Len(H)].begin < H[Len(H)].end
      BY EntersInTime
    <3>2. QED
      BY <2>1, <3>1, <1>1
  <2>2. CASE i # N
    <3>1. Len(ev) \in Nat
      BY DEF DlStack
    <3>2. i \in 1..Len(ev) /\ rv[i] = ev[i]
      BY <2>2, <3>1, <1>1
    <3>3. QED
      BY <3>2 DEF DlApart
  <2>3. QED
    BY <2>1, <2>2
<1>3. SUFFICES ASSUME NEW i \in 1..Len(rv), NEW j \in 1..Len(rv), i < j, rv[i].level = rv[j].level
               PROVE  rv[i].end <= rv[j].begin
  BY <1>2 DEF DlApart
<1>4. m \in Nat /\ Len(ev) \in Nat
  <2>1. Len(ev) \in Nat
    BY DEF DlStack
  <2>2. QED
    BY <2>1, EntersInTime
<1>5. i \in 1..Len(ev) /\ rv[i] = ev[i]
  BY <1>3, <1>1, <1>4
<1>6. CASE j = N
  <2>1. ev[i].level = m
    BY <1>3, <1>1, <1>5, <1>6
  <2>2. a > 0 /\ ev[i].end <= H[a].end
    BY <2>1, <1>4, <1>5, EndsBefore
  <2>3. H[a].end \in Nat /\ H[a].end <= H[Len(H)].begin /\ H[Len(H)].begin \in Nat
    BY <2>2, EntersInTime
  <2>4. ev[i].end \in Int
    BY <1>5, EventTypes
  <2>5. QED
    BY <2>2, <2>3, <2>4, <1>1, <1>5, <1>6
<1>7. CASE j # N
  <2>1. j \in 1..Len(ev) /\ rv[j] = ev[j]
    BY <1>1, <1>4, <1>7
  <2>2. QED
    BY <2>1, <1>3, <1>5 DEF DlApart
<1>8. QED
  BY <1>6, <1>7

(* the tree,                                                               *)
LEMMA AddedTree ==
  ASSUME NEW ev, NEW la, NEW f \in {0, 1}, DlStack(ev, la, f), NEW H, NEW a, DlTimed(H, a), NEW m,
         DlEnters(H, a, m, f), DlEnds(ev, la, H, a, m), DlTree(ev, la, H, f),
         NEW rv, NEW ra, DlAdded(ev, la, rv, ra, m, f, H[Len(H)])
  PROVE  DlTree(rv, ra, H, f)
<1> DEFINE N == Len(ev) + 1
<1>1. /\ m \in DlLevels /\ m \in Nat /\ f <= m /\ Len(ev) \in Nat
      /\ DlLevels = 0..DlDepth /\ DlDepth \in Nat
  BY EntersInTime, DepthIsNat DEF DlEnters, DlStack
<1>2. /\ Len(rv) = N /\ \A x \in 1..Len(ev) : rv[x] = ev[x]
      /\ rv[N].level = m /\ rv[N].begin = H[Len(H)].begin
      /\ rv[N].parent = IF m = f THEN 0 ELSE la[m - 1]
      /\ m > f => la[m - 1] # 0
      /\ \A l \in DlLevels : ra[l] = IF l = m THEN N ELSE la[l]
  BY DEF DlAdded
<1>3. /\ DlOpen(ra, N)
      /\ \A i \in 1..Len(ev) : DlOpen(ra, i) <=> DlOpen(la, i)
  BY <1>1, AddedOpen
<1>4. SUFFICES ASSUME NEW i \in 1..Len(rv)
               PROVE  /\ f <= rv[i].level
                      /\ rv[i].parent # 0 =>
                           /\ rv[i].parent \in 1..i - 1
                           /\ rv[rv[i].parent].level = rv[i].level - 1
                           /\ rv[rv[i].parent].begin <= rv[i].begin
                           /\ DlOpen(ra, rv[i].parent) =>
                                DlOpen(ra, i) \/ DlOutgrown(rv[i], rv[rv[i].parent], H)
                           /\ ~DlOpen(ra, rv[i].parent) => DlSettled(rv[i], rv[rv[i].parent], H)
  BY DEF DlTree
<1>5. CASE i = N
  <2>1. CASE m = f
    BY <2>1, <1>1, <1>2, <1>5
  <2>2. CASE m # f
    <3> DEFINE j == la[m - 1]
    <3>1. m - 1 \in DlLevels /\ m > f /\ j # 0 /\ rv[i].parent = j
      BY <2>2, <1>1, <1>2, <1>5
    <3>2. j \in 1..Len(ev) /\ ev[j].level = m - 1 /\ rv[j] = ev[j]
      BY <3>1, <1>2 DEF DlStack
    <3>3. PICK n \in 1..Len(H) : H[n].begin = ev[j].begin
      BY <3>1 DEF DlEnds
    <3>4. H[n].begin <= H[Len(H)].begin
      BY EntersInTime
    <3>5. DlOpen(la, j)
      BY <3>1 DEF DlOpen
    <3>6. DlOpen(ra, j)
      BY <3>2, <3>5, <1>3
    <3> HIDE DEF j
    <3>7. QED
      BY <3>1, <3>2, <3>3, <3>4, <3>6, <1>1, <1>2, <1>3, <1>5
  <2>3. QED
    BY <2>1, <2>2
<1>6. CASE i # N
  <2>1. i \in 1..Len(ev) /\ rv[i] = ev[i]
    BY <1>1, <1>2, <1>6
  <2> DEFINE j == ev[i].parent
  <2>2. f <= ev[i].level /\ (j # 0 =>
          /\ j \in 1..i - 1 /\ ev[j].level = ev[i].level - 1 /\ ev[j].begin <= ev[i].begin
          /\ DlOpen(la, j) => DlOpen(la, i) \/ DlOutgrown(ev[i], ev[j], H)
          /\ ~DlOpen(la, j) => DlSettled(ev[i], ev[j], H))
    BY <2>1 DEF DlTree
  <2> HIDE DEF j
  <2>3. j # 0 => j \in 1..Len(ev) /\ rv[j] = ev[j]
    BY <2>1, <2>2, <1>1, <1>2
  <2>4. QED
    BY <2>1, <2>2, <2>3, <1>3 DEF j
<1>7. QED
  BY <1>5, <1>6

(* and the kernel is found on it.                                          *)
LEMMA AddedFound ==
  ASSUME NEW ev, NEW la, NEW f \in {0, 1}, DlStack(ev, la, f), NEW H, NEW a, DlTimed(H, a), NEW m,
         DlEnters(H, a, m, f), DlFound(ev, la, H, a, m),
         NEW rv, NEW ra, DlAdded(ev, la, rv, ra, m, f, H[Len(H)])
  PROVE  DlFound(rv, ra, H, a, m + 1)
<1> DEFINE N == Len(ev) + 1
<1>1. /\ m \in DlLevels /\ m \in Nat /\ Len(ev) \in Nat /\ a \in Nat /\ a + 1 = Len(H)
      /\ H[Len(H)].begin \in Nat /\ H[Len(H)].end \in Nat
  <2>1. m \in DlLevels /\ a + 1 = Len(H) /\ Len(ev) \in Nat
    BY DEF DlEnters, DlStack
  <2>2. QED
    BY <2>1, EntersInTime
<1>2. /\ Len(rv) = N /\ \A x \in 1..Len(ev) : rv[x] = ev[x]
      /\ rv[N].level = m /\ rv[N].begin = H[Len(H)].begin /\ rv[N].end = H[Len(H)].end
      /\ rv[N].group = H[Len(H)].group
      /\ m > 0 => rv[N].name = H[Len(H)].path[m]
  BY DEF DlAdded
<1>3. \A i \in 1..Len(ev) : DlOpen(ra, i) <=> DlOpen(la, i)
  BY <1>1, AddedOpen
<1>4. SUFFICES ASSUME NEW n \in 1..Len(H), NEW l \in 1..Len(H[n].path), n <= a \/ l < m + 1
               PROVE  DlFoundAt(rv, ra, H[n], l)
  BY DEF DlFound
<1>5. l \in Nat /\ l > 0 /\ DlNs * l \in Int /\ 0 < DlNs * l
  <2>1. Len(H[n].path) \in Nat
    BY EndsInTime
  <2>2. l \in Int /\ 0 \in Int /\ 0 < l
    BY <2>1
  <2>3. DlNs * l \in Int /\ DlNs * 0 < DlNs * l /\ DlNs * 0 = 0
    BY <2>2, Scaled
  <2>4. QED
    BY <2>1, <2>2, <2>3
<1>6. CASE n <= a \/ l < m
  <2>1. DlFoundAt(ev, la, H[n], l)
    BY <1>6 DEF DlFound
  <2>2. PICK i \in 1..Len(ev) :
          /\ ev[i].level = l /\ ev[i].name = H[n].path[l] /\ ev[i].group = H[n].group
          /\ ev[i].begin <= H[n].begin /\ H[n].end < ev[i].end + DlNs * l
          /\ DlOpen(la, i) => H[n].end <= ev[i].end
    BY <2>1, Zenon DEF DlFoundAt
  <2>3. i \in 1..Len(rv) /\ rv[i] = ev[i] /\ (DlOpen(ra, i) => DlOpen(la, i))
    BY <1>1, <1>2, <1>3
  <2>4. QED
    BY <2>2, <2>3, Zenon DEF DlFoundAt
<1>7. CASE ~(n <= a \/ l < m)
  <2>1. n = Len(H) /\ l = m /\ m > 0
    BY <1>1, <1>4, <1>5, <1>7
  <2>2. /\ N \in 1..Len(rv) /\ rv[N].level = l /\ rv[N].name = H[n].path[l]
        /\ rv[N].group = H[n].group /\ rv[N].end = H[n].end /\ rv[N].begin <= H[n].begin
    BY <2>1, <1>1, <1>2
  <2> HIDE DEF N
  <2> DEFINE z == DlNs * l
  <2>3. z \in Int /\ 0 < z
    BY <1>5
  <2> HIDE DEF z
  <2>4. H[n].end < rv[N].end + z /\ H[n].end <= rv[N].end
    BY <2>1, <2>2, <2>3, <1>1
  <2>5. H[n].end < rv[N].end + DlNs * l
    BY <2>4 DEF z
  <2>6. QED
    BY <2>2, <2>4, <2>5 DEF DlFoundAt
<1>8. QED
  BY <1>6, <1>7

(* ExpandOrAddLevelEvent, when the level m gets an event new.              *)
DlAdding(s, H, a, m, f, name, new, t) ==
  /\ DlLines(s, H, a, m, f) /\ DlEnters(H, a, m, f)
  /\ \A l \in DlLevels : l >= m => s.last[l] = 0
  /\ m > f => s.last[m - 1] # 0
  /\ name \in {x.module : x \in DlTags} \cup UNION {{p[i] : i \in DOMAIN p} : p \in DlPaths}
  /\ m > 0 => name = H[Len(H)].path[m]
  /\ new = [name |-> name, level |-> m, begin |-> H[Len(H)].begin, end |-> H[Len(H)].end,
             group |-> H[Len(H)].group, scope |-> H[Len(H)].scope,
             parent |-> IF m = 0 THEN 0 ELSE s.last[m - 1]]
  /\ t = [events |-> Append(s.events, new), last |-> [s.last EXCEPT ![m] = Len(s.events) + 1]]

LEMMA AddLines ==
  ASSUME NEW s, NEW f \in {0, 1}, NEW H, NEW a, NEW m, NEW name, NEW new, NEW t,
         DlAdding(s, H, a, m, f, name, new, t)
  PROVE  /\ DlLines(t, H, a, m + 1, f)
         /\ \A l \in DlLevels : t.last[l] = IF l = m THEN Len(s.events) + 1 ELSE s.last[l]
<1> SUFFICES ASSUME DlLines(s, H, a, m, f), DlEnters(H, a, m, f),
                \A l \in DlLevels : l >= m => s.last[l] = 0, m > f => s.last[m - 1] # 0,
                name \in {x.module : x \in DlTags} \cup UNION {{p[i] : i \in DOMAIN p} : p \in DlPaths},
                m > 0 => name = H[Len(H)].path[m],
                new = [name |-> name, level |-> m, begin |-> H[Len(H)].begin, end |-> H[Len(H)].end,
                       group |-> H[Len(H)].group, scope |-> H[Len(H)].scope,
                       parent |-> IF m = 0 THEN 0 ELSE s.last[m - 1]],
                t = [events |-> Append(s.events, new),
                     last |-> [s.last EXCEPT ![m] = Len(s.events) + 1]]
             PROVE  /\ DlLines(t, H, a, m + 1, f)
                    /\ \A l \in DlLevels : t.last[l] = IF l = m THEN Len(s.events) + 1 ELSE s.last[l]
  BY DEF DlAdding
<1> DEFINE ev == s.events
           la == s.last
           k == H[Len(H)]
           rv == t.events
           ra == t.last
<1>1. /\ DlTimed(H, a) /\ DlStack(ev, la, f)
      /\ DlEnds(ev, la, H, a, m) /\ DlApart(ev) /\ DlTree(ev, la, H, f) /\ DlFound(ev, la, H, a, m)
  BY DEF DlLines
<1>2. /\ m \in DlLevels /\ m \in Nat /\ f <= m /\ DlLevels = 0..DlDepth /\ DlDepth \in Nat
      /\ ev \in Seq(DlEv) /\ Len(ev) \in Nat /\ la \in [DlLevels -> 0..Len(ev)]
  BY <1>1, EntersInTime, DepthIsNat DEF DlEnters, DlStack
<1>3. k \in DlKs
  <2>1. Len(H) \in 1..Len(H)
    BY <1>1, EntersInTime
  <2>2. QED
    BY <2>1, <1>1, EndsInTime
<1>4. m = f => (IF m = 0 THEN 0 ELSE la[m - 1]) = 0
  <2>1. SUFFICES ASSUME m = 1, f = 1 PROVE la[0] = 0
    OBVIOUS
  <2>2. 0 \in DlLevels
    BY <1>2
  <2>3. QED
    BY <2>1, <2>2, <1>1 DEF DlStack
<1>5. (IF m = 0 THEN 0 ELSE la[m - 1]) \in Nat
  <2>1. m # 0 => m - 1 \in DlLevels
    BY <1>2
  <2>2. QED
    BY <2>1, <1>2
<1>6. new \in DlEv
  <2> DEFINE j == IF m = 0 THEN 0 ELSE la[m - 1]
  <2>1. /\ k.begin \in Nat /\ k.end \in Int /\ k.group \in {x.group : x \in DlTags}
        /\ k.scope \in {x.scope : x \in DlTags} \cup {0}
    BY <1>3 DEF DlKs
  <2>2. new = [name |-> name, level |-> m, begin |-> k.begin, end |-> k.end,
               group |-> k.group, scope |-> k.scope, parent |-> j]
    OBVIOUS
  <2>3. j \in Nat
    BY <1>5
  <2> HIDE DEF k, j
  <2>4. QED
    BY <2>1, <2>2, <2>3, <1>2 DEF DlEv
<1>7. /\ new.level = m /\ new.begin = k.begin /\ new.end = k.end /\ new.group = k.group
      /\ new.name = name /\ new.parent = IF m = 0 THEN 0 ELSE la[m - 1]
  OBVIOUS
<1>8. rv = Append(ev, new) /\ ra = [la EXCEPT ![m] = Len(ev) + 1] /\ t = [events |-> rv, last |-> ra]
  OBVIOUS
<1> HIDE DEF ev, la, k, rv, ra
<1>9. DlAdded(ev, la, rv, ra, m, f, k)
  <2>1. rv \in Seq(DlEv) /\ Len(rv) = Len(ev) + 1 /\ \A i \in 1..Len(ev) : rv[i] = ev[i]
    BY <1>2, <1>6, <1>8
  <2>2. rv[Len(ev) + 1] = new
    BY <1>2, <1>6, <1>8
  <2>3. ra \in [DlLevels -> 0..Len(rv)] /\ \A l \in DlLevels : ra[l] = IF l = m THEN Len(ev) + 1 ELSE la[l]
    BY <1>2, <1>8, <2>1
  <2>4. new.parent = IF m = f THEN 0 ELSE la[m - 1]
    BY <1>2, <1>4, <1>7
  <2>5. /\ \A l \in DlLevels : l >= m => la[l] = 0
        /\ m > f => la[m - 1] # 0
        /\ m > 0 => name = k.path[m]
    BY DEF la, k
  <2> HIDE DEF DlEv, DlLevels
  <2>6. QED
    BY <2>1, <2>2, <2>3, <2>4, <2>5, <1>7 DEF DlAdded
<1>10. DlAdded(ev, la, rv, ra, m, f, H[Len(H)])
  BY <1>9 DEF k
<1>11. DlStack(rv, ra, f)
  BY <1>1, <1>10, AddedStack
<1>12. DlEnds(rv, ra, H, a, m + 1)
  BY <1>1, <1>10, AddedEnds
<1>13. DlApart(rv)
  BY <1>1, <1>10, AddedApart
<1>14. DlTree(rv, ra, H, f)
  BY <1>1, <1>10, AddedTree
<1>15. DlFound(rv, ra, H, a, m + 1)
  BY <1>1, <1>10, AddedFound
<1>16. DlLines(t, H, a, m + 1, f)
  BY <1>1, <1>8, <1>11, <1>12, <1>13, <1>14, <1>15 DEF DlLines, rv, ra
<1>17. \A l \in DlLevels : t.last[l] = IF l = m THEN Len(s.events) + 1 ELSE s.last[l]
  BY <1>10 DEF DlAdded, ev, la, ra
<1>18. QED
  BY <1>16, <1>17

(* The levels of the kernel so far are open.                               *)
DlReady(s, H, a, m, f) ==
  DlLines(s, H, a, m, f) /\ \A l \in DlLevels : f <= l /\ l < m => s.last[l] # 0

(* ExpandOrAddLevelEvent: the kernel enters one level more.                *)
LEMMA LevelLines ==
  ASSUME NEW s, NEW f \in {0, 1}, NEW H, NEW a, NEW m, DlReady(s, H, a, m, f), DlEnters(H, a, m, f),
         NEW name \in {t.module : t \in DlTags} \cup UNION {{p[i] : i \in DOMAIN p} : p \in DlPaths},
         m > 0 => name = H[Len(H)].path[m]
  PROVE  DlReady(DlAddLevel(s, m, name, H[Len(H)]), H, a, m + 1, f)
<1> DEFINE k == H[Len(H)]
           t == DlAddLevel(s, m, name, k)
<1>1. /\ DlLines(s, H, a, m, f) /\ DlTimed(H, a) /\ DlStack(s.events, s.last, f)
      /\ \A l \in DlLevels : f <= l /\ l < m => s.last[l] # 0
  BY DEF DlReady, DlLines
<1>2. /\ m \in DlLevels /\ m \in Nat /\ f <= m /\ DlLevels = 0..DlDepth /\ DlDepth \in Nat
      /\ a < Len(H) /\ m <= Len(k.path) /\ Len(k.path) \in Nat
  <2>1. m \in DlLevels /\ f <= m /\ m <= Len(k.path)
    BY DEF DlEnters
  <2>2. m \in Nat /\ a < Len(H) /\ Len(H) \in 1..Len(H)
    BY <1>1, EntersInTime
  <2>3. Len(k.path) \in Nat
    BY <2>2, <1>1, EndsInTime
  <2>4. QED
    BY <2>1, <2>2, <2>3, DepthIsNat
<1>3. CASE DlExpands(s, m, name, k)
  <2>1. s.last[m] # 0 /\ s.events[s.last[m]].name = name /\ s.events[s.last[m]].group = k.group
    BY <1>3 DEF DlExpands
  <2>2. t = [s EXCEPT !.events[s.last[m]].end = IF @ > k.end THEN @ ELSE k.end]
    BY <1>3, Zenon DEF DlAddLevel
  <2> HIDE DEF t
  <2>3. DlLines(t, H, a, m + 1, f) /\ t.last = s.last
    BY <1>1, <2>1, <2>2, GrowLines
  <2>4. \A l \in DlLevels : f <= l /\ l < m + 1 => t.last[l] # 0
    BY <1>1, <1>2, <2>1, <2>3
  <2>5. DlReady(t, H, a, m + 1, f)
    BY <2>3, <2>4 DEF DlReady
  <2>6. QED
    BY <2>5 DEF t
<1>4. CASE ~DlExpands(s, m, name, k)
  <2> DEFINE r == DlReset(s, m)
             new == [name |-> name, level |-> m, begin |-> k.begin, end |-> k.end,
                     group |-> k.group, scope |-> k.scope,
                     parent |-> IF m = 0 THEN 0 ELSE r.last[m - 1]]
  <2>1. t = [events |-> Append(r.events, new), last |-> [r.last EXCEPT ![m] = Len(r.events) + 1]]
    BY <1>4, Zenon DEF DlAddLevel
  <2> HIDE DEF t, r
  <2>2. m = (IF m < f THEN f ELSE m) /\ (m > f => a < Len(H) /\ m - 1 <= Len(H[Len(H)].path))
    BY <1>2
  <2>3. /\ DlLines(r, H, a, m, f)
        /\ \A l \in DlLevels : r.last[l] = IF l < m THEN s.last[l] ELSE 0
    BY <1>1, <1>2, <2>2, ResetLines DEF r
  <2>4. \A l \in DlLevels : l >= m => r.last[l] = 0
    BY <2>3, <1>2
  <2>5. m > f => r.last[m - 1] # 0
    BY <2>3, <1>1, <1>2
  <2>6. /\ DlLines(t, H, a, m + 1, f)
        /\ \A l \in DlLevels : t.last[l] = IF l = m THEN Len(r.events) + 1 ELSE r.last[l]
    <3>1. new = [name |-> name, level |-> m, begin |-> H[Len(H)].begin, end |-> H[Len(H)].end,
                 group |-> H[Len(H)].group, scope |-> H[Len(H)].scope,
                 parent |-> IF m = 0 THEN 0 ELSE r.last[m - 1]]
      OBVIOUS
    <3> HIDE DEF new
    <3>2. m > 0 => name = H[Len(H)].path[m]
      OBVIOUS
    <3>3. DlEnters(H, a, m, f) /\ DlLines(r, H, a, m, f)
      BY <2>3
    <3>4. QED
      <4>1. name \in {x.module : x \in DlTags} \cup UNION {{p[i] : i \in DOMAIN p} : p \in DlPaths}
        OBVIOUS
      <4>2. DlAdding(r, H, a, m, f, name, new, t)
        BY <2>1, <2>4, <2>5, <3>1, <3>2, <3>3, <4>1, Zenon DEF DlAdding
      <4>3. QED
        BY <4>2, AddLines
  <2>7. Len(r.events) \in Nat
    BY <2>3 DEF DlLines, DlStack
  <2>8. \A l \in DlLevels : f <= l /\ l < m + 1 => t.last[l] # 0
    BY <1>1, <1>2, <2>3, <2>6, <2>7
  <2>9. DlReady(t, H, a, m + 1, f)
    BY <2>6, <2>8 DEF DlReady
  <2>10. QED
    BY <2>9 DEF t
<1>5. QED
  BY <1>3, <1>4

(* The loop of ExpandOrAddEvents over the first n levels. *)
DlAdds(add, s, k, n) ==
  add = [l \in 0..n |-> IF l = 0 THEN IF dlGpu THEN DlAddLevel(s, 0, k.module, k) ELSE s
                        ELSE DlAddLevel(add[l - 1], l, k.path[l], k)]

(* The loop is a recursion that has a solution.                            *)
LEMMA LevelsExist ==
  ASSUME NEW s, NEW k, NEW n \in Nat
  PROVE  \E add : DlAdds(add, s, k, n)
<1> DEFINE Bad == {x \in Nat : ~ \E add : DlAdds(add, s, k, x)}
           First == IF dlGpu THEN DlAddLevel(s, 0, k.module, k) ELSE s
<1>1. SUFFICES ASSUME Bad # {} PROVE FALSE
  OBVIOUS
<1>2. PICK x \in Bad : \A o \in Bad : x <= o
  BY <1>1, LeastNumber
<1>3. CASE x = 0
  <2>1. \A l \in 0..0 : l = 0
    OBVIOUS
  <2>2. DlAdds([l \in 0..0 |-> First], s, k, 0)
    BY <2>1 DEF DlAdds
  <2>3. QED
    BY <1>2, <1>3, <2>2
<1>4. CASE x # 0
  <2>1. x \in Nat /\ x - 1 \in Nat /\ x - 1 \notin Bad
    BY <1>2, <1>4
  <2>2. PICK g : DlAdds(g, s, k, x - 1)
    BY <2>1
  <2> DEFINE h == [l \in 0..x |-> IF l < x THEN g[l] ELSE DlAddLevel(g[x - 1], x, k.path[x], k)]
  <2> HIDE DEF First
  <2>3. \A l \in 0..x - 1 : g[l] = IF l = 0 THEN First ELSE DlAddLevel(g[l - 1], l, k.path[l], k)
    BY <2>2 DEF DlAdds, First
  <2>4. ASSUME NEW l \in 0..x
        PROVE  h[l] = IF l = 0 THEN First ELSE DlAddLevel(h[l - 1], l, k.path[l], k)
    <3>1. CASE l = x
      <4>1. l # 0 /\ l - 1 \in 0..x /\ l - 1 < x
        BY <3>1, <2>1, <1>4
      <4>2. h[l - 1] = g[l - 1] /\ h[l] = DlAddLevel(g[x - 1], x, k.path[x], k)
        BY <4>1, <3>1, <2>1
      <4>3. QED
        BY <4>1, <4>2, <3>1
    <3>2. CASE l # x
      <4>1. l \in 0..x - 1 /\ h[l] = g[l] /\ (l # 0 => l - 1 \in 0..x - 1 /\ h[l - 1] = g[l - 1])
        BY <3>2, <2>1
      <4> HIDE DEF h
      <4>2. QED
        BY <4>1, <2>3
    <3>3. QED
      BY <3>1, <3>2
  <2>5. h = [l \in 0..x |-> IF l = 0 THEN First ELSE DlAddLevel(h[l - 1], l, k.path[l], k)]
    BY <2>4
  <2>6. DlAdds(h, s, k, x)
    BY <2>5, Zenon DEF DlAdds, First
  <2>7. QED
    BY <1>2, <2>6
<1>5. QED
  BY <1>3, <1>4

(* Kernels come in the order of time: all the lines are behind a new one.  *)
LEMMA KernelEnters ==
  ASSUME NEW s, NEW f \in {0, 1}, NEW H, DlLines(s, H, Len(H), 0, f), NEW k \in DlKs,
         k.begin < k.end, Len(H) > 0 => H[Len(H)].end <= k.begin
  PROVE  /\ DlReady(s, Append(H, k), Len(H), f, f)
         /\ Len(Append(H, k)) = Len(H) + 1 /\ Append(H, k)[Len(H) + 1] = k
<1> DEFINE K == Append(H, k)
           a == Len(H)
           ev == s.events
           la == s.last
<1>1. /\ s = [events |-> ev, last |-> la]
      /\ DlTimed(H, a) /\ DlStack(ev, la, f) /\ DlEnds(ev, la, H, a, 0)
      /\ DlApart(ev) /\ DlTree(ev, la, H, f) /\ DlFound(ev, la, H, a, 0)
  BY DEF DlLines
<1>2. /\ H \in Seq(DlKs) /\ a \in Nat /\ K \in Seq(DlKs) /\ Len(K) = a + 1 /\ K[a + 1] = k
      /\ \A n \in 1..a : n \in 1..Len(K) /\ K[n] = H[n]
  <2>1. H \in Seq(DlKs)
    BY <1>1 DEF DlTimed
  <2>2. QED
    BY <2>1
<1>3. /\ k.begin \in Nat /\ k.end \in Int
      /\ \A n \in 1..a : /\ H[n].begin \in Nat /\ H[n].end \in Nat /\ H[n].begin < H[n].end
                         /\ Len(H[n].path) \in Nat
  BY <1>1, EndsInTime DEF DlKs
<1> HIDE DEF K, a, ev, la
<1>4. \A n \in 1..a : H[n].end <= k.begin
  <2>1. SUFFICES ASSUME NEW n \in 1..a PROVE H[n].end <= k.begin
    OBVIOUS
  <2>2. a \in 1..a /\ H[a].end <= k.begin
    BY <1>2 DEF a
  <2>3. n < a => H[n].end <= H[a].begin
    BY <2>2, <1>1 DEF DlTimed, a
  <2>4. QED
    BY <2>2, <2>3, <1>2, <1>3
<1>5. DlTimed(K, a)
  <2>1. ASSUME NEW n \in 1..Len(K) PROVE K[n].begin < K[n].end
    <3>1. n \in 1..a \/ n = a + 1
      BY <1>2
    <3>2. QED
      BY <3>1, <1>2, <1>3
  <2>2. ASSUME NEW n \in 1..Len(K), NEW o \in 1..Len(K), n < o
        PROVE  K[n].end <= K[o].begin
    <3>1. n \in 1..a /\ (o \in 1..a \/ o = a + 1)
      BY <2>2, <1>2
    <3>2. o \in 1..a => H[n].end <= H[o].begin
      BY <3>1, <2>2, <1>1 DEF DlTimed, a
    <3>3. QED
      BY <3>1, <3>2, <1>2, <1>4
  <2>3. QED
    BY <2>1, <2>2, <1>2 DEF DlTimed
<1>6. DlEnds(ev, la, K, a, f)
  <2>1. ASSUME NEW i \in 1..Len(ev)
        PROVE  /\ DlAt(ev[i].level, K, a, f) = a /\ a \in 1..a
               /\ ev[i].begin < H[a].end /\ ev[i].end <= H[a].end
    <3>1. f <= ev[i].level /\ ev[i].level \in Nat
      BY <1>1, EventTypes DEF DlTree
    <3>2. DlAt(ev[i].level, K, a, f) = a /\ DlAt(ev[i].level, H, a, 0) = a
      BY <3>1, <1>2 DEF DlAt
    <3>3. a > 0 /\ ev[i].begin < H[a].end /\ ev[i].end <= H[a].end
      BY <3>2, <1>1 DEF DlEnds
    <3>4. QED
      BY <3>2, <3>3, <1>2
  <2>2. ASSUME NEW l \in DlLevels, la[l] # 0
        PROVE  /\ ev[la[l]].end = K[DlAt(l, K, a, f)].end
               /\ \E n \in 1..Len(K) :
                    /\ K[n].begin = ev[la[l]].begin /\ K[n].end <= ev[la[l]].end
                    /\ l <= Len(K[n].path)
    <3>1. f <= l /\ l \in Nat /\ la[l] \in 1..Len(ev)
      BY <2>2, <1>1, DepthIsNat DEF DlStack
    <3>2. DlAt(l, K, a, f) = a /\ DlAt(l, H, a, 0) = a
      BY <3>1, <1>2 DEF DlAt
    <3>3. ev[la[l]].end = H[a].end
      BY <3>2, <2>2, <1>1 DEF DlEnds
    <3>4. PICK n \in 1..a : /\ H[n].begin = ev[la[l]].begin /\ H[n].end <= ev[la[l]].end
                            /\ l <= Len(H[n].path)
      BY <2>2, <1>1 DEF DlEnds, a
    <3>5. QED
      BY <3>2, <3>3, <3>4, <3>1, <2>1, <1>2
  <2>3. QED
    BY <2>1, <2>2, <1>2 DEF DlEnds
<1>7. DlTree(ev, la, K, f)
  <2>1. ASSUME NEW c, NEW p, DlOutgrown(c, p, H) PROVE DlOutgrown(c, p, K)
    <3>1. PICK n \in 1..a : /\ H[n].end = p.end /\ c.end <= H[n].begin /\ c.begin <= H[n].begin
                            /\ p.level <= Len(H[n].path)
      BY <2>1 DEF DlOutgrown, a
    <3>2. QED
      BY <3>1, <1>2 DEF DlOutgrown
  <2>2. ASSUME NEW c, NEW p, DlSettled(c, p, H) PROVE DlSettled(c, p, K)
    <3>1. c.end <= p.end
          \/ \E n \in 1..Len(K) : c.end <= K[n].begin /\ K[n].end - K[n].begin < DlNs * (c.level - 2)
      BY <2>2, <1>2 DEF DlSettled, a
    <3>2. c.level >= 2 /\ c.begin = p.begin /\ c.end = p.end =>
            \E n \in 1..Len(K) : /\ K[n].end - K[n].begin < DlNs * (Len(K[n].path) + 1)
                                 /\ c.begin <= K[n].begin
                                 /\ K[n].begin < c.end + DlNs * Len(K[n].path)
      BY <2>2, <1>2 DEF DlSettled, a
    <3>3. QED
      BY <3>1, <3>2 DEF DlSettled
  <2>3. ASSUME NEW i \in 1..Len(ev)
        PROVE  LET c == ev[i] p == ev[c.parent] IN
               /\ f <= c.level
               /\ c.parent # 0 =>
                    /\ c.parent \in 1..i - 1 /\ p.level = c.level - 1 /\ p.begin <= c.begin
                    /\ DlOpen(la, c.parent) => DlOpen(la, i) \/ DlOutgrown(c, p, K)
                    /\ ~DlOpen(la, c.parent) => DlSettled(c, p, K)
    BY <1>1, <2>1, <2>2, Zenon DEF DlTree
  <2>4. QED
    BY <2>3, Zenon DEF DlTree
<1>8. DlFound(ev, la, K, a, f)
  <2>1. ASSUME NEW n \in 1..Len(K), NEW l \in 1..Len(K[n].path), n <= a \/ l < f
        PROVE  DlFoundAt(ev, la, K[n], l)
    <3>1. n \in 1..a
      BY <2>1, <1>2
    <3>2. K[n] = H[n]
      BY <3>1, <1>2
    <3>3. n <= a /\ l \in 1..Len(H[n].path)
      BY <3>1, <3>2
    <3>4. DlFoundAt(ev, la, H[n], l)
      BY <3>1, <3>3, <1>1 DEF DlFound, a
    <3>5. QED
      BY <3>2, <3>4
  <2>2. QED
    BY <2>1 DEF DlFound
<1>9. DlLines(s, K, a, f, f)
  BY <1>1, <1>5, <1>6, <1>7, <1>8 DEF DlLines, ev, la
<1>10. \A l \in DlLevels : ~(f <= l /\ l < f)
  BY DepthIsNat
<1>11. DlReady(s, K, a, f, f)
  BY <1>9, <1>10 DEF DlReady
<1>12. QED
  BY <1>2, <1>11 DEF K, a

(* The levels deeper than the path of the last kernel are closed.          *)
LEMMA KernelEntered ==
  ASSUME NEW s, NEW f \in {0, 1}, NEW H, NEW a, NEW m, DlLines(s, H, a, m, f), a + 1 = Len(H),
         m = Len(H[Len(H)].path) + 1, \A l \in DlLevels : l >= m => s.last[l] = 0
  PROVE  DlLines(s, H, Len(H), 0, f)
<1> DEFINE z == Len(H)
           ev == s.events
           la == s.last
<1>1. /\ s = [events |-> ev, last |-> la]
      /\ DlTimed(H, a) /\ DlStack(ev, la, f) /\ DlEnds(ev, la, H, a, m)
      /\ DlApart(ev) /\ DlTree(ev, la, H, f) /\ DlFound(ev, la, H, a, m)
  BY DEF DlLines
<1>2. H \in Seq(DlKs) /\ z \in Nat /\ a \in 0..z /\ a + 1 = z /\ z \in 1..z
  BY <1>1 DEF DlTimed
<1>3. m \in Nat /\ H[z].begin \in Nat /\ H[z].end \in Nat /\ H[z].begin < H[z].end
  BY <1>1, <1>2, EndsInTime
<1>4. a > 0 => H[a].end \in Nat /\ H[a].end <= H[z].begin
  <2>1. SUFFICES ASSUME a > 0 PROVE H[a].end \in Nat /\ H[a].end <= H[z].begin
    OBVIOUS
  <2>2. a \in 1..z /\ a < z
    BY <2>1, <1>2
  <2>3. QED
    BY <2>2, <1>1, <1>2, EndsInTime DEF DlTimed
<1>5. DlTimed(H, z)
  BY <1>1, <1>2 DEF DlTimed
<1> HIDE DEF z, ev, la
<1>6. DlEnds(ev, la, H, z, 0)
  <2>1. ASSUME NEW i \in 1..Len(ev)
        PROVE  /\ DlAt(ev[i].level, H, z, 0) > 0
               /\ ev[i].begin < H[DlAt(ev[i].level, H, z, 0)].end
               /\ ev[i].end <= H[DlAt(ev[i].level, H, z, 0)].end
    <3>1. ev[i].level \in Nat /\ ev[i].begin \in Nat /\ ev[i].end \in Int
      BY <1>1, EventTypes
    <3>2. DlAt(ev[i].level, H, z, 0) = z
      BY <3>1 DEF DlAt
    <3>3. DlAt(ev[i].level, H, a, m) = IF ev[i].level < m THEN z ELSE a
      BY DEF DlAt, z
    <3>4. /\ DlAt(ev[i].level, H, a, m) > 0
          /\ ev[i].begin < H[DlAt(ev[i].level, H, a, m)].end
          /\ ev[i].end <= H[DlAt(ev[i].level, H, a, m)].end
      BY <1>1 DEF DlEnds
    <3>5. ev[i].begin < H[z].end /\ ev[i].end <= H[z].end
      BY <3>1, <3>3, <3>4, <1>2, <1>3, <1>4
    <3>6. QED
      BY <3>2, <3>5, <1>2
  <2>2. ASSUME NEW l \in DlLevels, la[l] # 0
        PROVE  /\ ev[la[l]].end = H[DlAt(l, H, z, 0)].end
               /\ \E n \in 1..Len(H) :
                    /\ H[n].begin = ev[la[l]].begin /\ H[n].end <= ev[la[l]].end
                    /\ l <= Len(H[n].path)
    <3>1. l \in Nat /\ ~(l >= m)
      BY <2>2, DepthIsNat DEF la
    <3>2. DlAt(l, H, z, 0) = z /\ DlAt(l, H, a, m) = z
      BY <3>1, <1>3 DEF DlAt, z
    <3>3. QED
      BY <3>2, <2>2, <1>1 DEF DlEnds
  <2>3. QED
    BY <2>1, <2>2 DEF DlEnds
<1>7. DlFound(ev, la, H, z, 0)
  <2>1. ASSUME NEW n \in 1..Len(H), NEW l \in 1..Len(H[n].path)
        PROVE  DlFoundAt(ev, la, H[n], l)
    <3>1. n <= a \/ n = z
      BY <1>2 DEF z
    <3>2. n = z => l < m
      BY <1>1, EndsInTime DEF z
    <3>3. QED
      BY <3>1, <3>2, <1>1 DEF DlFound
  <2>2. QED
    BY <2>1 DEF DlFound
<1>8. DlLines(s, H, z, 0, f)
  BY <1>1, <1>5, <1>6, <1>7 DEF DlLines, ev, la
<1>9. QED
  BY <1>8 DEF z

(* After the loop the kernel has entered every level of its path.          *)
LEMMA LevelsReady ==
  ASSUME NEW s, NEW f \in {0, 1}, NEW H, NEW a, DlReady(s, H, a, f, f), a + 1 = Len(H),
         dlGpu \in BOOLEAN, f = (IF dlGpu THEN 0 ELSE 1),
         NEW add, DlAdds(add, s, H[Len(H)], Len(H[Len(H)].path))
  PROVE  DlReady(add[Len(H[Len(H)].path)], H, a, Len(H[Len(H)].path) + 1, f)
<1> DEFINE k == H[Len(H)]
           d == Len(k.path)
           Bad == {n \in 0..d : ~DlReady(add[n], H, a, n + 1, f)}
<1>1. DlTimed(H, a) /\ Len(H) \in 1..Len(H)
  <2>1. DlTimed(H, a)
    BY DEF DlReady, DlLines
  <2>2. QED
    BY <2>1 DEF DlTimed
<1>2. k \in DlKs /\ k.path \in DlPaths
  BY <1>1, EndsInTime
<1>3. d \in Nat /\ d <= DlDepth /\ DlDepth \in Nat /\ DlLevels = 0..DlDepth /\ DOMAIN k.path = 1..d
  BY <1>2, DepthIsNat
<1>4. \A n \in 0..d : add[n] = IF n = 0 THEN IF dlGpu THEN DlAddLevel(s, 0, k.module, k) ELSE s
                               ELSE DlAddLevel(add[n - 1], n, k.path[n], k)
  BY DEF DlAdds
<1>5. SUFFICES ASSUME Bad # {} PROVE FALSE
  BY <1>3
<1>6. PICK n \in Bad : \A o \in Bad : n <= o
  <2>1. Bad \subseteq Nat
    BY <1>3
  <2> HIDE DEF Bad
  <2>2. QED
    BY <1>5, <2>1, LeastNumber
<1>7. n \in 0..d /\ n \in Nat /\ ~DlReady(add[n], H, a, n + 1, f)
  BY <1>3, <1>6
<1>8. CASE n = 0 /\ ~dlGpu
  <2>1. add[n] = s /\ f = 1
    BY <1>4, <1>7, <1>8
  <2>2. QED
    BY <2>1, <1>7, <1>8
<1>9. CASE n = 0 /\ dlGpu
  <2>1. add[n] = DlAddLevel(s, 0, k.module, k) /\ f = 0
    BY <1>4, <1>7, <1>9
  <2>2. DlEnters(H, a, 0, f) /\ DlReady(s, H, a, 0, f)
    BY <2>1, <1>3 DEF DlEnters
  <2>3. k.module \in {x.module : x \in DlTags} \cup UNION {{p[i] : i \in DOMAIN p} : p \in DlPaths}
    BY <1>2 DEF DlKs
  <2>4. DlReady(DlAddLevel(s, 0, k.module, H[Len(H)]), H, a, 0 + 1, f)
    <3> DEFINE z == 0
               name == k.module
    <3>1. DlEnters(H, a, z, f) /\ DlReady(s, H, a, z, f) /\ ~(z > 0)
      BY <2>2
    <3>2. name \in {x.module : x \in DlTags} \cup UNION {{p[i] : i \in DOMAIN p} : p \in DlPaths}
      BY <2>3
    <3> HIDE DEF k, name, z
    <3>3. DlReady(DlAddLevel(s, z, name, H[Len(H)]), H, a, z + 1, f)
      BY <3>1, <3>2, LevelLines
    <3>4. QED
      BY <3>3 DEF name, z
  <2>5. QED
    BY <2>1, <2>4, <1>7, <1>9
<1>10. CASE n # 0
  <2>1. n - 1 \in 0..d /\ ~(n <= n - 1) /\ (n - 1) + 1 = n
    BY <1>7, <1>10, <1>3
  <2>2. n - 1 \notin Bad
    BY <2>1, <1>6
  <2>3. DlReady(add[n - 1], H, a, n, f)
    BY <2>1, <2>2
  <2>4. DlEnters(H, a, n, f)
    BY <1>3, <1>7, <1>10 DEF DlEnters
  <2>5. k.path[n] \in {x.module : x \in DlTags} \cup UNION {{p[i] : i \in DOMAIN p} : p \in DlPaths}
    BY <1>2, <1>3, <1>7, <1>10
  <2> DEFINE name == k.path[n]
  <2>6. name = H[Len(H)].path[n]
    OBVIOUS
  <2>7. add[n] = DlAddLevel(add[n - 1], n, name, H[Len(H)])
    BY <1>4, <1>7, <1>10
  <2> DEFINE b == add[n - 1]
  <2>8. DlReady(b, H, a, n, f)
    BY <2>3
  <2>9. n > 0 => name = H[Len(H)].path[n]
    BY <2>6
  <2>10. name \in {x.module : x \in DlTags} \cup UNION {{p[i] : i \in DOMAIN p} : p \in DlPaths}
    BY <2>5
  <2> HIDE DEF k, name, b
  <2>11. DlReady(DlAddLevel(b, n, name, H[Len(H)]), H, a, n + 1, f)
    BY <2>4, <2>8, <2>9, <2>10, LevelLines
  <2>12. QED
    BY <2>7, <2>11, <1>7 DEF b
<1>11. QED
  BY <1>8, <1>9, <1>10

(* ExpandOrAddEvents.                                                      *)
LEMMA PathLines ==
  ASSUME NEW s, NEW f \in {0, 1}, NEW H, NEW a, DlReady(s, H, a, f, f), a + 1 = Len(H),
         dlGpu \in BOOLEAN, f = (IF dlGpu THEN 0 ELSE 1)
  PROVE  DlLines(DlAddPath(s, H[Len(H)]), H, Len(H), 0, f)
<1> DEFINE k == H[Len(H)]
           d == Len(k.path)
           add == CHOOSE g : DlAdds(g, s, k, d)
           b == add[d]
           t == DlReset(b, d + 1)
<1>1. DlTimed(H, a) /\ Len(H) \in 1..Len(H) /\ a < Len(H)
  <2>1. DlTimed(H, a)
    BY DEF DlReady, DlLines
  <2>2. QED
    BY <2>1 DEF DlTimed
<1>2. d \in Nat
  BY <1>1, EndsInTime
<1>3. DlAddPath(s, k) = t
  BY Zenon DEF DlAddPath, DlAdds
<1>4. DlAdds(add, s, k, d)
  <2>1. \E g : DlAdds(g, s, k, d)
    <3> HIDE DEF d
    <3>1. QED
      BY <1>2, LevelsExist
  <2>2. QED
    BY <2>1, Zenon
<1>5. DlReady(b, H, a, d + 1, f)
  <2> HIDE DEF add
  <2>1. QED
    BY <1>4, LevelsReady
<1>6. DlLines(b, H, a, d + 1, f)
  BY <1>5 DEF DlReady
<1>7. d + 1 \in Nat /\ d + 1 = (IF d + 1 < f THEN f ELSE d + 1) /\ (d + 1) - 1 <= Len(H[Len(H)].path)
  BY <1>2
<1>8. /\ DlLines(t, H, a, d + 1, f)
      /\ \A l \in DlLevels : t.last[l] = IF l < d + 1 THEN b.last[l] ELSE 0
  <2> DEFINE m == d + 1
  <2>1. m \in Nat /\ m = (IF m < f THEN f ELSE m) /\ (m > f => a < Len(H) /\ m - 1 <= Len(H[Len(H)].path))
    BY <1>1, <1>7
  <2>2. DlLines(b, H, a, m, f)
    BY <1>6
  <2> HIDE DEF m, b
  <2>3. /\ DlLines(DlReset(b, m), H, a, m, f)
        /\ \A l \in DlLevels : DlReset(b, m).last[l] = IF l < m THEN b.last[l] ELSE 0
    BY <2>1, <2>2, ResetLines
  <2>4. QED
    BY <2>3 DEF m
<1>9. \A l \in DlLevels : l >= d + 1 => t.last[l] = 0
  <2> HIDE DEF t, d, b
  <2>1. DlLevels \subseteq Nat
    BY DepthIsNat
  <2>2. QED
    BY <1>2, <1>8, <2>1
<1>10. DlLines(t, H, Len(H), 0, f)
  <2> HIDE DEF t
  <2>1. QED
    BY <1>8, <1>9, KernelEntered
<1>11. QED
  BY <1>3, <1>10

(* No kernel, no events.                                                   *)
LEMMA EmptyLines ==
  ASSUME NEW ev \in Seq(DlEv), Len(ev) = 0, NEW la \in [DlLevels -> {0}],
         NEW H \in Seq(DlKs), Len(H) = 0, NEW f
  PROVE  DlLines([events |-> ev, last |-> la], H, Len(H), 0, f)
<1>1. la \in [DlLevels -> 0..Len(ev)] /\ \A l \in DlLevels : la[l] = 0
  OBVIOUS
<1>2. DlTimed(H, Len(H))
  BY DEF DlTimed
<1>3. DlStack(ev, la, f)
  BY <1>1 DEF DlStack
<1>4. DlEnds(ev, la, H, Len(H), 0)
  BY <1>1 DEF DlEnds
<1>5. DlApart(ev) /\ DlTree(ev, la, H, f) /\ DlFound(ev, la, H, Len(H), 0)
  BY DEF DlApart, DlTree, DlFound
<1>6. QED
  BY <1>2, <1>3, <1>4, <1>5 DEF DlLines

(* The lines while kernels come, after each reset and when they are        *)
(* closed.                                                                 *)
THEOREM LinesSafety == DlSpec => []DlInv
<1>1. DlInit => DlInv
  <2>1. SUFFICES ASSUME DlInit PROVE DlInv
    OBVIOUS
  <2>2. dlEvents \in Seq(DlEv) /\ Len(dlEvents) = 0 /\ dlLast \in [DlLevels -> {0}]
        /\ dlInputs \in Seq(DlKs) /\ Len(dlInputs) = 0 /\ dlGpu \in BOOLEAN /\ dlClosed \in BOOLEAN /\ ~dlClosed
    <3>1. dlEvents = <<>> /\ dlInputs = <<>> /\ dlLast = [l \in DlLevels |-> 0] /\ dlGpu = TRUE /\ dlClosed = FALSE
      BY <2>1 DEF DlInit
    <3>2. dlEvents \in Seq(DlEv) /\ Len(dlEvents) = 0
      <4> HIDE DEF DlEv
      <4>1. QED
        BY <3>1
    <3>3. dlInputs \in Seq(DlKs) /\ Len(dlInputs) = 0
      <4> HIDE DEF DlKs
      <4>1. QED
        BY <3>1
    <3>4. QED
      BY <3>1, <3>2, <3>3
  <2>3. DlLines([events |-> dlEvents, last |-> dlLast], dlInputs, Len(dlInputs), 0,
                IF dlGpu THEN 0 ELSE 1)
    BY <2>2, EmptyLines
  <2>4. QED
    BY <2>2, <2>3 DEF DlInv
<1>2. DlInv /\ [DlNext]_dlVars => DlInv'
  <2> SUFFICES ASSUME DlInv, [DlNext]_dlVars PROVE DlInv'
    OBVIOUS
  <2> DEFINE s == [events |-> dlEvents, last |-> dlLast]
             f == IF dlGpu THEN 0 ELSE 1
  <2>1. /\ dlGpu \in BOOLEAN /\ dlClosed \in BOOLEAN /\ f \in {0, 1}
        /\ DlLines(s, dlInputs, Len(dlInputs), 0, f)
        /\ dlClosed => ~dlGpu /\ \A l \in DlLevels : dlLast[l] = 0
    BY DEF DlInv
  <2>2. /\ dlInputs \in Seq(DlKs) /\ Len(dlInputs) \in Nat
        /\ DlTimed(dlInputs, Len(dlInputs)) /\ DlStack(dlEvents, dlLast, f)
        /\ DlEnds(dlEvents, dlLast, dlInputs, Len(dlInputs), 0)
    BY <2>1 DEF DlLines, DlTimed
  <2>3. CASE DlKernel
    <3>1. ~dlClosed /\ dlGpu' = dlGpu /\ dlClosed' = dlClosed
      BY <2>3 DEF DlKernel
    <3>2. PICK tag \in DlTags, p \in DlPaths, d \in DlLengths, gap \in DlGaps :
            LET begin == gap + IF dlInputs = <<>> THEN 0 ELSE dlInputs[Len(dlInputs)].end
                k == [module |-> tag.module, path |-> p, group |-> tag.group,
                      scope |-> IF dlGpu THEN tag.scope ELSE 0, begin |-> begin, end |-> begin + d]
            IN /\ DlSetLines(DlAddPath([events |-> dlEvents, last |-> dlLast], k))
               /\ dlInputs' = Append(dlInputs, k)
      BY <2>3, Zenon DEF DlKernel
    <3> DEFINE begin == gap + IF dlInputs = <<>> THEN 0 ELSE dlInputs[Len(dlInputs)].end
               scope == IF dlGpu THEN tag.scope ELSE 0
               k == [module |-> tag.module, path |-> p, group |-> tag.group,
                     scope |-> scope, begin |-> begin, end |-> begin + d]
    <3>3. DlSetLines(DlAddPath(s, k)) /\ dlInputs' = Append(dlInputs, k)
      BY <3>2
    <3>4. d \in Nat /\ d > 0 /\ gap \in Nat
      BY DlAssumption
    <3>5. IF dlInputs = <<>> THEN Len(dlInputs) = 0
          ELSE Len(dlInputs) \in 1..Len(dlInputs)
      BY <2>2
    <3>6. dlInputs # <<>> => dlInputs[Len(dlInputs)].end \in Nat
      BY <3>5, <2>2, EndsInTime
    <3>7. /\ begin \in Nat /\ begin + d \in Int /\ begin < begin + d
          /\ Len(dlInputs) > 0 => dlInputs[Len(dlInputs)].end <= begin
      <4>1. begin \in Nat
        BY <3>4, <3>6
      <4>2. Len(dlInputs) > 0 => dlInputs # <<>>
        OBVIOUS
      <4>3. Len(dlInputs) > 0 => dlInputs[Len(dlInputs)].end <= begin
        BY <4>2, <3>4, <3>6
      <4>4. QED
        BY <4>1, <4>3, <3>4
    <3>8. scope \in {x.scope : x \in DlTags} \cup {0}
      OBVIOUS
    <3> HIDE DEF begin, scope
    <3>9. k \in DlKs /\ k.begin < k.end /\ (Len(dlInputs) > 0 => dlInputs[Len(dlInputs)].end <= k.begin)
      BY <3>7, <3>8 DEF DlKs
    <3> HIDE DEF k, s, f
    <3> DEFINE H == Append(dlInputs, k)
               a == Len(dlInputs)
    <3>10. DlReady(s, H, a, f, f) /\ Len(H) = a + 1 /\ H[a + 1] = k
      <4> HIDE DEF H, a
      <4>1. f \in {0, 1} /\ DlLines(s, dlInputs, Len(dlInputs), 0, f)
        BY <2>1
      <4>2. k \in DlKs /\ k.begin < k.end /\ (Len(dlInputs) > 0 => dlInputs[Len(dlInputs)].end <= k.begin)
        BY <3>9
      <4>3. /\ DlReady(s, Append(dlInputs, k), Len(dlInputs), f, f)
            /\ Len(Append(dlInputs, k)) = Len(dlInputs) + 1 /\ Append(dlInputs, k)[Len(dlInputs) + 1] = k
        BY <4>1, <4>2, KernelEnters
      <4>4. QED
        BY <4>3 DEF H, a
    <3> HIDE DEF H, a
    <3>11. a + 1 = Len(H) /\ H[Len(H)] = k /\ f = IF dlGpu THEN 0 ELSE 1
      BY <3>10 DEF f
    <3>12. DlLines(DlAddPath(s, H[Len(H)]), H, Len(H), 0, f)
      BY <3>10, <3>11, <2>1, PathLines
    <3> DEFINE t == DlAddPath(s, k)
    <3>13. DlLines(t, H, Len(H), 0, f) /\ t = [events |-> t.events, last |-> t.last]
      BY <3>11, <3>12 DEF DlLines
    <3>14. dlEvents' = t.events /\ dlLast' = t.last /\ dlInputs' = H
      BY <3>3 DEF DlSetLines, H
    <3> HIDE DEF t
    <3>15. DlLines([events |-> dlEvents', last |-> dlLast'], dlInputs', Len(dlInputs'), 0,
                   IF dlGpu' THEN 0 ELSE 1)
      BY <3>1, <3>13, <3>14 DEF f
    <3>16. QED
      BY <3>1, <3>15, <2>1 DEF DlInv
  <2>4. CASE DlOtherPlane
    <3>1. /\ dlInputs = <<>> /\ dlGpu /\ dlGpu' = FALSE
          /\ dlEvents' = dlEvents /\ dlLast' = dlLast /\ dlInputs' = dlInputs /\ dlClosed' = dlClosed
      BY <2>4 DEF DlOtherPlane
    <3>2. Len(dlInputs) = 0 /\ dlEvents \in Seq(DlEv) /\ Len(dlEvents) \in Nat /\ ~dlClosed
      BY <3>1, <2>1, <2>2 DEF DlStack
    <3>3. Len(dlEvents) = 0
      <4>1. SUFFICES ASSUME Len(dlEvents) # 0 PROVE FALSE
        OBVIOUS
      <4>2. 1 \in 1..Len(dlEvents)
        BY <4>1, <3>2
      <4>3. DlAt(dlEvents[1].level, dlInputs, 0, 0) > 0
        BY <4>2, <2>2, <3>2 DEF DlEnds
      <4>4. QED
        BY <4>3, <3>2 DEF DlAt
    <3>4. dlLast \in [DlLevels -> {0}]
      BY <3>3, <2>2 DEF DlStack
    <3>5. DlLines([events |-> dlEvents, last |-> dlLast], dlInputs, Len(dlInputs), 0, 1)
      BY <2>2, <3>2, <3>3, <3>4, EmptyLines
    <3>6. DlLines([events |-> dlEvents', last |-> dlLast'], dlInputs', Len(dlInputs'), 0,
                  IF dlGpu' THEN 0 ELSE 1)
      BY <3>1, <3>5
    <3>7. dlGpu' \in BOOLEAN /\ dlClosed' \in BOOLEAN /\ ~dlClosed'
      BY <3>1, <3>2, <2>1
    <3>8. QED
      BY <3>6, <3>7 DEF DlInv
  <2>5. CASE DlClose
    <3>1. /\ ~dlGpu /\ f = 1 /\ DlSetLines(DlReset(s, 0)) /\ dlClosed' = TRUE
          /\ dlGpu' = dlGpu /\ dlInputs' = dlInputs
      BY <2>5 DEF DlClose
    <3> DEFINE H == dlInputs
               a == Len(dlInputs)
               t == DlReset(s, 0)
    <3>2. DlLines(s, H, a, 1, 1)
      <4>1. \A l \in DlLevels : DlAt(l, H, a, 1) = DlAt(l, H, a, 0)
        BY DEF DlAt
      <4>2. DlEnds(dlEvents, dlLast, H, a, 1)
        <5>1. \A i \in 1..Len(dlEvents) : dlEvents[i].level \in DlLevels
          BY <2>2, EventTypes
        <5>2. QED
          BY <2>2, <4>1, <5>1 DEF DlEnds
      <4>3. DlFound(dlEvents, dlLast, H, a, 1)
        BY <2>1 DEF DlLines, DlFound
      <4>4. QED
        BY <4>2, <4>3, <3>1, <2>1 DEF DlLines
    <3> HIDE DEF s, H, a, f
    <3>3. /\ DlLines(t, H, a, 1, 1)
          /\ \A l \in DlLevels : t.last[l] = IF l < 1 THEN s.last[l] ELSE 0
      <4>1. 1 = (IF 0 < 1 THEN 1 ELSE 0) /\ ~(1 > 1)
        OBVIOUS
      <4>2. QED
        BY <3>2, <4>1, ResetLines
    <3>4. \A l \in DlLevels : t.last[l] = 0
      <4>1. \A l \in DlLevels : l < 1 => s.last[l] = 0
        BY <3>2, DepthIsNat DEF DlLines, DlStack
      <4>2. QED
        BY <3>3, <4>1
    <3>5. DlLines(t, H, a, 0, 1)
      <4>1. \A l \in DlLevels : DlAt(l, H, a, 1) = DlAt(l, H, a, 0)
        BY DEF DlAt, a, H
      <4>2. DlStack(t.events, t.last, 1) /\ DlEnds(t.events, t.last, H, a, 1) /\ DlFound(t.events, t.last, H, a, 1)
        BY <3>3 DEF DlLines
      <4>3. DlEnds(t.events, t.last, H, a, 0)
        <5>1. \A i \in 1..Len(t.events) : t.events[i].level \in DlLevels
          BY <4>2, EventTypes
        <5>2. QED
          BY <4>1, <4>2, <5>1 DEF DlEnds
      <4>4. DlFound(t.events, t.last, H, a, 0)
        <5>1. DlTimed(H, a)
          BY <3>3 DEF DlLines
        <5>2. \A n \in 1..Len(H) : n <= a
          BY <5>1, <2>2 DEF a, H
        <5>3. QED
          BY <4>2, <5>2 DEF DlFound
      <4>5. QED
        BY <3>3, <4>3, <4>4 DEF DlLines
    <3>6. t = [events |-> t.events, last |-> t.last]
      BY <3>5 DEF DlLines
    <3>7. dlEvents' = t.events /\ dlLast' = t.last /\ dlInputs' = H
      BY <3>1 DEF DlSetLines, H
    <3> HIDE DEF t
    <3>8. DlLines([events |-> dlEvents', last |-> dlLast'], dlInputs', Len(dlInputs'), 0,
                  IF dlGpu' THEN 0 ELSE 1)
      BY <3>1, <3>5, <3>6, <3>7 DEF a, H
    <3>9. QED
      BY <3>1, <3>4, <3>7, <3>8, <2>1 DEF DlInv
  <2>6. CASE UNCHANGED dlVars
    BY <2>6 DEF dlVars, DlInv
  <2>7. QED
    BY <2>3, <2>4, <2>5, <2>6 DEF DlNext
<1>3. QED
  BY <1>1, <1>2, PTL DEF DlSpec

(* DerivedLine: the levels of a derived line form a tree: an event lies    *)
(* within its parent, those of a level do not overlap, every kernel is     *)
(* found under its names but for the nanoseconds the trace viewer needs,   *)
(* and no event of a closed line has the span of its parent, unless        *)
(* kernels are too short for that.                                         *)
THEOREM LevelsNest == DlSpec => []DlLevelsNest
<1>1. DlInv => DlLevelsNest
  <2> SUFFICES ASSUME DlInv PROVE DlLevelsNest
    OBVIOUS
  <2> DEFINE H == dlInputs
             z == Len(H)
             ev == dlEvents
             la == dlLast
             f == IF dlGpu THEN 0 ELSE 1
             Kernels == {H[n] : n \in DOMAIN H}
  <2>1. /\ DlTimed(H, z) /\ DlStack(ev, la, f) /\ DlEnds(ev, la, H, z, 0)
        /\ DlApart(ev) /\ DlTree(ev, la, H, f) /\ DlFound(ev, la, H, z, 0)
        /\ dlGpu \in BOOLEAN
        /\ dlClosed => ~dlGpu /\ \A l \in DlLevels : la[l] = 0
    BY DEF DlInv, DlLines
  <2>2. DOMAIN H = 1..z /\ z \in Nat /\ DOMAIN ev = 1..Len(ev) /\ Len(ev) \in Nat
    BY <2>1 DEF DlTimed, DlStack
  <2>3. \A n \in 1..z : H[n] \in Kernels
    BY <2>2
  <2>4. \A k \in Kernels : \E n \in 1..z : k = H[n]
    BY <2>2
  <2> HIDE DEF H, z, ev, la, f, Kernels
  <2>5. ASSUME NEW i \in 1..Len(ev), ev[i].parent # 0
        PROVE  /\ ev[i].parent \in 1..Len(ev) /\ ev[ev[i].parent].level = ev[i].level - 1
               /\ ev[ev[i].parent].begin <= ev[i].begin
               /\ DlOpen(la, ev[i].parent) \/ DlSettled(ev[i], ev[ev[i].parent], H)
    <3>1. /\ ev[i].parent \in 1..i - 1 /\ ev[ev[i].parent].level = ev[i].level - 1
          /\ ev[ev[i].parent].begin <= ev[i].begin
          /\ ~DlOpen(la, ev[i].parent) => DlSettled(ev[i], ev[ev[i].parent], H)
      BY <2>1, <2>5 DEF DlTree
    <3>2. ev[i].parent \in 1..Len(ev)
      BY <3>1, <2>2
    <3>3. QED
      BY <3>1, <3>2
  <2>6. ASSUME NEW i \in 1..Len(ev), ev[i].parent # 0
        PROVE  \/ ev[i].end <= ev[ev[i].parent].end
               \/ \E k \in Kernels : k.begin >= ev[i].end /\ k.end - k.begin < DlNs * (ev[i].level - 2)
    <3> DEFINE q == ev[i].parent
    <3>1. q \in 1..Len(ev) /\ (DlOpen(la, q) \/ DlSettled(ev[i], ev[q], H))
      BY <2>5, <2>6
    <3>2. ev[i].level \in Nat /\ ev[i].end \in Int /\ ev[q].level \in DlLevels /\ ev[q].level \in Nat
      BY <3>1, <2>1, EventTypes
    <3> HIDE DEF q
    <3>3. CASE DlOpen(la, q)
      <4>1. la[ev[q].level] = q /\ q # 0
        BY <3>1, <3>3, <2>1, OpenAtItsLevel
      <4>2. DlAt(ev[q].level, H, z, 0) = z /\ DlAt(ev[i].level, H, z, 0) = z
        BY <3>2 DEF DlAt, z
      <4>3. ev[q].end = H[z].end
        BY <4>1, <4>2, <3>2, <2>1 DEF DlEnds
      <4>4. ev[i].end <= H[z].end
        BY <4>2, <2>1 DEF DlEnds
      <4>5. QED
        BY <4>3, <4>4 DEF q
    <3>4. CASE DlSettled(ev[i], ev[q], H)
      <4>1. CASE ev[i].end <= ev[q].end
        BY <4>1 DEF q
      <4>2. CASE \E n \in 1..Len(H) : ev[i].end <= H[n].begin
                                      /\ H[n].end - H[n].begin < DlNs * (ev[i].level - 2)
        <5>1. PICK n \in 1..z : ev[i].end <= H[n].begin
                                /\ H[n].end - H[n].begin < DlNs * (ev[i].level - 2)
          BY <4>2 DEF z
        <5>2. H[n] \in Kernels /\ H[n].begin \in Nat
          BY <5>1, <2>1, <2>3, EndsInTime DEF z
        <5>3. H[n].begin >= ev[i].end
          BY <5>1, <5>2, <3>2
        <5>4. QED
          BY <5>1, <5>2, <5>3
      <4>3. QED
        BY <3>4, <4>1, <4>2 DEF DlSettled
    <3>5. QED
      BY <3>1, <3>3, <3>4
  <2>7. DlNested
    <3>1. ASSUME NEW i \in DOMAIN dlEvents
          PROVE  LET e == dlEvents[i] p == dlEvents[e.parent] IN
                 /\ e.parent # 0 =>
                      /\ p.level = e.level - 1 /\ p.begin <= e.begin
                      /\ \/ e.end <= p.end
                         \/ \E k \in {dlInputs[n] : n \in DOMAIN dlInputs} :
                              k.begin >= e.end /\ k.end - k.begin < DlNs * (e.level - 2)
                 /\ \A j \in i + 1..Len(dlEvents) :
                      dlEvents[j].level = e.level => e.end <= dlEvents[j].begin
      <4>1. i \in 1..Len(ev)
        BY <2>2 DEF ev
      <4>2. ev[i].parent # 0 =>
              /\ ev[ev[i].parent].level = ev[i].level - 1 /\ ev[ev[i].parent].begin <= ev[i].begin
              /\ \/ ev[i].end <= ev[ev[i].parent].end
                 \/ \E k \in Kernels : k.begin >= ev[i].end /\ k.end - k.begin < DlNs * (ev[i].level - 2)
        BY <4>1, <2>5, <2>6
      <4>3. \A j \in i + 1..Len(ev) : ev[j].level = ev[i].level => ev[i].end <= ev[j].begin
        BY <4>1, <2>1, <2>2 DEF DlApart
      <4>4. QED
        BY <4>2, <4>3, Zenon DEF ev, Kernels, H
    <3>2. QED
      BY <3>1, Zenon DEF DlNested
  <2>8. ASSUME NEW k \in Kernels, NEW l \in DOMAIN k.path
        PROVE  \E i \in DOMAIN ev :
                 /\ ev[i].level = l /\ ev[i].name = k.path[l] /\ ev[i].group = k.group
                 /\ ev[i].begin <= k.begin /\ k.end < ev[i].end + DlNs * l
    <3>1. PICK n \in 1..z : k = H[n]
      BY <2>4
    <3>2. l \in 1..Len(H[n].path)
      <4>1. H[n].path \in DlPaths
        BY <2>1, EndsInTime DEF z
      <4>2. DOMAIN H[n].path = 1..Len(H[n].path)
        BY <4>1, DepthIsNat
      <4>3. QED
        BY <4>2, <3>1
    <3>3. DlFoundAt(ev, la, H[n], l)
      BY <2>1, <2>2, <3>2 DEF DlFound, z
    <3>4. QED
      BY <3>1, <3>3, <2>2 DEF DlFoundAt
  <2>9. ASSUME dlClosed, NEW i \in 1..Len(ev), ev[i].parent # 0,
               DlSpan(ev[i]) = DlSpan(ev[ev[i].parent])
        PROVE  \E k \in Kernels : /\ k.end - k.begin < DlNs * (Len(k.path) + 1)
                                  /\ ev[i].begin <= k.begin
                                  /\ k.begin < ev[i].end + DlNs * Len(k.path)
    <3> DEFINE q == ev[i].parent
    <3>1. q \in 1..Len(ev) /\ ev[q].level = ev[i].level - 1 /\ (DlOpen(la, q) \/ DlSettled(ev[i], ev[q], H))
      BY <2>5, <2>9
    <3>2. ~DlOpen(la, q) /\ f = 1
      BY <2>1, <2>2, <2>9, <3>1 DEF DlOpen, f
    <3>3. ev[q].level >= 1 /\ ev[i].level \in Nat /\ ev[q].level \in Nat
      BY <2>1, <3>1, <3>2, EventTypes DEF DlTree
    <3>4. ev[i].begin = ev[q].begin /\ ev[i].end = ev[q].end
      BY <2>9 DEF DlSpan
    <3> HIDE DEF q
    <3>5. ev[i].level >= 2
      BY <3>1, <3>3
    <3>6. PICK n \in 1..z : /\ H[n].end - H[n].begin < DlNs * (Len(H[n].path) + 1)
                            /\ ev[i].begin <= H[n].begin
                            /\ H[n].begin < ev[i].end + DlNs * Len(H[n].path)
      BY <3>1, <3>2, <3>4, <3>5 DEF DlSettled, z
    <3>7. QED
      BY <3>6, <2>3
  <2>10. DlShrunkJustEnough
    <3>1. \A k \in Kernels : \A l \in DOMAIN k.path : \E i \in DOMAIN ev :
            /\ ev[i].level = l /\ ev[i].name = k.path[l] /\ ev[i].group = k.group
            /\ ev[i].begin <= k.begin /\ k.end < ev[i].end + DlNs * l
      BY <2>8
    <3>2. dlClosed => \A i \in DOMAIN ev :
            ev[i].parent # 0 /\ DlSpan(ev[i]) = DlSpan(ev[ev[i].parent]) =>
              \E k \in Kernels : /\ k.end - k.begin < DlNs * (Len(k.path) + 1)
                                 /\ ev[i].begin <= k.begin
                                 /\ k.begin < ev[i].end + DlNs * Len(k.path)
      BY <2>2, <2>9
    <3>3. QED
      BY <3>1, <3>2, Zenon DEF DlShrunkJustEnough, Kernels, ev, H
  <2>11. QED
    BY <2>7, <2>10 DEF DlLevelsNest
<1>2. QED
  BY <1>1, LinesSafety, PTL

(* However often the events are shrunk, each keeps some of its duration;   *)
(* the type invariant.                                                     *)
THEOREM LinesTyping == DlSpec => []DlTypeOK
<1> DEFINE Bounded == Len(dlInputs) <= DlMaxInputs
<1>1. DlSpec => []Bounded
  <2>1. DlInit => Bounded
    <3>1. DlInit => Len(dlInputs) = 0
      BY DEF DlInit
    <3>2. QED
      BY <3>1, DlAssumption
  <2>2. DlInv /\ Bounded /\ [DlNext]_dlVars => Bounded'
    <3> SUFFICES ASSUME DlInv, Bounded, [DlNext]_dlVars PROVE Bounded'
      OBVIOUS
    <3>1. dlInputs \in Seq(DlKs)
      BY DEF DlInv, DlLines, DlTimed
    <3>2. CASE DlKernel
      <4>1. Len(dlInputs) < DlMaxInputs /\ \E k : dlInputs' = Append(dlInputs, k)
        BY <3>2, Zenon DEF DlKernel
      <4>2. Len(dlInputs') = Len(dlInputs) + 1 /\ Len(dlInputs) \in Nat
        BY <4>1, <3>1
      <4>3. QED
        BY <4>1, <4>2, DlAssumption
    <3>3. CASE UNCHANGED dlInputs
      BY <3>3
    <3>4. QED
      BY <3>2, <3>3 DEF DlNext, DlOtherPlane, DlClose, dlVars
  <2>3. QED
    BY <2>1, <2>2, LinesSafety, PTL DEF DlSpec
<1>2. DlInv /\ Bounded => DlTypeOK
  <2> SUFFICES ASSUME DlInv, Bounded PROVE DlTypeOK
    OBVIOUS
  <2> DEFINE f == IF dlGpu THEN 0 ELSE 1
  <2>1. /\ DlStack(dlEvents, dlLast, f) /\ DlApart(dlEvents) /\ DlTree(dlEvents, dlLast, dlInputs, f)
        /\ dlGpu \in BOOLEAN /\ dlClosed \in BOOLEAN
    BY DEF DlInv, DlLines
  <2>2. DOMAIN dlEvents = 1..Len(dlEvents) /\ dlLast \in [DlLevels -> 0..Len(dlEvents)]
    BY <2>1 DEF DlStack
  <2> HIDE DEF f
  <2>3. ASSUME NEW i \in DOMAIN dlEvents
        PROVE  /\ dlEvents[i].level \in DlLevels /\ dlEvents[i].parent \in 0..i - 1
               /\ dlEvents[i].begin < dlEvents[i].end
    <3>1. i \in 1..Len(dlEvents)
      BY <2>2
    <3>2. dlEvents[i].level \in DlLevels /\ dlEvents[i].parent \in Nat /\ Len(dlEvents) \in Nat
      BY <2>1, <3>1, EventTypes
    <3>3. dlEvents[i].parent # 0 => dlEvents[i].parent \in 1..i - 1
      BY <2>1, <3>1 DEF DlTree
    <3>4. dlEvents[i].begin < dlEvents[i].end
      BY <2>1, <3>1 DEF DlApart
    <3>5. QED
      BY <3>1, <3>2, <3>3, <3>4
  <2>4. QED
    BY <2>1, <2>2, <2>3 DEF DlTypeOK
<1>3. QED
  BY <1>1, <1>2, LinesSafety, PTL
=============================================================================
