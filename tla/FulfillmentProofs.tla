------------------------- MODULE FulfillmentProofs -------------------------
(***************************************************************************)
(* Theorems about pricing, orders and allocation, for any number of rules, *)
(* orders, leads, payloads and days.  The rules come first: an accepted    *)
(* table prices every age exactly once, and every table the admin API      *)
(* reaches is accepted.  Orders and allocations follow, and last what the  *)
(* shop and the administrator are shown of them.                           *)
(***************************************************************************)
EXTENDS Reports, TLAPS, WellFoundedInduction, FiniteSetTheorems

(* The least-number principle, for a set. *)
LEMMA LeastNatural ==
  ASSUME NEW S, S \subseteq Nat, S # {}
  PROVE  \E n \in S : \A m \in S : n <= m
<1>1. PICK n \in S : \A m \in S : ~(<<m, n>> \in OpToRel(<, Nat))
  BY NatLessThanWellFounded, WFMin, Zenon
<1>2. \A m \in S : ~(m < n)
  BY <1>1 DEF OpToRel
<1>. QED BY <1>2

(* Induction over the subsets of a finite set, as the least counterexample. *)
LEMMA SmallestSubset ==
  ASSUME NEW S, IsFiniteSet(S), NEW Bad, Bad \subseteq SUBSET S, Bad # {}
  PROVE  \E T \in Bad : \A x \in T : T \ {x} \notin Bad
<1>. DEFINE Sizes == {Cardinality(T) : T \in Bad}
<1>1. \A T \in Bad : IsFiniteSet(T) /\ Cardinality(T) \in Nat
  BY FS_Subset, FS_CardinalityType
<1>2. Sizes \subseteq Nat /\ Sizes # {}
  BY <1>1
<1>3. PICK n \in Sizes : \A m \in Sizes : n <= m
  <2>. HIDE DEF Sizes
  <2>. QED BY <1>2, LeastNatural
<1>4. PICK T \in Bad : Cardinality(T) = n
  OBVIOUS
<1>5. ASSUME NEW x \in T, T \ {x} \in Bad
      PROVE  FALSE
  <2>1. Cardinality(T \ {x}) = Cardinality(T) - 1
    BY <1>1, FS_RemoveElement
  <2>2. n <= Cardinality(T \ {x})
    BY <1>3, <1>5
  <2>. QED BY <1>1, <1>4, <2>1, <2>2
<1>. QED BY <1>5

(* Among the active rules starting at or before an age one starts last; the
   distance to the age is a natural number, so a smallest one exists. *)
LEMMA LatestStart ==
  ASSUME NEW t \in Tables, NEW age \in Nat,
         \E r \in ActiveRules(t) : t[r].min <= age
  PROVE  \E r \in ActiveRules(t) :
           /\ t[r].min <= age
           /\ \A s \in ActiveRules(t) : t[s].min <= age => t[s].min <= t[r].min
<1>. DEFINE Started == {r \in ActiveRules(t) : t[r].min <= age}
            Distances == {age - t[r].min : r \in Started}
<1>1. \A r \in ActiveRules(t) : t[r].min \in Nat
  BY PricingAssumption DEF Tables, ActiveRules, Existing, RuleInput
<1>2. Distances \subseteq Nat /\ Distances # {}
  <2>1. \A r \in Started : age - t[r].min \in Nat
    BY <1>1
  <2>2. Started # {}
    OBVIOUS
  <2>. HIDE DEF Started
  <2>. QED BY <2>1, <2>2
<1>. HIDE DEF Distances
<1>4. PICK d \in Distances : \A e \in Distances : d <= e
  BY <1>2, LeastNatural
<1>5. PICK r \in Started : d = age - t[r].min
  BY <1>4 DEF Distances
<1>6. ASSUME NEW s \in ActiveRules(t), t[s].min <= age
      PROVE  t[s].min <= t[r].min
  <2>1. age - t[s].min \in Distances
    BY <1>6 DEF Distances
  <2>2. age - t[r].min <= age - t[s].min
    BY <2>1, <1>4, <1>5
  <2>. QED BY <2>2, <1>1, <1>5, <1>6
<1>. QED BY <1>5, <1>6

(* validate_ranges is exact: a table it accepts prices each age once. *)
THEOREM ValidRangesExactCover ==
  ASSUME NEW t \in Tables, ValidRanges(t), NEW age \in Nat
  PROVE  \E r \in RuleIds : Applicable(t, age) = {r}
<1>1. \A r \in ActiveRules(t) :
        /\ r \in RuleIds
        /\ t[r].min \in Nat
        /\ t[r].max = Open \/ (t[r].max \in Nat /\ t[r].min <= t[r].max)
  BY PricingAssumption DEF Tables, ActiveRules, Existing, RuleInput
<1>2. PICK r \in ActiveRules(t) :
        /\ t[r].min <= age
        /\ \A s \in ActiveRules(t) : t[s].min <= age => t[s].min <= t[r].min
  BY LatestStart DEF ValidRanges
<1>3. Covers(t[r], age)
  <2>1. CASE Later(t, r) = {}
    BY <2>1, <1>2 DEF ValidRanges, Covers
  <2>2. CASE Later(t, r) # {}
    <3>1. PICK s \in Later(t, r) : t[r].max # Open /\ t[s].min = t[r].max + 1
      BY <2>2, <1>2 DEF ValidRanges, Contiguous
    <3>2. ~(t[s].min <= age)
      BY <3>1, <1>1, <1>2 DEF Later
    <3>. QED BY <3>1, <3>2, <1>1, <1>2 DEF Covers, Later
  <2>. QED BY <2>1, <2>2
<1>4. ASSUME NEW s \in ActiveRules(t), Covers(t[s], age), s # r
      PROVE  FALSE
  <2>1. t[s].min <= age /\ t[s].min < t[r].min
    BY <1>1, <1>2, <1>4 DEF Covers, ValidRanges
  <2>2. r \in Later(t, s)
    BY <2>1, <1>2 DEF Later
  <2>3. t[s].max # Open /\ t[r].min >= t[s].max + 1
    BY <2>2, <1>4 DEF ValidRanges, Contiguous
  <2>. QED BY <2>3, <1>1, <1>2, <1>4 DEF Covers
<1>. QED BY <1>1, <1>2, <1>3, <1>4 DEF Applicable

(* What the admin endpoints keep: well-formed rows in an accepted table. *)
PricingInv == PricingTypeOK /\ ValidRanges(rules)

(* Seeding and every accepted request leave a well-formed and valid table. *)
LEMMA PricingInvariant == PricingSpec => []PricingInv
<1>1. PricingInit => PricingInv
  BY SeedAssumption DEF PricingInit, PricingInv, PricingTypeOK
<1>2. PricingInv /\ [PricingNext]_rules => PricingInv'
  <2>. SUFFICES ASSUME PricingInv, [PricingNext]_rules PROVE PricingInv'
    OBVIOUS
  <2>1. ASSUME NEW r \in RuleIds, NEW input \in Inputs, Create(r, input)
        PROVE  PricingInv'
    BY <2>1 DEF PricingInv, PricingTypeOK, Tables, Create
  <2>2. ASSUME NEW r \in RuleIds, NEW input \in Inputs, Update(r, input)
        PROVE  PricingInv'
    BY <2>2 DEF PricingInv, PricingTypeOK, Tables, Update
  <2>3. ASSUME NEW table \in Tables, UpdateBatch(table)
        PROVE  PricingInv'
    BY <2>3 DEF PricingInv, PricingTypeOK, UpdateBatch
  <2>4. CASE UNCHANGED rules
    BY <2>4 DEF PricingInv, PricingTypeOK, ValidRanges, ActiveRules, Existing,
                Later, Contiguous
  <2>. QED BY <2>1, <2>2, <2>3, <2>4 DEF PricingNext
<1>. QED BY <1>1, <1>2, PTL DEF PricingSpec

(* The table holds well-formed rows after any sequence of admin requests. *)
THEOREM PricingTypeCorrect == PricingSpec => []PricingTypeOK
<1>1. PricingInv => PricingTypeOK
  BY DEF PricingInv
<1>. QED BY <1>1, PricingInvariant, PTL

(* After any sequence of accepted edits every age has exactly one price. *)
THEOREM PricingExactCover == PricingSpec => []ExactCover
<1>1. PricingInv => ExactCover
  BY ValidRangesExactCover, PricingAssumption
     DEF PricingInv, PricingTypeOK, ExactCover
<1>. QED BY <1>1, PricingInvariant, PTL

(* The age condition of the query is the range check of the lookup: days are counted
   back from today, and no lead is older than the first day of the calendar. *)
LEMMA AgeConditionIsCovers ==
  ASSUME NEW rule \in RuleInput, NEW date \in Nat \ {0}, NEW today \in Nat
  PROVE  AgeCondition(rule, date, today) <=> Covers(rule, today - date)
<1>1. rule.min \in Nat /\ (rule.max = Open \/ (rule.max \in Nat /\ rule.min <= rule.max))
  BY DEF RuleInput
<1>2. CASE rule.max = Open
  BY <1>1, <1>2 DEF AgeCondition, Covers
<1>3. CASE rule.max # Open
  BY <1>1, <1>3 DEF AgeCondition, Covers
<1>. QED BY <1>2, <1>3

(* The stock query of a tier and the rule lookup of a lead, written apart in the
   code, choose the same rules for every date of a lead and every today. *)
THEOREM QueryAndRuleAgree == PricingSpec => []QueryAgreesWithRule
<1>1. PricingInv => QueryAgreesWithRule
  <2>. SUFFICES ASSUME PricingInv, NEW date \in Days, NEW today \in Days
                PROVE  {r \in ActiveRules(rules) : AgeCondition(rules[r], date, today)}
                         = Applicable(rules, today - date)
    BY DEF QueryAgreesWithRule
  <2>1. date \in Nat \ {0} /\ today \in Nat
    <3>1. \A age \in Ages : age + 1 \in Nat \ {0}
      BY PricingAssumption
    <3>. QED BY <3>1 DEF Days
  <2>2. \A r \in ActiveRules(rules) : rules[r] \in RuleInput
    BY PricingAssumption DEF PricingInv, PricingTypeOK, Tables, ActiveRules, Existing
  <2>. QED BY <2>1, <2>2, AgeConditionIsCovers DEF Applicable
<1>. QED BY <1>1, PricingInvariant, PTL

(* Of finitely many elements one has the greatest key. *)
LEMMA GreatestKey ==
  ASSUME NEW S, IsFiniteSet(S), S # {}, NEW key, \A x \in S : key[x] \in Nat
  PROVE  \E x \in S : \A y \in S : key[y] <= key[x]
<1>. DEFINE Fine(T) == \E x \in T : \A y \in T : key[y] <= key[x]
            Bad == {T \in SUBSET S : T # {} /\ ~Fine(T)}
<1>1. ASSUME NEW T \in Bad, \A x \in T : T \ {x} \notin Bad
      PROVE  FALSE
  <2>1. PICK x \in T : TRUE
    OBVIOUS
  <2>2. CASE T = {x}
    BY <2>2
  <2>3. CASE T # {x}
    <3>1. T \ {x} # {}
      BY <2>1, <2>3
    <3>2. PICK y \in T \ {x} : \A z \in T \ {x} : key[z] <= key[y]
      BY <1>1, <3>1
    <3>3. key[x] \in Nat /\ key[y] \in Nat /\ \A z \in T : key[z] \in Nat
      OBVIOUS
    <3>4. CASE key[x] <= key[y]
      BY <3>2, <3>4
    <3>5. CASE ~ (key[x] <= key[y])
      <4>1. \A z \in T : key[z] <= key[x]
        BY <3>2, <3>3, <3>5
      <4>. QED BY <4>1
    <3>. QED BY <3>4, <3>5
  <2>. QED BY <2>2, <2>3
<1>2. Bad = {}
  <2>1. Bad \subseteq SUBSET S
    OBVIOUS
  <2>. HIDE DEF Bad
  <2>. QED BY <1>1, <2>1, SmallestSubset
<1>. QED BY <1>2

(* A finite set can be listed in the order of any natural number its elements have;
   the last one is removed, the rest listed, the last one appended. *)
LEMMA SortedListExists ==
  ASSUME NEW S, IsFiniteSet(S), NEW key, \A x \in S : key[x] \in Nat
  PROVE  \E list \in [1..Cardinality(S) -> S] :
           /\ \A x \in S : \E i \in 1..Cardinality(S) : list[i] = x
           /\ \A i, j \in 1..Cardinality(S) :
                i < j => list[i] # list[j] /\ key[list[i]] <= key[list[j]]
<1>. DEFINE Lists(list, T) ==
              /\ list \in [1..Cardinality(T) -> T]
              /\ \A x \in T : \E i \in 1..Cardinality(T) : list[i] = x
              /\ \A i, j \in 1..Cardinality(T) :
                   i < j => list[i] # list[j] /\ key[list[i]] <= key[list[j]]
            Bad == {T \in SUBSET S : ~ \E list : Lists(list, T)}
<1>1. ASSUME NEW T \in Bad, \A x \in T : T \ {x} \notin Bad
      PROVE  FALSE
  <2>1. IsFiniteSet(T) /\ Cardinality(T) \in Nat
    BY FS_Subset, FS_CardinalityType
  <2>2. T # {}
    <3>1. Lists([i \in 1..0 |-> 0], {})
      BY FS_EmptySet
    <3>. HIDE DEF Lists
    <3>. QED BY <3>1
  <2>3. PICK x \in T : \A y \in T : key[y] <= key[x]
    BY <2>1, <2>2, GreatestKey
  <2>. DEFINE n == Cardinality(T)
              rest == T \ {x}
  <2>4. Cardinality(rest) = n - 1 /\ n - 1 \in Nat /\ n \in Nat /\ rest \in SUBSET S
    <3>1. IsFiniteSet(rest) /\ Cardinality(rest) = n - 1
      BY <2>1, FS_RemoveElement
    <3>2. Cardinality(rest) \in Nat
      BY <3>1, FS_CardinalityType
    <3>. QED BY <2>1, <3>1, <3>2
  <2>5. PICK list : Lists(list, rest)
    BY <1>1, <2>4
  <2>. DEFINE longer == [i \in 1..n |-> IF i = n THEN x ELSE list[i]]
  <2>6. ASSUME NEW i \in 1..n, i # n
        PROVE  i \in 1..(n - 1) /\ list[i] \in rest /\ longer[i] = list[i]
    <3>1. i \in 1..(n - 1)
      BY <2>4, <2>6
    <3>2. longer[i] = list[i]
      BY <2>6
    <3>3. list \in [1..(n - 1) -> rest]
      BY <2>4, <2>5
    <3>. QED BY <3>1, <3>2, <3>3
  <2>7. Lists(longer, T)
    <3>1. longer \in [1..n -> T]
      BY <2>6
    <3>2. ASSUME NEW y \in T
          PROVE  \E i \in 1..n : longer[i] = y
      <4>1. n \in 1..n /\ longer[n] = x
        BY <2>4
      <4>2. CASE y # x
        <5>1. PICK i \in 1..(n - 1) : list[i] = y
          BY <2>4, <2>5, <4>2
        <5>2. i \in 1..n /\ i # n
          BY <2>4
        <5>. QED BY <2>6, <5>1, <5>2
      <4>. QED BY <4>1, <4>2
    <3>3. ASSUME NEW i \in 1..n, NEW j \in 1..n, i < j
          PROVE  longer[i] # longer[j] /\ key[longer[i]] <= key[longer[j]]
      <4>1. i # n /\ longer[i] = list[i] /\ list[i] \in rest
        BY <2>4, <2>6, <3>3
      <4>2. CASE j = n
        BY <2>3, <4>1, <4>2
      <4>3. CASE j # n
        BY <2>4, <2>5, <2>6, <3>3, <4>1, <4>3
      <4>. QED BY <4>2, <4>3
    <3>. QED BY <3>1, <3>2, <3>3
  <2>8. ~ \E l : Lists(l, T)
    OBVIOUS
  <2>. HIDE DEF Lists
  <2>. QED BY <2>7, <2>8
<1>2. Bad = {}
  <2>1. Bad \subseteq SUBSET S
    OBVIOUS
  <2>. HIDE DEF Bad
  <2>. QED BY <1>1, <2>1, SmallestSubset
<1>. QED BY <1>2

(* validate_ranges as written: whichever way it sorts, the neighbour comparison
   accepts exactly the tables that ValidRanges describes. *)
THEOREM ScanIsExact ==
  ASSUME NEW t \in Tables, NEW list \in SortedLists(t)
  PROVE  ValidRanges(t) <=> ScanAccepts(t, list)
<1>. DEFINE A == ActiveRules(t)
            n == Cardinality(A)
<1>1. \A r \in A :
        /\ t[r].min \in Nat
        /\ t[r].max = Open \/ (t[r].max \in Nat /\ t[r].min <= t[r].max)
  BY PricingAssumption DEF Tables, ActiveRules, Existing, RuleInput
<1>2. n \in Nat
  BY PricingAssumption, FS_Subset, FS_CardinalityType DEF ActiveRules, Existing
<1>3. /\ \A i \in 1..n : list[i] \in A
      /\ \A r \in A : \E i \in 1..n : list[i] = r
      /\ \A i, j \in 1..n : i < j => list[i] # list[j] /\ t[list[i]].min <= t[list[j]].min
  BY DEF SortedLists
<1>. HIDE DEF n, A
<1>4. ASSUME ValidRanges(t)
      PROVE  ScanAccepts(t, list)
  <2>1. \A i, j \in 1..n : i < j => t[list[i]].min < t[list[j]].min
    <3>1. \A r, s \in A : r # s => t[r].min # t[s].min
      BY <1>4 DEF ValidRanges, A
    <3>. QED BY <1>1, <1>3, <3>1
  <2>2. n > 0 /\ t[list[1]].min = 0
    <3>1. PICK r \in A : t[r].min = 0
      BY <1>4 DEF ValidRanges, A
    <3>2. PICK i \in 1..n : list[i] = r
      BY <1>3
    <3>3. n > 0 /\ 1 \in 1..n /\ (i = 1 \/ 1 < i)
      BY <1>2
    <3>4. t[list[1]].min <= 0
      BY <1>3, <3>1, <3>2, <3>3
    <3>. QED BY <1>1, <1>3, <3>3, <3>4
  <2>3. ASSUME NEW i \in 1..(n - 1)
        PROVE  /\ t[list[i]].max # Open
               /\ t[list[i + 1]].min = t[list[i]].max + 1
    <3>1. i \in 1..n /\ i + 1 \in 1..n /\ i < i + 1
      BY <1>2
    <3>2. list[i + 1] \in Later(t, list[i])
      BY <1>3, <2>1, <3>1 DEF Later, A
    <3>3. Contiguous(t, list[i])
      BY <1>3, <1>4, <3>1, <3>2 DEF ValidRanges, A
    <3>4. PICK s \in Later(t, list[i]) : t[s].min = t[list[i]].max + 1
      BY <3>3 DEF Contiguous
    <3>5. s \in A /\ t[s].min > t[list[i]].min
      BY <3>4 DEF Later, A
    <3>6. PICK k \in 1..n : list[k] = s
      BY <1>3, <3>5
    <3>7. i < k
      <4>1. ~ (k < i) /\ k # i
        BY <1>1, <1>3, <2>1, <3>1, <3>5, <3>6
      <4>. QED BY <4>1
    <3>8. t[list[i + 1]].min <= t[s].min
      <4>1. i + 1 = k \/ i + 1 < k
        BY <3>7
      <4>. QED BY <1>1, <1>3, <3>1, <3>5, <3>6, <4>1
    <3>9. t[list[i + 1]].min >= t[list[i]].max + 1 /\ t[list[i]].max # Open
      BY <3>2, <3>3 DEF Contiguous
    <3>. QED BY <1>1, <1>3, <3>1, <3>4, <3>8, <3>9
  <2>4. t[list[n]].max = Open
    <3>1. n \in 1..n
      BY <1>2, <2>2
    <3>2. Later(t, list[n]) = {}
      <4>. SUFFICES ASSUME NEW s \in A, t[s].min > t[list[n]].min PROVE FALSE
        BY DEF Later, A
      <4>1. PICK k \in 1..n : list[k] = s
        BY <1>3
      <4>2. k = n \/ k < n
        BY <1>2
      <4>. QED BY <1>1, <1>3, <3>1, <4>1, <4>2
    <3>. QED BY <1>3, <1>4, <3>1, <3>2 DEF ValidRanges, A
  <2>. QED BY <2>2, <2>3, <2>4 DEF ScanAccepts, n, A
<1>5. ASSUME ScanAccepts(t, list)
      PROVE  ValidRanges(t)
  <2>1. /\ n > 0 /\ t[list[1]].min = 0 /\ t[list[n]].max = Open
        /\ \A i \in 1..(n - 1) : t[list[i]].max # Open /\ t[list[i + 1]].min = t[list[i]].max + 1
    BY <1>5 DEF ScanAccepts, n, A
  <2>2. ASSUME NEW i \in 1..n, NEW j \in 1..n, i < j
        PROVE  /\ t[list[i]].min < t[list[j]].min
               /\ t[list[i]].max # Open
               /\ t[list[j]].min >= t[list[i]].max + 1
               /\ i + 1 \in 1..n /\ t[list[i + 1]].min = t[list[i]].max + 1
    <3>1. i \in 1..(n - 1) /\ i + 1 \in 1..n /\ (i + 1 = j \/ i + 1 < j)
      BY <1>2, <2>2
    <3>2. t[list[i]].max # Open /\ t[list[i + 1]].min = t[list[i]].max + 1
      BY <2>1, <3>1
    <3>3. t[list[i + 1]].min <= t[list[j]].min
      BY <1>1, <1>3, <3>1
    <3>. QED BY <1>1, <1>3, <3>1, <3>2, <3>3
  <2>3. \E r \in A : t[r].min = 0
    <3>1. 1 \in 1..n
      BY <1>2, <2>1
    <3>. QED BY <1>3, <2>1, <3>1
  <2>4. ASSUME NEW r \in A, NEW s \in A, r # s
        PROVE  t[r].min # t[s].min
    <3>1. PICK i \in 1..n : list[i] = r
      BY <1>3
    <3>2. PICK j \in 1..n : list[j] = s
      BY <1>3
    <3>3. i < j \/ j < i
      BY <2>4, <3>1, <3>2
    <3>. QED BY <1>1, <2>2, <3>1, <3>2, <3>3
  <2>5. ASSUME NEW r \in A
        PROVE  IF Later(t, r) = {} THEN t[r].max = Open ELSE Contiguous(t, r)
    <3>1. PICK i \in 1..n : list[i] = r
      BY <1>3
    <3>2. ASSUME NEW s \in Later(t, r)
          PROVE  \E j \in 1..n : list[j] = s /\ i < j
      <4>1. s \in A /\ t[s].min > t[r].min
        BY DEF Later, A
      <4>2. PICK j \in 1..n : list[j] = s
        BY <1>3, <4>1
      <4>3. j # i /\ ~ (j < i)
        BY <1>1, <1>3, <3>1, <4>1, <4>2
      <4>. QED BY <4>2, <4>3
    <3>3. CASE i = n
      <4>1. Later(t, r) = {}
        BY <1>2, <3>2, <3>3
      <4>. QED BY <2>1, <3>1, <3>3, <4>1
    <3>4. CASE i # n
      <4>1. i < n /\ n \in 1..n
        BY <1>2, <2>1, <3>4
      <4>2. t[r].max # Open /\ i + 1 \in 1..n /\ t[list[i + 1]].min = t[r].max + 1
        BY <2>2, <3>1, <4>1
      <4>3. t[r].min < t[list[i + 1]].min
        BY <2>2, <3>1, <4>2
      <4>4. list[i + 1] \in Later(t, r)
        BY <1>3, <4>2, <4>3 DEF Later, A
      <4>5. \A s \in Later(t, r) : t[s].min >= t[r].max + 1
        BY <2>2, <3>1, <3>2
      <4>. QED BY <4>2, <4>4, <4>5 DEF Contiguous
    <3>. QED BY <3>3, <3>4
  <2>. QED BY <2>3, <2>4, <2>5 DEF ValidRanges, A
<1>. QED BY <1>4, <1>5

(* Whatever was edited before, an edit is accepted exactly if the scan of its sorted
   rules accepts it, and there is a sorted list to scan. *)
THEOREM CheckAndScanAgree == PricingSpec => []CheckAgreesWithSortedScan
<1>1. PricingTypeOK => CheckAgreesWithSortedScan
  <2>. SUFFICES ASSUME PricingTypeOK, NEW r \in RuleIds, NEW input \in Inputs,
                       NEW edited, edited = [rules EXCEPT ![r] = input]
                PROVE  /\ SortedLists(edited) # {}
                       /\ \A list \in SortedLists(edited) :
                            ValidRanges(edited) = ScanAccepts(edited, list)
    BY DEF CheckAgreesWithSortedScan
  <2>1. edited \in Tables
    BY DEF PricingTypeOK, Tables
  <2>2. \A list \in SortedLists(edited) : ValidRanges(edited) = ScanAccepts(edited, list)
    <3>1. \A list \in SortedLists(edited) :
            /\ ValidRanges(edited) \in BOOLEAN
            /\ ScanAccepts(edited, list) \in BOOLEAN
      BY DEF ValidRanges, ScanAccepts
    <3>. QED BY <2>1, <3>1, ScanIsExact
  <2>3. SortedLists(edited) # {}
    <3>. DEFINE A == ActiveRules(edited)
                key == [q \in A |-> edited[q].min]
    <3>1. IsFiniteSet(A)
      BY PricingAssumption, FS_Subset DEF ActiveRules, Existing
    <3>2. \A q \in A : key[q] = edited[q].min /\ key[q] \in Nat
      BY <2>1, PricingAssumption DEF Tables, ActiveRules, Existing, RuleInput
    <3>. HIDE DEF key
    <3>3. PICK list \in [1..Cardinality(A) -> A] :
            /\ \A q \in A : \E i \in 1..Cardinality(A) : list[i] = q
            /\ \A i, j \in 1..Cardinality(A) :
                 i < j => list[i] # list[j] /\ key[list[i]] <= key[list[j]]
      BY <3>1, <3>2, SortedListExists
    <3>4. \A i, j \in 1..Cardinality(A) :
            i < j => list[i] # list[j] /\ edited[list[i]].min <= edited[list[j]].min
      <4>. HIDE DEF A
      <4>. QED BY <3>2, <3>3
    <3>5. list \in SortedLists(edited)
      <4>1. SortedLists(edited) =
              {l \in [1..Cardinality(A) -> A] :
                 /\ \A q \in A : \E i \in 1..Cardinality(A) : l[i] = q
                 /\ \A i, j \in 1..Cardinality(A) :
                      i < j => l[i] # l[j] /\ edited[l[i]].min <= edited[l[j]].min}
        BY DEF SortedLists
      <4>. HIDE DEF A
      <4>. QED BY <3>3, <3>4, <4>1
    <3>. QED BY <3>5
  <2>. QED BY <2>2, <2>3
<1>. QED BY <1>1, PricingTypeCorrect, PTL

(***************************************************************************)
(* Orders and allocations.                                                 *)
(***************************************************************************)
(* What the code keeps besides the promises themselves: allocations are dated
   in the past and belong to fulfilled orders.  Without it a new sale could
   not be ordered after the old ones of the same lead. *)
AllocationsDated ==
  \A a \in allocations :
    /\ a.at <= clock /\ a.at <= a.until
    /\ Placed(a.order) /\ orders[a.order].status = "FULFILLED"

(* A call to Stripe is made for an order that is already stored. *)
CallingIsPlaced == \A o \in Orders : checkout[o] = "calling" => Placed(o)

Inv ==
  /\ FulfillmentTypeOK
  /\ CallingIsPlaced
  /\ ValidRanges(rules)
  /\ AllocationsDated
  /\ ExclusiveSales
  /\ ExactFulfillment
  /\ PaymentIsSettled
  /\ OnePaymentOneOrder

(***************************************************************************)
(* Types.                                                                  *)
(***************************************************************************)
(* The configured zone gives every instant a calendar day. *)
LEMMA TimeType ==
  ASSUME FulfillmentTypeOK
  PROVE  clock \in Nat /\ BusinessDay \in Nat
BY FulfillmentAssumption DEF FulfillmentTypeOK, BusinessDay

(* An order that was placed is a row of the table. *)
LEMMA PlacedOrderType ==
  ASSUME FulfillmentTypeOK, NEW o \in Orders, Placed(o)
  PROVE  orders[o] \in Order
BY DEF FulfillmentTypeOK, Placed

(* Binding a report to its order, and failing the order then, keeps the row well-formed. *)
LEMMA BoundType ==
  ASSUME FulfillmentTypeOK, NEW p \in Payloads, Bindable(p)
  PROVE  /\ p \in Payload
         /\ p.order \in Orders
         /\ orders[p.order] \in Order
         /\ Bound(p) \in Order
         /\ FailIfPending(Bound(p)) \in Order
<1>1. p \in Payload /\ p.order \in Orders /\ p.id \in CheckoutIds
  BY FulfillmentAssumption DEF Bindable, Payload
<1>2. orders[p.order] \in Order
  BY <1>1, PlacedOrderType DEF Bindable
<1>3. Bound(p) \in Order
  BY <1>1, <1>2 DEF Bound, Order
<1>4. FailIfPending(Bound(p)) \in Order
  BY <1>3 DEF FailIfPending, Order, Statuses
<1>. QED BY <1>1, <1>2, <1>3, <1>4

(* So does recording the payment with the verdict on it. *)
LEMMA SettledType ==
  ASSUME FulfillmentTypeOK, NEW p \in Payloads, Payable(p), NEW status \in Statuses
  PROVE  /\ Settled(p, status) \in Order
         /\ Settled(p, status).status = status
         /\ Settled(p, status).intent = p.intent
         /\ Settled(p, status).quantity = orders[p.order].quantity
         /\ Settled(p, status).price = orders[p.order].price
<1>1. Bindable(p) /\ p.intent # None
  BY DEF Payable
<1>2. p \in Payload /\ orders[p.order] \in Order /\ Bound(p) \in Order
  BY <1>1, BoundType
<1>3. p.intent \in Intents
  BY <1>1, <1>2 DEF Payload
<1>4. Bound(p).quantity = orders[p.order].quantity /\ Bound(p).price = orders[p.order].price
  BY <1>2 DEF Bound, Order
<1>. QED BY <1>2, <1>3, <1>4 DEF Settled, Order

(* A lead the eligibility query returns has exactly one applicable rule, and
   that rule has the price asked for. *)
LEMMA EligibleLeadRule ==
  ASSUME FulfillmentTypeOK, ValidRanges(rules), NEW price, NEW place,
         NEW l \in Eligible(price, place)
  PROVE  LET r == ApplicableRule(rules, Age(l))
         IN  /\ r \in RuleIds
             /\ rules[r] \in RuleInput
             /\ rules[r].price = price
             /\ Applicable(rules, Age(l)) = {r}
<1>1. l \in Leads /\ leads[l].date \in Nat /\ BusinessDay \in Nat /\ leads[l].date <= BusinessDay
  BY TimeType DEF Eligible, EligibleQuery, FulfillmentTypeOK, LeadRecord
<1>2. Age(l) \in Nat
  BY <1>1 DEF Age
<1>3. PICK s \in RuleIds : Applicable(rules, Age(l)) = {s}
  BY <1>2, ValidRangesExactCover DEF FulfillmentTypeOK, PricingTypeOK
<1>4. ApplicableRule(rules, Age(l)) = s
  BY <1>3 DEF ApplicableRule
<1>5. PICK r \in ActiveRules(rules) : rules[r].price = price /\ Covers(rules[r], Age(l))
  BY DEF Eligible, EligibleQuery, Tier
<1>6. r = s
  BY <1>3, <1>5 DEF Applicable
<1>7. rules[s] \in RuleInput
  BY <1>5, <1>6, PricingAssumption
     DEF FulfillmentTypeOK, PricingTypeOK, Tables, ActiveRules, Existing
<1>. QED BY <1>3, <1>4, <1>5, <1>6, <1>7

(* What fulfillment writes for an eligible lead is a well-formed allocation, dated
   today and priced as the order was paid. *)
LEMMA AllocationType ==
  ASSUME FulfillmentTypeOK, ValidRanges(rules), NEW o \in Orders, Placed(o),
         NEW l \in Eligible(orders[o].price, orders[o].municipality)
  PROVE  LET a == AllocationFor(o, l)
         IN  /\ a \in Allocation
             /\ a.order = o /\ a.lead = l /\ a.price = orders[o].price
             /\ a.rule = ApplicableRule(rules, Age(l))
             /\ a.at = clock /\ a.until >= clock
<1>. DEFINE r == ApplicableRule(rules, Age(l))
<1>1. r \in RuleIds /\ rules[r] \in RuleInput
  BY EligibleLeadRule
<1>2. rules[r].days \in Nat /\ Day \in Nat /\ clock \in Nat /\ l \in Leads
  BY <1>1, TimeType, FulfillmentAssumption DEF RuleInput, Eligible, EligibleQuery
<1>3. orders[o].price \in Nat \ {0}
  BY PlacedOrderType DEF Order
<1>4. rules[r].days * Day \in Nat
  BY <1>2
<1>. QED BY <1>1, <1>2, <1>3, <1>4 DEF AllocationFor, Allocation

(***************************************************************************)
(* Steps that sell nothing.  They keep every sale and every order that has *)
(* one; the three promises about sales follow from that alone.             *)
(***************************************************************************)
SellsNothing ==
  /\ allocations' = allocations
  /\ clock' \in Nat /\ clock <= clock'
  /\ \A o \in Orders :
       /\ Placed(o) => /\ Placed(o)'
                       /\ orders'[o].quantity = orders[o].quantity
                       /\ orders'[o].price = orders[o].price
                       /\ orders'[o].status = "FULFILLED" <=> orders[o].status = "FULFILLED"
       /\ ~Placed(o) /\ Placed(o)' => orders'[o].status # "FULFILLED"

(* Sales stay exclusive and complete in a step that sells nothing and leaves every
   sold order sold. *)
LEMMA SalesKept ==
  ASSUME Inv, SellsNothing
  PROVE  (AllocationsDated /\ ExclusiveSales /\ ExactFulfillment)'
<1>1. AllocationsDated'
  <2>1. \A a \in allocations : a.order \in Orders /\ a.at \in Nat
    BY DEF Inv, FulfillmentTypeOK, Allocation
  <2>2. clock \in Nat
    BY TimeType DEF Inv
  <2>. QED BY <2>1, <2>2 DEF Inv, AllocationsDated, SellsNothing
<1>2. ExclusiveSales'
  BY DEF Inv, ExclusiveSales, SellsNothing
<1>3. ExactFulfillment'
  <2>1. \A o : SoldTo(o)' = SoldTo(o) /\ LeadsOf(o)' = LeadsOf(o)
    BY DEF SoldTo, LeadsOf, SellsNothing
  <2>2. ASSUME NEW o \in Orders
        PROVE  (IF Placed(o) /\ orders[o].status = "FULFILLED"
                THEN /\ Cardinality(LeadsOf(o)) = orders[o].quantity
                     /\ \A a \in SoldTo(o) : a.price = orders[o].price
                ELSE SoldTo(o) = {})'
    <3>1. CASE Placed(o) /\ orders[o].status = "FULFILLED"
      BY <3>1, <2>1 DEF Inv, ExactFulfillment, SellsNothing
    <3>2. CASE ~(Placed(o) /\ orders[o].status = "FULFILLED")
      BY <3>2, <2>1 DEF Inv, ExactFulfillment, SellsNothing
    <3>. QED BY <3>1, <3>2
  <2>. QED BY <2>2 DEF ExactFulfillment
<1>. QED BY <1>1, <1>2, <1>3

(* Steps that record no payment: they keep the intent of every order and
   settle none. *)
PaysNothing ==
  \A o \in Orders :
    /\ Placed(o) => /\ Placed(o)'
                    /\ orders'[o].intent = orders[o].intent
                    /\ orders'[o].status # "PAID"
                    /\ orders'[o].status \in TERMINAL <=> orders[o].status \in TERMINAL
    /\ ~Placed(o) /\ Placed(o)' =>
         /\ orders'[o].intent = None
         /\ orders'[o].status = "PENDING"

(* Payments stay settled and unique in a step that records none. *)
LEMMA PaymentsKept ==
  ASSUME Inv, PaysNothing
  PROVE  (PaymentIsSettled /\ OnePaymentOneOrder)'
<1>1. PaymentIsSettled'
  BY DEF Inv, PaymentIsSettled, PaysNothing, TERMINAL
<1>2. OnePaymentOneOrder'
  <2>. SUFFICES ASSUME NEW o \in Orders, NEW q \in Orders, o # q,
                       Placed(o)', Placed(q)', orders'[o].intent # None
                PROVE  orders'[o].intent # orders'[q].intent
    BY DEF OnePaymentOneOrder
  <2>1. Placed(o) /\ orders'[o].intent = orders[o].intent
    BY DEF PaysNothing
  <2>2. CASE Placed(q)
    BY <2>1, <2>2 DEF Inv, OnePaymentOneOrder, PaysNothing
  <2>3. CASE ~Placed(q)
    BY <2>3 DEF PaysNothing
  <2>. QED BY <2>2, <2>3
<1>. QED BY <1>1, <1>2

(* What a step does to the table when it writes one row. *)
LEMMA PutRow ==
  ASSUME FulfillmentTypeOK, NEW o \in Orders, NEW order \in Order, Put(o, order)
  PROVE  /\ orders' \in [Orders -> Order \cup {NoOrder}]
         /\ orders'[o] = order
         /\ \A q \in Orders \ {o} : orders'[q] = orders[q]
BY DEF FulfillmentTypeOK, Put

(***************************************************************************)
(* The actions.                                                            *)
(***************************************************************************)
LEMMA CreateOrderStep ==
  ASSUME Inv, NEW o \in Orders, NEW request \in Requests, CreateOrder(o, request)
  PROVE  Inv'
<1>. DEFINE order == [status |-> "PENDING", quantity |-> request.quantity,
                      price |-> request.price, municipality |-> request.municipality,
                      checkoutId |-> None, intent |-> None]
<1>1. order \in Order
  BY FulfillmentAssumption DEF Order, Request, Statuses
<1>2. Put(o, order) /\ ~Placed(o)
  BY DEF CreateOrder, Put
<1>3. /\ orders' \in [Orders -> Order \cup {NoOrder}]
      /\ orders'[o] = order
      /\ \A q \in Orders \ {o} : orders'[q] = orders[q]
  BY <1>1, <1>2, PutRow DEF Inv
<1>4. FulfillmentTypeOK'
  BY <1>3 DEF Inv, FulfillmentTypeOK, PricingTypeOK, CreateOrder
<1>5. SellsNothing /\ PaysNothing
  <2>1. order.status = "PENDING" /\ order.intent = None
    OBVIOUS
  <2>2. \A q \in Orders : Placed(q) => q # o /\ orders'[q] = orders[q]
    BY <1>2, <1>3
  <2>3. \A q \in Orders : ~Placed(q) /\ Placed(q)' => orders'[q] = order
    BY <1>3 DEF Placed
  <2>4. \A q \in Orders : Placed(q) => orders[q].status # "PAID"
    BY DEF Inv, PaymentIsSettled
  <2>. QED BY <2>1, <2>2, <2>3, <2>4, TimeType
           DEF SellsNothing, PaysNothing, CreateOrder, Placed, Inv, FulfillmentTypeOK
<1>6. ValidRanges(rules)'
  BY DEF Inv, CreateOrder, ValidRanges, ActiveRules, Existing, Later, Contiguous
<1>7. CallingIsPlaced'
  <2>1. Placed(o)'
    BY <1>1, <1>3, FulfillmentAssumption DEF Placed
  <2>2. \A q \in Orders \ {o} : checkout'[q] = checkout[q] /\ Placed(q)' = Placed(q)
    BY <1>3 DEF CreateOrder, Placed, Inv, FulfillmentTypeOK
  <2>. QED BY <2>1, <2>2 DEF Inv, CallingIsPlaced
<1>. QED BY <1>4, <1>5, <1>6, <1>7, SalesKept, PaymentsKept DEF Inv

(* A rewritten row that differs in its session id at most, or is marked FAILED
   while PENDING, disturbs nothing. *)
LEMMA RewriteStep ==
  ASSUME Inv, NEW o \in Orders, Placed(o), NEW order \in Order, Put(o, order),
         order.quantity = orders[o].quantity, order.price = orders[o].price,
         order.intent = orders[o].intent,
         \/ order.status = orders[o].status
         \/ orders[o].status = "PENDING" /\ order.status = "FAILED",
         UNCHANGED <<rules, leads, allocations, clock, zone>>,
         checkout' = checkout
           \/ \E pc \in {"returned", "refused"} : checkout' = [checkout EXCEPT ![o] = pc]
  PROVE  Inv'
<1>1. /\ orders' \in [Orders -> Order \cup {NoOrder}]
      /\ orders'[o] = order
      /\ \A q \in Orders \ {o} : orders'[q] = orders[q]
  BY PutRow DEF Inv
<1>2. FulfillmentTypeOK'
  BY <1>1 DEF Inv, FulfillmentTypeOK, PricingTypeOK
<1>3. \A q \in Orders : Placed(q) <=> Placed(q)'
  BY <1>1, FulfillmentAssumption DEF Placed
<1>4. SellsNothing
  BY <1>1, <1>3 DEF SellsNothing, Inv, FulfillmentTypeOK
<1>5. PaysNothing
  <2>1. \A q \in Orders : Placed(q) => orders[q].status # "PAID"
    BY DEF Inv, PaymentIsSettled
  <2>. QED BY <1>1, <1>3, <2>1 DEF PaysNothing, TERMINAL
<1>6. CallingIsPlaced'
  BY <1>3 DEF Inv, CallingIsPlaced, FulfillmentTypeOK
<1>7. ValidRanges(rules)'
  BY DEF Inv, ValidRanges, ActiveRules, Existing, Later, Contiguous
<1>. QED BY <1>2, <1>4, <1>5, <1>6, <1>7, SalesKept, PaymentsKept DEF Inv

(* Saving the session id disturbs nothing, whatever happened to the order meanwhile. *)
LEMMA CheckoutCreatedStep ==
  ASSUME Inv, NEW o \in Orders, CheckoutCreated(o)
  PROVE  Inv'
<1>. DEFINE order == [orders[o] EXCEPT !.checkoutId = SessionOf[o]]
<1>1. Placed(o) /\ orders[o] \in Order
  BY PlacedOrderType DEF Inv, CallingIsPlaced, CheckoutCreated
<1>2. order \in Order
  BY <1>1, FulfillmentAssumption DEF Order
<1>3. /\ order.quantity = orders[o].quantity /\ order.price = orders[o].price
      /\ order.intent = orders[o].intent /\ order.status = orders[o].status
  BY <1>1 DEF Order
<1>4. Put(o, order)
  BY DEF Put, CheckoutCreated
<1>. QED BY <1>1, <1>2, <1>3, <1>4, RewriteStep DEF CheckoutCreated

(* Failing an order changes its status only, and only from PENDING. *)
LEMMA FailIfPendingRow ==
  ASSUME NEW order \in Order
  PROVE  LET row == FailIfPending(order)
         IN  /\ row \in Order
             /\ row.quantity = order.quantity /\ row.price = order.price
             /\ row.intent = order.intent
             /\ \/ row.status = order.status
                \/ order.status = "PENDING" /\ row.status = "FAILED"
BY DEF FailIfPending, Order, Statuses

(* A failed call to Stripe at most closes a pending order. *)
LEMMA CheckoutRefusedStep ==
  ASSUME Inv, NEW o \in Orders, CheckoutRefused(o)
  PROVE  Inv'
<1>1. Placed(o) /\ orders[o] \in Order
  BY PlacedOrderType DEF Inv, CallingIsPlaced, CheckoutRefused
<1>2. Put(o, FailIfPending(orders[o]))
  BY DEF Put, CheckoutRefused
<1>. HIDE DEF FailIfPending
<1>. QED BY <1>1, <1>2, FailIfPendingRow, RewriteStep DEF CheckoutRefused

(* Binding changes the session id and nothing else. *)
LEMMA BoundRow ==
  ASSUME FulfillmentTypeOK, NEW p \in Payloads, Bindable(p)
  PROVE  /\ Placed(p.order)
         /\ Bound(p).quantity = orders[p.order].quantity
         /\ Bound(p).price = orders[p.order].price
         /\ Bound(p).intent = orders[p.order].intent
         /\ Bound(p).status = orders[p.order].status
BY BoundType DEF Bound, Order, Bindable

(* A repeated report of a settled order disturbs nothing. *)
LEMMA AlreadySettledStep ==
  ASSUME Inv, NEW p \in Payloads, AlreadySettled(p)
  PROVE  Inv'
<1>1. Bindable(p) /\ FulfillmentTypeOK
  BY DEF AlreadySettled, Inv
<1>. QED BY <1>1, BoundType, BoundRow, RewriteStep DEF AlreadySettled

(* A failure report at most closes a pending order. *)
LEMMA PaymentFailedStep ==
  ASSUME Inv, NEW p \in Payloads, PaymentFailed(p)
  PROVE  Inv'
<1>. DEFINE row == FailIfPending(Bound(p))
<1>1. Bindable(p) /\ FulfillmentTypeOK
  BY DEF PaymentFailed, Inv
<1>2. /\ row \in Order
      /\ row.quantity = orders[p.order].quantity /\ row.price = orders[p.order].price
      /\ row.intent = orders[p.order].intent
      /\ \/ row.status = orders[p.order].status
         \/ orders[p.order].status = "PENDING" /\ row.status = "FAILED"
  BY <1>1, BoundType, BoundRow, FailIfPendingRow
<1>3. /\ p.order \in Orders /\ Placed(p.order) /\ Put(p.order, row)
      /\ UNCHANGED <<rules, leads, allocations, clock, zone>> /\ checkout' = checkout
  BY <1>1, BoundType, BoundRow DEF PaymentFailed
<1>. HIDE DEF row
<1>. QED BY <1>2, <1>3, RewriteStep

(* Recording a payment settles its order; IntentFree keeps payments apart. *)
LEMMA PaymentRecorded ==
  ASSUME Inv, NEW p \in Payloads, Payable(p), NEW status \in TERMINAL,
         Put(p.order, Settled(p, status))
  PROVE  /\ orders' \in [Orders -> Order \cup {NoOrder}]
         /\ p.order \in Orders /\ Placed(p.order)
         /\ orders'[p.order] = Settled(p, status)
         /\ \A q \in Orders \ {p.order} : orders'[q] = orders[q]
         /\ \A q \in Orders : Placed(q) <=> Placed(q)'
         /\ (PaymentIsSettled /\ OnePaymentOneOrder)'
<1>. DEFINE row == Settled(p, status)
<1>1. /\ p.order \in Orders /\ Placed(p.order) /\ p.intent # None
      /\ \A q \in Orders \ {p.order} : Placed(q) => orders[q].intent # p.intent
  BY DEF Payable, Bindable, IntentFree
<1>2. /\ row \in Order /\ row.status = status /\ row.intent = p.intent
  BY SettledType DEF Inv, TERMINAL, Statuses
<1>. HIDE DEF row
<1>3. /\ orders' \in [Orders -> Order \cup {NoOrder}]
      /\ orders'[p.order] = row
      /\ \A q \in Orders \ {p.order} : orders'[q] = orders[q]
  BY <1>1, <1>2, PutRow DEF Inv, row
<1>4. \A q \in Orders : Placed(q) <=> Placed(q)'
  BY <1>1, <1>2, <1>3, FulfillmentAssumption DEF Placed
<1>5. PaymentIsSettled'
  BY <1>1, <1>2, <1>3, <1>4 DEF Inv, PaymentIsSettled, TERMINAL
<1>6. OnePaymentOneOrder'
  BY <1>1, <1>2, <1>3, <1>4 DEF Inv, OnePaymentOneOrder
<1>. QED BY <1>1, <1>3, <1>4, <1>5, <1>6 DEF row

(* A payment that cannot be served is recorded and sells nothing. *)
LEMMA RejectStep ==
  ASSUME Inv, NEW p \in Payloads, Reject(p)
  PROVE  Inv'
<1>. DEFINE row == Settled(p, "FULFILLMENT_FAILED")
<1>1. Payable(p) /\ Put(p.order, row) /\ UNCHANGED <<rules, leads, allocations, checkout, clock, zone>>
  BY DEF Reject
<1>2. /\ row.status = "FULFILLMENT_FAILED"
      /\ row.quantity = orders[p.order].quantity /\ row.price = orders[p.order].price
      /\ orders[p.order].status # "FULFILLED"
  BY <1>1, SettledType DEF Inv, Statuses, Payable, TERMINAL
<1>3. /\ orders' \in [Orders -> Order \cup {NoOrder}]
      /\ p.order \in Orders /\ Placed(p.order)
      /\ orders'[p.order] = row
      /\ \A q \in Orders \ {p.order} : orders'[q] = orders[q]
      /\ \A q \in Orders : Placed(q) <=> Placed(q)'
      /\ (PaymentIsSettled /\ OnePaymentOneOrder)'
  BY <1>1, PaymentRecorded DEF TERMINAL
<1>. HIDE DEF row
<1>4. SellsNothing
  BY <1>1, <1>2, <1>3, TimeType DEF SellsNothing, Inv
<1>5. FulfillmentTypeOK'
  BY <1>1, <1>3 DEF Inv, FulfillmentTypeOK, PricingTypeOK
<1>6. CallingIsPlaced'
  BY <1>1, <1>3 DEF Inv, CallingIsPlaced
<1>7. ValidRanges(rules)'
  BY <1>1 DEF Inv, ValidRanges, ActiveRules, Existing, Later, Contiguous
<1>. QED BY <1>3, <1>4, <1>5, <1>6, <1>7, SalesKept DEF Inv

(* An allocation sells a complete lot of leads nobody holds. *)
LEMMA AllocateStep ==
  ASSUME Inv, NEW p \in Payloads, NEW selected \in SUBSET Leads, Allocate(p, selected)
  PROVE  Inv'
<1>. DEFINE o == p.order
            row == Settled(p, "FULFILLED")
            lot == {AllocationFor(o, l) : l \in selected}
<1>1. /\ Payable(p) /\ Put(o, row)
      /\ selected \subseteq Eligible(orders[o].price, orders[o].municipality)
      /\ Cardinality(selected) = orders[o].quantity
      /\ allocations' = allocations \cup lot
      /\ UNCHANGED <<rules, leads, checkout, clock, zone>>
  BY DEF Allocate
<1>2. /\ row.status = "FULFILLED"
      /\ row.quantity = orders[o].quantity /\ row.price = orders[o].price
      /\ orders[o].status # "FULFILLED"
  BY <1>1, SettledType DEF Inv, Statuses, Payable, TERMINAL
<1>3. /\ orders' \in [Orders -> Order \cup {NoOrder}]
      /\ o \in Orders /\ Placed(o)
      /\ orders'[o] = row
      /\ \A q \in Orders \ {o} : orders'[q] = orders[q]
      /\ \A q \in Orders : Placed(q) <=> Placed(q)'
      /\ (PaymentIsSettled /\ OnePaymentOneOrder)'
  BY <1>1, PaymentRecorded DEF TERMINAL
<1>4. \A l \in selected :
        LET a == AllocationFor(o, l)
        IN  /\ a \in Allocation
            /\ a.order = o /\ a.lead = l /\ a.price = orders[o].price
            /\ a.at = clock /\ a.until >= clock
  BY <1>1, <1>3, AllocationType DEF Inv
<1>. HIDE DEF row
<1>5. \A a \in lot :
        /\ a \in Allocation
        /\ a.order = o /\ a.lead \in selected /\ a.price = orders[o].price
        /\ a.at = clock /\ a.until >= clock
        /\ a = AllocationFor(o, a.lead)
  <2>1. ASSUME NEW l \in selected
        PROVE  LET a == AllocationFor(o, l)
               IN  /\ a \in Allocation
                   /\ a.order = o /\ a.lead \in selected /\ a.price = orders[o].price
                   /\ a.at = clock /\ a.until >= clock
                   /\ a = AllocationFor(o, a.lead)
    BY <1>4
  <2>. QED BY <2>1
<1>6. {a.lead : a \in lot} = selected
  BY <1>4
<1>. HIDE DEF lot
<1>7. FulfillmentTypeOK'
  BY <1>1, <1>3, <1>5 DEF Inv, FulfillmentTypeOK, PricingTypeOK
<1>8. AllocationsDated'
  <2>1. \A a \in allocations : a.order \in Orders \ {o}
    BY <1>2 DEF Inv, FulfillmentTypeOK, Allocation, AllocationsDated
  <2>2. clock \in Nat
    BY TimeType DEF Inv
  <2>3. \A a \in allocations :
          /\ a.at <= clock' /\ a.at <= a.until
          /\ orders'[a.order] # NoOrder /\ orders'[a.order].status = "FULFILLED"
    BY <2>1, <1>1, <1>3 DEF Inv, AllocationsDated, Placed
  <2>4. \A a \in lot :
          /\ a.at <= clock' /\ a.at <= a.until
          /\ orders'[a.order] # NoOrder /\ orders'[a.order].status = "FULFILLED"
    BY <2>2, <1>1, <1>2, <1>3, <1>5 DEF Placed
  <2>. QED BY <2>3, <2>4, <1>1 DEF AllocationsDated, Placed
<1>9. ExclusiveSales'
  <2>1. ASSUME NEW a \in lot, NEW b \in allocations, a.lead = b.lead
        PROVE  b.until <= a.at
    <3>1. ~Excluded(a.lead)
      BY <1>1, <1>5 DEF Eligible, EligibleQuery
    <3>2. ~(b.until > clock)
      BY <3>1, <2>1 DEF Excluded
    <3>. QED BY <3>2, <1>5 DEF Inv, FulfillmentTypeOK, Allocation
  <2>2. ASSUME NEW a \in lot, NEW b \in lot, a.lead = b.lead
        PROVE  a = b
    BY <1>5, <2>2
  <2>. QED BY <2>1, <2>2, <1>1 DEF Inv, ExclusiveSales
<1>10. ExactFulfillment'
  <2>1. SoldTo(o) = {}
    BY <1>2, <1>3 DEF Inv, ExactFulfillment
  <2>2. SoldTo(o)' = lot
    BY <2>1, <1>1, <1>5 DEF SoldTo
  <2>3. LeadsOf(o)' = selected
    BY <2>2, <1>6 DEF LeadsOf
  <2>4. Cardinality(LeadsOf(o))' = orders'[o].quantity
    BY <2>3, <1>1, <1>2, <1>3
  <2>5. \A a \in SoldTo(o)' : a.price = orders'[o].price
    BY <2>2, <1>2, <1>3, <1>5
  <2>6. \A q \in Orders \ {o} : SoldTo(q)' = SoldTo(q)
    BY <1>1, <1>5 DEF SoldTo
  <2>7. \A q \in Orders \ {o} : LeadsOf(q)' = LeadsOf(q)
    BY <2>6 DEF LeadsOf
  <2>8. ASSUME NEW q \in Orders
        PROVE  (IF Placed(q) /\ orders[q].status = "FULFILLED"
                THEN /\ Cardinality(LeadsOf(q)) = orders[q].quantity
                     /\ \A a \in SoldTo(q) : a.price = orders[q].price
                ELSE SoldTo(q) = {})'
    <3>1. CASE q = o
      BY <3>1, <2>4, <2>5, <1>2, <1>3
    <3>2. CASE q # o
      BY <3>2, <2>6, <2>7, <1>3 DEF Inv, ExactFulfillment
    <3>. QED BY <3>1, <3>2
  <2>. QED BY <2>8 DEF ExactFulfillment
<1>11. CallingIsPlaced'
  BY <1>1, <1>3 DEF Inv, CallingIsPlaced
<1>12. ValidRanges(rules)'
  BY <1>1 DEF Inv, ValidRanges, ActiveRules, Existing, Later, Contiguous
<1>. QED BY <1>3, <1>7, <1>8, <1>9, <1>10, <1>11, <1>12 DEF Inv

(* Every accepted edit leaves a well-formed and valid table. *)
LEMMA PricingEditKeepsTable ==
  ASSUME PricingTypeOK, ValidRanges(rules), PricingNext
  PROVE  (PricingTypeOK /\ ValidRanges(rules))'
<1>1. ASSUME NEW r \in RuleIds, NEW input \in Inputs,
             Create(r, input) \/ Update(r, input)
      PROVE  (PricingTypeOK /\ ValidRanges(rules))'
  BY <1>1 DEF PricingTypeOK, Tables, Create, Update
<1>2. ASSUME NEW table \in Tables, UpdateBatch(table)
      PROVE  (PricingTypeOK /\ ValidRanges(rules))'
  BY <1>2 DEF PricingTypeOK, UpdateBatch
<1>. QED BY <1>1, <1>2 DEF PricingNext

(* Steps that leave every order alone. *)
LEMMA OrdersUntouched ==
  ASSUME Inv, orders' = orders, allocations' = allocations,
         clock' \in Nat, clock <= clock',
         \A o \in Orders : checkout'[o] = "calling" => checkout[o] = "calling",
         FulfillmentTypeOK', ValidRanges(rules)'
  PROVE  Inv'
<1>1. SellsNothing
  BY DEF SellsNothing, Placed
<1>2. PaysNothing
  BY DEF PaysNothing, Placed, Inv, PaymentIsSettled
<1>3. CallingIsPlaced'
  BY DEF CallingIsPlaced, Inv, Placed
<1>. QED BY <1>1, <1>2, <1>3, SalesKept, PaymentsKept DEF Inv

(* An untouched table stays valid. *)
LEMMA SameTable ==
  ASSUME ValidRanges(rules), rules' = rules
  PROVE  ValidRanges(rules)'
BY DEF ValidRanges, ActiveRules, Existing, Later, Contiguous

(* Synchronization, edits of prices or of the time zone and the passing of time sell
   and settle nothing. *)
LEMMA EnvironmentStep ==
  ASSUME Inv, ApplySync \/ EditPricing \/ ChangeTimeZone \/ Tick \/ UNCHANGED vars
  PROVE  Inv'
<1>1. CASE ApplySync
  <2>1. FulfillmentTypeOK'
    BY <1>1, FulfillmentAssumption
       DEF ApplySync, Inv, FulfillmentTypeOK, PricingTypeOK
  <2>. QED BY <2>1, <1>1, TimeType, SameTable, OrdersUntouched DEF ApplySync, Inv
<1>2. CASE EditPricing
  <2>1. (PricingTypeOK /\ ValidRanges(rules))'
    BY <1>2, PricingEditKeepsTable DEF EditPricing, Inv, FulfillmentTypeOK
  <2>2. FulfillmentTypeOK'
    BY <2>1, <1>2 DEF EditPricing, storeVars, Inv, FulfillmentTypeOK
  <2>. QED BY <2>1, <2>2, <1>2, TimeType, OrdersUntouched DEF EditPricing, storeVars, Inv
<1>3. CASE Tick
  <2>1. clock' \in 0..MaxClock /\ clock' \in Nat /\ clock <= clock'
    BY <1>3, TimeType, FulfillmentAssumption DEF Tick, Inv
  <2>2. FulfillmentTypeOK'
    BY <2>1, <1>3 DEF Tick, Inv, FulfillmentTypeOK, PricingTypeOK
  <2>. QED BY <2>1, <2>2, <1>3, SameTable, OrdersUntouched DEF Tick, Inv
<1>4. CASE ChangeTimeZone
  <2>1. FulfillmentTypeOK'
    BY <1>4 DEF ChangeTimeZone, Inv, FulfillmentTypeOK, PricingTypeOK
  <2>. QED BY <2>1, <1>4, TimeType, SameTable, OrdersUntouched DEF ChangeTimeZone, Inv
<1>5. CASE UNCHANGED vars
  <2>1. FulfillmentTypeOK'
    BY <1>5 DEF vars, storeVars, Inv, FulfillmentTypeOK, PricingTypeOK
  <2>. QED BY <2>1, <1>5, TimeType, SameTable, OrdersUntouched DEF vars, storeVars, Inv
<1>. QED BY <1>1, <1>2, <1>3, <1>4, <1>5

(* A process that dies in create_checkout writes nothing. *)
LEMMA CheckoutLostStep ==
  ASSUME Inv, NEW o \in Orders, CheckoutLost(o)
  PROVE  Inv'
<1>1. FulfillmentTypeOK'
  BY DEF CheckoutLost, Inv, FulfillmentTypeOK, PricingTypeOK
<1>2. \A q \in Orders : checkout'[q] = "calling" => checkout[q] = "calling"
  BY DEF CheckoutLost, Inv, FulfillmentTypeOK
<1>. QED BY <1>1, <1>2, SameTable, OrdersUntouched DEF CheckoutLost, Inv, FulfillmentTypeOK

(* The empty shop satisfies the invariant. *)
LEMMA InitInv == Init => Inv
<1>. SUFFICES ASSUME Init PROVE Inv
  OBVIOUS
<1>1. FulfillmentTypeOK
  BY SeedAssumption, FulfillmentAssumption
     DEF Init, PricingInit, FulfillmentTypeOK, PricingTypeOK
<1>2. \A o \in Orders : ~Placed(o) /\ SoldTo(o) = {}
  BY DEF Init, Placed, SoldTo
<1>. QED BY <1>1, <1>2, SeedAssumption
         DEF Init, PricingInit, Inv, CallingIsPlaced, AllocationsDated, ExclusiveSales,
             ExactFulfillment, PaymentIsSettled, OnePaymentOneOrder

(* Every transaction preserves the invariant. *)
LEMMA NextInv == Inv /\ [Next]_vars => Inv'
<1>. SUFFICES ASSUME Inv, [Next]_vars PROVE Inv'
  OBVIOUS
<1>1. CASE CheckoutStep
  BY <1>1, CreateOrderStep, CheckoutCreatedStep, CheckoutRefusedStep, CheckoutLostStep
     DEF CheckoutStep
<1>2. ASSUME NEW p \in Payloads, PaymentSucceeded(p)
      PROVE  Inv'
  BY <1>2, AlreadySettledStep, RejectStep, AllocateStep DEF PaymentSucceeded
<1>3. ASSUME NEW p \in Payloads, PaymentFailed(p)
      PROVE  Inv'
  BY <1>3, PaymentFailedStep
<1>4. CASE ApplySync \/ EditPricing \/ ChangeTimeZone \/ Tick \/ UNCHANGED vars
  BY <1>4, EnvironmentStep
<1>. QED BY <1>1, <1>2, <1>3, <1>4 DEF Next, PaymentStep

(* The invariant holds in every reachable state. *)
THEOREM Invariant == Spec => []Inv
BY InitInv, NextInv, PTL DEF Spec

(***************************************************************************)
(* The promises, for every reachable state.                                *)
(***************************************************************************)

(* No transaction stores a malformed row. *)
THEOREM TypeCorrect == Spec => []FulfillmentTypeOK
<1>1. Inv => FulfillmentTypeOK
  BY DEF Inv
<1>. QED BY <1>1, Invariant, PTL

(* Two sales of one lead never overlap in time. *)
THEOREM SalesAreExclusive == Spec => []ExclusiveSales
<1>1. Inv => ExclusiveSales
  BY DEF Inv
<1>. QED BY <1>1, Invariant, PTL

(* A fulfilled order has exactly the leads it paid for, any other none. *)
THEOREM FulfillmentIsExact == Spec => []ExactFulfillment
<1>1. Inv => ExactFulfillment
  BY DEF Inv
<1>. QED BY <1>1, Invariant, PTL

(* A recorded payment is always settled, never in limbo. *)
THEOREM PaymentsAreSettled == Spec => []PaymentIsSettled
<1>1. Inv => PaymentIsSettled
  BY DEF Inv
<1>. QED BY <1>1, Invariant, PTL

(* One payment never pays for two orders. *)
THEOREM PaymentsAreUnique == Spec => []OnePaymentOneOrder
<1>1. Inv => OnePaymentOneOrder
  BY DEF Inv
<1>. QED BY <1>1, Invariant, PTL

(* Payments and decided orders correspond one to one. *)
THEOREM MoneyIsAccounted == Spec => []MoneyIsAccountedFor
<1>1. Inv => MoneyIsAccountedFor
  BY DEF Inv, MoneyIsAccountedFor
<1>. QED BY <1>1, Invariant, PTL

(***************************************************************************)
(* Settled orders never change.                                            *)
(***************************************************************************)
(* A rewritten row that keeps a settled status, payment and leads keeps them all. *)
LEMMA RewriteKeepsSettled ==
  ASSUME FulfillmentTypeOK, NEW o \in Orders, NEW order, Put(o, order),
         allocations' = allocations,
         orders[o].status \in TERMINAL =>
           order.status = orders[o].status /\ order.intent = orders[o].intent
  PROVE  SettledKept
BY DEF FulfillmentTypeOK, Put, SettledKept, SoldTo

(* No transaction changes an order that is settled. *)
LEMMA NextKeepsSettled == Inv /\ [Next]_vars => SettledKept
<1>. SUFFICES ASSUME Inv, [Next]_vars PROVE SettledKept
  OBVIOUS
<1>1. FulfillmentTypeOK
  BY DEF Inv
<1>2. ASSUME NEW o \in Orders, NEW request \in Requests, CreateOrder(o, request)
      PROVE  SettledKept
  BY <1>1, <1>2 DEF CreateOrder, Placed, FulfillmentTypeOK, SettledKept, SoldTo
<1>3. ASSUME NEW o \in Orders, CheckoutCreated(o)
      PROVE  SettledKept
  <2>1. orders[o] \in Order
    BY <1>3, PlacedOrderType DEF Inv, CallingIsPlaced, CheckoutCreated
  <2>2. \A id : [orders[o] EXCEPT !.checkoutId = id].status = orders[o].status
             /\ [orders[o] EXCEPT !.checkoutId = id].intent = orders[o].intent
    BY <2>1 DEF Order
  <2>. QED BY <1>1, <1>3, <2>2, RewriteKeepsSettled DEF CheckoutCreated, Put
<1>4. ASSUME NEW o \in Orders, CheckoutRefused(o)
      PROVE  SettledKept
  <2>1. orders[o].status \in TERMINAL => FailIfPending(orders[o]) = orders[o]
    BY DEF FailIfPending, TERMINAL
  <2>. QED BY <1>1, <1>4, <2>1, RewriteKeepsSettled DEF CheckoutRefused, Put
<1>5. ASSUME NEW p \in Payloads, Bindable(p), allocations' = allocations,
             Put(p.order, Bound(p)) \/ Put(p.order, FailIfPending(Bound(p)))
      PROVE  SettledKept
  <2>1. Bound(p).status \in TERMINAL => FailIfPending(Bound(p)) = Bound(p)
    BY DEF FailIfPending, TERMINAL
  <2>. QED BY <1>1, <1>5, <2>1, BoundType, BoundRow, RewriteKeepsSettled
<1>6. ASSUME NEW p \in Payloads, Reject(p)
      PROVE  SettledKept
  <2>1. p.order \in Orders /\ orders[p.order].status \notin TERMINAL
    BY <1>6 DEF Reject, Payable, Bindable
  <2>. QED BY <1>1, <1>6, <2>1, RewriteKeepsSettled DEF Reject
<1>7. ASSUME NEW p \in Payloads, NEW selected \in SUBSET Leads, Allocate(p, selected)
      PROVE  SettledKept
  <2>1. p.order \in Orders /\ orders[p.order].status \notin TERMINAL
    BY <1>7 DEF Allocate, Payable, Bindable
  <2>2. \A q \in Orders \ {p.order} : orders'[q] = orders[q]
    BY <1>1, <1>7 DEF Allocate, Put, FulfillmentTypeOK
  <2>3. \A l \in selected : AllocationFor(p.order, l).order = p.order
    BY DEF AllocationFor
  <2>4. \A q \in Orders \ {p.order} : SoldTo(q)' = SoldTo(q)
    BY <1>7, <2>3 DEF Allocate, SoldTo
  <2>. QED BY <2>1, <2>2, <2>4 DEF SettledKept
<1>8. CASE orders' = orders /\ allocations' = allocations
  BY <1>8 DEF SettledKept, SoldTo
<1>. QED
  BY <1>2, <1>3, <1>4, <1>5, <1>6, <1>7, <1>8
     DEF Next, CheckoutStep, PaymentStep, PaymentSucceeded, AlreadySettled, PaymentFailed,
         CheckoutLost, ApplySync, EditPricing, ChangeTimeZone, Tick, vars, storeVars

(* No report, however often repeated or late, changes a settled order. *)
THEOREM SettledOrdersAreFinal == Spec => SettledIsFinal
BY Invariant, NextKeepsSettled, PTL DEF Spec, SettledIsFinal

(***************************************************************************)
(* Leads are sold as they are offered at that moment.                      *)
(***************************************************************************)
LEMMA NextSellsAsOffered ==
  Inv /\ [Next]_vars => \A a \in allocations' \ allocations : OfferedNow(a)
<1>. SUFFICES ASSUME Inv, [Next]_vars, NEW a \in allocations' \ allocations
              PROVE  OfferedNow(a)
  OBVIOUS
<1>1. PICK p \in Payloads, selected \in SUBSET Leads : Allocate(p, selected)
  BY DEF Next, CheckoutStep, PaymentStep, PaymentSucceeded, AlreadySettled, Reject,
         PaymentFailed, CreateOrder, CheckoutCreated, CheckoutRefused, CheckoutLost,
         ApplySync, EditPricing, ChangeTimeZone, Tick, vars, storeVars
<1>2. p.order \in Orders /\ Placed(p.order)
  BY <1>1 DEF Allocate, Payable, Bindable
<1>. DEFINE order == orders[p.order]
<1>3. PICK l \in selected : a = AllocationFor(p.order, l)
  BY <1>1 DEF Allocate
<1>4. l \in Eligible(order.price, order.municipality)
  BY <1>1, <1>3 DEF Allocate
<1>5. /\ a.order = p.order /\ a.lead = l /\ a.price = order.price
      /\ a.rule = ApplicableRule(rules, Age(l))
  BY <1>2, <1>3, <1>4, AllocationType DEF Inv
<1>6. /\ rules[a.rule].price = a.price
      /\ Applicable(rules, Age(l)) = {a.rule}
  BY <1>4, <1>5, EligibleLeadRule DEF Inv
<1>7. /\ leads[l].active /\ leads[l].insurance = LifeInsurance
      /\ order.municipality \in {AnyPlace, leads[l].municipality}
  BY <1>4 DEF Eligible, EligibleQuery
<1>8. Age(l) >= 0
  BY <1>4, TimeType DEF Eligible, EligibleQuery, Age, Inv, FulfillmentTypeOK, LeadRecord
<1>. QED BY <1>5, <1>6, <1>7, <1>8 DEF OfferedNow

(* Each lead is sold at the price of its one applicable rule. *)
THEOREM LeadsAreSoldAsOffered == Spec => SoldAsOffered
BY Invariant, NextSellsAsOffered, PTL DEF Spec, SoldAsOffered

(***************************************************************************)
(* The orders and allocations implement LeadMarket.                        *)
(***************************************************************************)
(* A rewrite that keeps quantity and fulfillment is invisible to buyers. *)
LEMMA InvisibleStep ==
  ASSUME FulfillmentTypeOK, NEW o \in Orders, Placed(o), NEW order \in Order, Put(o, order),
         order.quantity = orders[o].quantity,
         \/ order.status = orders[o].status
         \/ orders[o].status = "PENDING" /\ order.status = "FAILED",
         UNCHANGED <<allocations, clock>>
  PROVE  UNCHANGED Market!marketVars
<1>1. /\ orders'[o] = order
      /\ \A q \in Orders \ {o} : orders'[q] = orders[q]
  BY PutRow
<1>2. Placed(o)'
  BY <1>1, FulfillmentAssumption DEF Placed
<1>3. \A q \in Orders : Demand(q)' = Demand(q)
  BY <1>1, <1>2 DEF Demand, Placed
<1>4. \A q \in Orders : Verdict(q)' = Verdict(q)
  BY <1>1, <1>2 DEF Verdict, Placed
<1>. QED BY <1>3, <1>4 DEF Market!marketVars, Demands, Verdicts, Sales

(* A stored order is one placement in the market. *)
LEMMA CreateOrderPlaces ==
  ASSUME Inv, NEW o \in Orders, NEW request \in Requests, CreateOrder(o, request)
  PROVE  Market!Place(o)
<1>1. /\ request.quantity \in Nat \ {0}
      /\ request.quantity \in {r.quantity : r \in Requests}
  BY FulfillmentAssumption DEF Request
<1>2. ~Placed(o) /\ orders'[o].quantity = request.quantity /\ orders'[o].status = "PENDING"
  BY DEF CreateOrder, Inv, FulfillmentTypeOK
<1>3. \A q \in Orders \ {o} : orders'[q] = orders[q]
  BY DEF CreateOrder, Inv, FulfillmentTypeOK
<1>4. Placed(o)'
  <2>1. orders'[o] \in Order
    <3>1. FulfillmentTypeOK'
      BY CreateOrderStep DEF Inv
    <3>2. orders'[o] = [status |-> "PENDING", quantity |-> request.quantity,
                        price |-> request.price, municipality |-> request.municipality,
                        checkoutId |-> None, intent |-> None]
      BY DEF CreateOrder, Inv, FulfillmentTypeOK
    <3>. QED BY <3>2, FulfillmentAssumption DEF Order, Request, Statuses
  <2>. QED BY <2>1, FulfillmentAssumption DEF Placed
<1>5. Demand(o) = 0 /\ Demand(o)' = request.quantity
  BY <1>2, <1>4 DEF Demand
<1>6. \A q \in Orders \ {o} : Demand(q)' = Demand(q)
  BY <1>3 DEF Demand, Placed
<1>7. \A q \in Orders : Verdict(q)' = Verdict(q)
  BY <1>2, <1>3 DEF Verdict, Placed
<1>8. Demands' = [Demands EXCEPT ![o] = request.quantity]
  BY <1>5, <1>6 DEF Demands
<1>. QED BY <1>1, <1>5, <1>7, <1>8 DEF Market!Place, CreateOrder, Demands, Verdicts, Sales

(* What settling an order does to its demand and its verdict. *)
LEMMA SettlingDecides ==
  ASSUME Inv, NEW p \in Payloads, Payable(p), NEW status \in TERMINAL,
         Put(p.order, Settled(p, status))
  PROVE  /\ p.order \in Orders /\ Placed(p.order)
         /\ Demand(p.order) > 0 /\ Verdict(p.order) = "open"
         /\ \A q \in Orders : Demand(q)' = Demand(q)
         /\ Verdicts' = [Verdicts EXCEPT ![p.order] =
                           IF status = "FULFILLED" THEN "sold" ELSE "refused"]
<1>1. /\ p.order \in Orders /\ Placed(p.order)
      /\ orders'[p.order] = Settled(p, status)
      /\ \A q \in Orders \ {p.order} : orders'[q] = orders[q]
      /\ \A q \in Orders : Placed(q) <=> Placed(q)'
  BY PaymentRecorded
<1>2. /\ Settled(p, status).status = status
      /\ Settled(p, status).quantity = orders[p.order].quantity
  BY SettledType DEF Inv, TERMINAL, Statuses
<1>3. orders[p.order].quantity \in Nat \ {0}
  BY <1>1, PlacedOrderType DEF Inv, Order
<1>4. Demand(p.order) > 0 /\ Verdict(p.order) = "open"
  BY <1>1, <1>3 DEF Demand, Verdict, Payable, TERMINAL
<1>5. \A q \in Orders : Demand(q)' = Demand(q)
  BY <1>1, <1>2 DEF Demand
<1>6. \A q \in Orders \ {p.order} : Verdict(q)' = Verdict(q)
  BY <1>1 DEF Verdict
<1>7. Verdict(p.order)' = IF status = "FULFILLED" THEN "sold" ELSE "refused"
  BY <1>1, <1>2 DEF Verdict, TERMINAL
<1>. QED BY <1>1, <1>4, <1>5, <1>6, <1>7 DEF Verdicts

(* A payment that cannot be served is a refusal. *)
LEMMA RejectRefuses ==
  ASSUME Inv, NEW p \in Payloads, Reject(p)
  PROVE  Market!Refuse(p.order)
<1>1. Payable(p) /\ Put(p.order, Settled(p, "FULFILLMENT_FAILED"))
  BY DEF Reject
<1>2. /\ p.order \in Orders
      /\ Demand(p.order) > 0 /\ Verdict(p.order) = "open"
      /\ \A q \in Orders : Demand(q)' = Demand(q)
      /\ Verdicts' = [Verdicts EXCEPT ![p.order] = "refused"]
  BY <1>1, SettlingDecides DEF TERMINAL
<1>. QED BY <1>2 DEF Market!Refuse, Market!Undecided, Reject, Demands, Verdicts, Sales

(* An allocation is the sale of one complete lot of free leads. *)
LEMMA AllocateSells ==
  ASSUME Inv, NEW p \in Payloads, NEW selected \in SUBSET Leads, Allocate(p, selected)
  PROVE  Market!Sell(p.order)
<1>. DEFINE o == p.order
            lot == {AllocationFor(o, l) : l \in selected}
            new == Sales' \ Sales
<1>1. /\ Payable(p) /\ Put(o, Settled(p, "FULFILLED"))
      /\ selected \subseteq Eligible(orders[o].price, orders[o].municipality)
      /\ Cardinality(selected) = orders[o].quantity
      /\ allocations' = allocations \cup lot
      /\ clock' = clock
  BY DEF Allocate
<1>2. /\ o \in Orders /\ Placed(o)
      /\ Demand(o) > 0 /\ Verdict(o) = "open"
      /\ \A q \in Orders : Demand(q)' = Demand(q)
      /\ Verdicts' = [Verdicts EXCEPT ![o] = "sold"]
  BY <1>1, SettlingDecides DEF TERMINAL
<1>3. \A l \in selected :
        LET a == AllocationFor(o, l)
        IN  a.order = o /\ a.lead = l /\ a.at = clock /\ a.until >= clock
  BY <1>1, <1>2, AllocationType DEF Inv
<1>4. SoldTo(o) = {}
  BY <1>1, <1>2 DEF Inv, ExactFulfillment, Payable, TERMINAL
<1>5. Sales' = Sales \cup {Sale(a) : a \in lot}
  BY <1>1 DEF Sales
<1>6. \A a \in lot : Sale(a) \notin Sales
  <2>1. \A l \in selected : \A b \in allocations :
          Sale(AllocationFor(o, l)) # Sale(b)
    BY <1>3, <1>4 DEF Sale, SoldTo
  <2>. QED BY <2>1 DEF Sales
<1>7. new = {Sale(AllocationFor(o, l)) : l \in selected}
  BY <1>5, <1>6
<1>8. \A l \in selected :
        LET s == Sale(AllocationFor(o, l))
        IN  s.order = o /\ s.lead = l /\ s.at = clock /\ s.until >= clock
  BY <1>3 DEF Sale
<1>9. \A l \in selected : \A s \in Sales : s.lead = l => s.until <= clock
  <2>1. \A l \in selected : ~Excluded(l)
    BY <1>1 DEF Eligible, EligibleQuery
  <2>2. \A l \in selected : \A a \in allocations : a.lead = l => a.until <= clock
    BY <2>1 DEF Excluded, Inv, FulfillmentTypeOK, Allocation
  <2>. QED BY <2>2 DEF Sales, Sale
<1>10. {s.lead : s \in new} = selected
  BY <1>7, <1>8
<1>11. \A s \in new : /\ s.order = o /\ s.lead \in selected
                      /\ s.at = clock /\ s.until >= clock
                      /\ s = Sale(AllocationFor(o, s.lead))
  <2>1. ASSUME NEW l \in selected
        PROVE  LET s == Sale(AllocationFor(o, l))
               IN  /\ s.order = o /\ s.lead \in selected
                   /\ s.at = clock /\ s.until >= clock
                   /\ s = Sale(AllocationFor(o, s.lead))
    BY <1>8
  <2>. QED BY <2>1, <1>7
<1>12. Cardinality({s.lead : s \in new}) = Demand(o)
  BY <1>1, <1>2, <1>10 DEF Demand
<1>13. Sales \subseteq Sales'
  BY <1>5
<1>14. \A s \in new : s.lead \in Leads /\ \A t \in Sales : t.lead = s.lead => t.until <= clock
  BY <1>9, <1>11
<1>15. \A s, t \in new : s.lead = t.lead => s = t
  BY <1>11
<1>16. UNCHANGED <<Demands, clock>> /\ Demands[o] = Demand(o) /\ Verdicts[o] = Verdict(o)
  BY <1>1, <1>2 DEF Demands, Verdicts
<1>17. Market!CompleteLot(o, new)
  <2>. HIDE DEF new
  <2>1. \A S : Market!Cardinality(S) = Cardinality(S)
    BY DEF Market!Cardinality, Cardinality, Market!IsFiniteSet, IsFiniteSet
  <2>. QED BY <2>1, <1>11, <1>12, <1>14, <1>15, <1>16 DEF Market!CompleteLot, Market!Free
<1>. QED BY <1>2, <1>13, <1>16, <1>17 DEF Market!Sell, Market!Undecided

(* The empty shop is the empty market. *)
LEMMA MarketInitialized == Init => Market!MarketInit
<1>. SUFFICES ASSUME Init PROVE Market!MarketInit
  OBVIOUS
<1>1. \A o \in Orders : ~Placed(o)
  BY DEF Init, Placed
<1>. QED BY <1>1 DEF Market!MarketInit, Demands, Verdicts, Sales, Demand, Verdict, Init

(* Every transaction is a step of the market or invisible to buyers. *)
LEMMA NextImplementsMarket ==
  Inv /\ [Next]_vars => [Market!MarketNext]_(Market!marketVars)
<1>. SUFFICES ASSUME Inv, [Next]_vars
              PROVE  Market!MarketNext \/ UNCHANGED Market!marketVars
  OBVIOUS
<1>1. FulfillmentTypeOK
  BY DEF Inv
<1>2. ASSUME NEW o \in Orders, NEW request \in Requests, CreateOrder(o, request)
      PROVE  Market!MarketNext
  BY <1>2, CreateOrderPlaces DEF Market!MarketNext
<1>3. ASSUME NEW o \in Orders, CheckoutCreated(o)
      PROVE  UNCHANGED Market!marketVars
  <2>. DEFINE row == [orders[o] EXCEPT !.checkoutId = SessionOf[o]]
  <2>1. Placed(o) /\ orders[o] \in Order
    BY <1>3, PlacedOrderType DEF Inv, CallingIsPlaced, CheckoutCreated
  <2>2. row \in Order /\ row.quantity = orders[o].quantity /\ row.status = orders[o].status
    BY <2>1, FulfillmentAssumption DEF Order
  <2>. QED BY <1>1, <1>3, <2>1, <2>2, InvisibleStep DEF CheckoutCreated, Put
<1>4. ASSUME NEW o \in Orders, CheckoutRefused(o)
      PROVE  UNCHANGED Market!marketVars
  <2>1. Placed(o) /\ orders[o] \in Order
    BY <1>4, PlacedOrderType DEF Inv, CallingIsPlaced, CheckoutRefused
  <2>. QED BY <1>1, <1>4, <2>1, FailIfPendingRow, InvisibleStep DEF CheckoutRefused, Put
<1>5. ASSUME NEW p \in Payloads, AlreadySettled(p) \/ PaymentFailed(p)
      PROVE  UNCHANGED Market!marketVars
  <2>1. Bindable(p) /\ UNCHANGED <<allocations, clock>>
    BY <1>5 DEF AlreadySettled, PaymentFailed
  <2>2. Put(p.order, Bound(p)) \/ Put(p.order, FailIfPending(Bound(p)))
    BY <1>5 DEF AlreadySettled, PaymentFailed
  <2>. QED BY <1>1, <2>1, <2>2, BoundType, BoundRow, FailIfPendingRow, InvisibleStep
<1>6. ASSUME NEW p \in Payloads, Reject(p)
      PROVE  Market!MarketNext
  <2>1. p.order \in Orders
    BY <1>6 DEF Reject, Payable, Bindable
  <2>. QED BY <1>6, <2>1, RejectRefuses DEF Market!MarketNext
<1>7. ASSUME NEW p \in Payloads, NEW selected \in SUBSET Leads, Allocate(p, selected)
      PROVE  Market!MarketNext
  <2>1. p.order \in Orders
    BY <1>7 DEF Allocate, Payable, Bindable
  <2>. QED BY <1>7, <2>1, AllocateSells DEF Market!MarketNext
<1>8. CASE Tick
  <2>1. UNCHANGED <<Demands, Verdicts, Sales>> /\ clock' > clock
    BY <1>1, <1>8 DEF Tick, FulfillmentTypeOK, Demands, Verdicts, Sales, Demand,
                      Verdict, Placed
  <2>. QED BY <2>1 DEF Market!MarketNext, Market!TimePasses
<1>9. CASE UNCHANGED <<orders, allocations, clock>>
  BY <1>9 DEF Market!marketVars, Demands, Verdicts, Sales, Demand, Verdict, Placed
<1>. QED
  BY <1>2, <1>3, <1>4, <1>5, <1>6, <1>7, <1>8, <1>9
     DEF Next, CheckoutStep, PaymentStep, PaymentSucceeded, CheckoutLost, ApplySync,
         EditPricing, ChangeTimeZone, vars, storeVars

(* Orders, payments and allocations keep the promise of the marketplace. *)
THEOREM ImplementsMarket == Spec => MarketImplemented
BY Invariant, MarketInitialized, NextImplementsMarket, PTL
   DEF Spec, MarketImplemented, Market!MarketSpec

(* Nobody decides an order that was not placed, and nobody sells to nobody. *)
DecidedArePlaced ==
  /\ DOMAIN Demands = Orders /\ DOMAIN Verdicts = Orders
  /\ \A o \in Orders : Verdicts[o] # "open" => Demands[o] # 0

MarketInv == DecidedArePlaced /\ Market!OneOwnerAtATime /\ Market!WholeLots

(* A lot goes to its order alone, and its leads are free of earlier owners. *)
LEMMA SellKeepsPromise ==
  ASSUME MarketInv, NEW o \in Orders, Market!Sell(o)
  PROVE  MarketInv'
<1>. DEFINE lot == Sales' \ Sales
<1>1. /\ Demands[o] > 0 /\ Verdicts[o] = "open"
      /\ Sales \subseteq Sales'
      /\ \A s \in lot : /\ s.order = o /\ s.at = clock
                        /\ \A t \in Sales : t.lead = s.lead => t.until <= clock
      /\ \A s, t \in lot : s.lead = t.lead => s = t
      /\ Market!Cardinality({s.lead : s \in lot}) = Demands[o]
      /\ Verdicts' = [Verdicts EXCEPT ![o] = "sold"] /\ Demands' = Demands
  BY DEF Market!Sell, Market!Undecided, Market!CompleteLot, Market!Free
<1>2. DecidedArePlaced'
  BY <1>1 DEF MarketInv, DecidedArePlaced
<1>3. Market!OneOwnerAtATime'
  <2>. SUFFICES ASSUME NEW s \in Sales', NEW t \in Sales', s # t, s.lead = t.lead
                PROVE  s.until <= t.at \/ t.until <= s.at
    BY DEF Market!OneOwnerAtATime
  <2>1. CASE s \in Sales /\ t \in Sales
    BY <2>1 DEF MarketInv, Market!OneOwnerAtATime
  <2>2. CASE s \notin Sales \/ t \notin Sales
    BY <1>1, <2>2
  <2>. QED BY <2>1, <2>2
<1>4. \A s \in Sales : s.order # o
  BY <1>1 DEF MarketInv, Market!WholeLots
<1>5. {t \in Sales' : t.order = o} = lot
  BY <1>1, <1>4
<1>6. ASSUME NEW q \in Orders, q # o
      PROVE  {t \in Sales' : t.order = q} = {t \in Sales : t.order = q}
  BY <1>1, <1>6
<1>7. Market!WholeLots'
  <2>. SUFFICES ASSUME NEW q \in Orders
                PROVE  IF Verdicts'[q] = "sold"
                       THEN Market!Cardinality({s.lead : s \in {t \in Sales' : t.order = q}}) = Demands'[q]
                       ELSE \A s \in Sales' : s.order # q
    BY DEF Market!WholeLots
  <2>1. CASE q = o
    BY <1>1, <1>5, <2>1 DEF MarketInv, DecidedArePlaced
  <2>2. CASE q # o
    <3>1. Verdicts'[q] = Verdicts[q] /\ Demands'[q] = Demands[q]
      BY <1>1, <2>2 DEF MarketInv, DecidedArePlaced
    <3>2. (\A s \in Sales' : s.order # q) <=> \A s \in Sales : s.order # q
      BY <1>6, <2>2
    <3>. QED BY <1>6, <2>2, <3>1, <3>2 DEF MarketInv, Market!WholeLots
  <2>. QED BY <2>1, <2>2
<1>. QED BY <1>2, <1>3, <1>7 DEF MarketInv

(* The abstract market keeps what a buyer relies on, and so does whatever implements
   it: the promise is not only obeyed but worth something. *)
THEOREM MarketKeepsItsPromise ==
  Market!MarketSpec => [](Market!OneOwnerAtATime /\ Market!WholeLots)
<1>1. Market!MarketInit => MarketInv
  BY DEF Market!MarketInit, MarketInv, DecidedArePlaced, Market!OneOwnerAtATime, Market!WholeLots
<1>2. MarketInv /\ [Market!MarketNext]_(Market!marketVars) => MarketInv'
  <2>1. ASSUME MarketInv, NEW o \in Orders, Market!Place(o)
        PROVE  MarketInv'
    BY <2>1 DEF Market!Place, MarketInv, DecidedArePlaced, Market!OneOwnerAtATime, Market!WholeLots
  <2>2. ASSUME MarketInv, NEW o \in Orders, Market!Refuse(o)
        PROVE  MarketInv'
    BY <2>2 DEF Market!Refuse, Market!Undecided, MarketInv, DecidedArePlaced,
                Market!OneOwnerAtATime, Market!WholeLots
  <2>3. ASSUME MarketInv, Market!TimePasses \/ UNCHANGED Market!marketVars
        PROVE  MarketInv'
    BY <2>3 DEF Market!TimePasses, Market!marketVars, MarketInv, DecidedArePlaced,
                Market!OneOwnerAtATime, Market!WholeLots
  <2>. QED BY <2>1, <2>2, <2>3, SellKeepsPromise DEF Market!MarketNext
<1>3. MarketInv => Market!OneOwnerAtATime /\ Market!WholeLots
  BY DEF MarketInv
<1>. QED BY <1>1, <1>2, <1>3, PTL DEF Market!MarketSpec

(***************************************************************************)
(* Sums.  The reports add up with SumFunction of the community modules, a  *)
(* fold that takes one chosen element of a set after another.              *)
(***************************************************************************)
(* The element the fold takes. *)
Pick(s) == CHOOSE x \in s : TRUE

(* The function the fold iterates: the sum of f over every subset of S. *)
Adds(g, f, S) ==
  g = [s \in SUBSET S |-> IF s = {} THEN 0 ELSE f[Pick(s)] + g[s \ {Pick(s)}]]

(* A sum is the value of such a function. *)
LEMMA SumIsIteration ==
  ASSUME NEW f, NEW S
  PROVE  SumFunctionOnSet(f, S) = (CHOOSE g : Adds(g, f, S))[S]
BY DEF SumFunctionOnSet, FoldFunctionOnSet, MapThenFoldSet, Adds, Pick

(* There is one: subsets of n + 1 elements are summed from those of n. *)
LEMMA IterationExists ==
  ASSUME NEW f, NEW S, IsFiniteSet(S)
  PROVE  \E g : Adds(g, f, S)
<1>. DEFINE Small(n) == {s \in SUBSET S : Cardinality(s) <= n}
            Upto(g, n) == g = [s \in Small(n) |-> IF s = {} THEN 0 ELSE f[Pick(s)] + g[s \ {Pick(s)}]]
            Missing == {n \in Nat : ~ \E g : Upto(g, n)}
<1>1. \A s \in SUBSET S : IsFiniteSet(s) /\ Cardinality(s) \in Nat /\ (Cardinality(s) = 0 <=> s = {})
  BY FS_Subset, FS_CardinalityType, FS_EmptySet
<1>2. \A s \in SUBSET S : s # {} => /\ Pick(s) \in s /\ Cardinality(s \ {Pick(s)}) = Cardinality(s) - 1
                                    /\ s \ {Pick(s)} \in SUBSET S
  BY <1>1, FS_RemoveElement DEF Pick
<1>3. Missing = {}
  <2>. SUFFICES ASSUME Missing # {} PROVE FALSE
    OBVIOUS
  <2>1. PICK n \in Missing : \A m \in Missing : n <= m
    <3>1. Missing \subseteq Nat
      OBVIOUS
    <3>. HIDE DEF Missing
    <3>. QED BY <3>1, LeastNatural
  <2>2. CASE n = 0
    <3>. DEFINE g == [s \in Small(0) |-> 0]
    <3>1. \A s \in Small(0) : s = {}
      BY <1>1
    <3>2. Upto(g, 0)
      BY <3>1
    <3>. QED BY <2>2, <3>2
  <2>3. CASE n # 0
    <3>1. n - 1 \in Nat /\ n - 1 \notin Missing
      <4>1. n \in Nat
        OBVIOUS
      <4>. HIDE DEF Missing
      <4>. QED BY <2>1, <2>3, <4>1
    <3>2. PICK h : Upto(h, n - 1)
      BY <3>1
    <3>. DEFINE g == [s \in Small(n) |-> IF s = {} THEN 0 ELSE f[Pick(s)] + h[s \ {Pick(s)}]]
    <3>3. \A s \in Small(n) : s # {} => s \ {Pick(s)} \in Small(n - 1) /\ s \ {Pick(s)} \in Small(n)
      BY <1>1, <1>2, <3>1
    <3>4. \A s \in Small(n - 1) : s \in Small(n) /\ g[s] = h[s]
      <4>1. \A s \in Small(n - 1) : s \in Small(n)
        BY <1>1, <3>1
      <4>2. \A s \in Small(n - 1) : h[s] = IF s = {} THEN 0 ELSE f[Pick(s)] + h[s \ {Pick(s)}]
        <5>. HIDE DEF Small
        <5>. QED BY <3>2
      <4>. HIDE DEF Small
      <4>. QED BY <4>1, <4>2
    <3>5. Upto(g, n)
      <4>. HIDE DEF Small
      <4>. QED BY <3>3, <3>4
    <3>. HIDE DEF Upto, g
    <3>. QED BY <3>5
  <2>. QED BY <2>2, <2>3
<1>4. Small(Cardinality(S)) = SUBSET S /\ Cardinality(S) \in Nat
  <2>1. \A s \in SUBSET S : Cardinality(s) <= Cardinality(S)
    BY FS_Subset
  <2>. QED BY <1>1, <2>1
<1>5. PICK g : Upto(g, Cardinality(S))
  BY <1>3, <1>4
<1>6. Adds(g, f, S)
  <2>. HIDE DEF Small
  <2>. QED BY <1>4, <1>5 DEF Adds
<1>. QED BY <1>6

(* Whatever larger set it is defined for, a sum is the same. *)
LEMMA IterationsAgree ==
  ASSUME NEW f, NEW S, NEW T, IsFiniteSet(S), T \subseteq S, NEW g, NEW h, Adds(g, f, S), Adds(h, f, T)
  PROVE  g[T] = h[T]
<1>. DEFINE Bad == {s \in SUBSET T : g[s] # h[s]}
<1>1. \A s \in SUBSET T :
        /\ g[s] = IF s = {} THEN 0 ELSE f[Pick(s)] + g[s \ {Pick(s)}]
        /\ h[s] = IF s = {} THEN 0 ELSE f[Pick(s)] + h[s \ {Pick(s)}]
  BY DEF Adds
<1>2. ASSUME NEW s \in Bad, \A x \in s : s \ {x} \notin Bad
      PROVE  FALSE
  <2>1. s # {} => Pick(s) \in s
    BY DEF Pick
  <2>. QED BY <1>1, <1>2, <2>1
<1>3. IsFiniteSet(T) /\ Bad \subseteq SUBSET T
  BY FS_Subset
<1>4. Bad = {}
  <2>. HIDE DEF Bad
  <2>. QED BY <1>2, <1>3, SmallestSubset
<1>. QED BY <1>4

(* Nothing adds up to nothing. *)
LEMMA SumOfNone ==
  ASSUME NEW f
  PROVE  SumFunctionOnSet(f, {}) = 0
<1>1. PICK g : Adds(g, f, {})
  BY IterationExists, FS_EmptySet
<1>2. Adds(CHOOSE h : Adds(h, f, {}), f, {})
  BY <1>1
<1>. QED BY <1>2, SumIsIteration DEF Adds

(* A sum is the chosen element and the sum of the others. *)
LEMMA SumStep ==
  ASSUME NEW f, NEW S, IsFiniteSet(S), S # {}
  PROVE  /\ Pick(S) \in S
         /\ SumFunctionOnSet(f, S) = f[Pick(S)] + SumFunctionOnSet(f, S \ {Pick(S)})
<1>. DEFINE x == Pick(S)
            T == S \ {x}
            g == CHOOSE g : Adds(g, f, S)
            h == CHOOSE h : Adds(h, f, T)
<1>1. x \in S /\ IsFiniteSet(T)
  BY FS_Subset DEF Pick
<1>2. Adds(g, f, S) /\ Adds(h, f, T)
  BY <1>1, IterationExists
<1>3. g[S] = f[x] + g[T]
  <2>. HIDE DEF g
  <2>. QED BY <1>2 DEF Adds
<1>4. g[T] = h[T]
  <2>. HIDE DEF g, h
  <2>. QED BY <1>1, <1>2, IterationsAgree
<1>5. SumFunctionOnSet(f, S) = g[S] /\ SumFunctionOnSet(f, T) = h[T]
  BY SumIsIteration
<1>. HIDE DEF g, h
<1>. QED BY <1>1, <1>3, <1>4, <1>5

(* A sum of natural numbers is one. *)
LEMMA SumType ==
  ASSUME NEW f, NEW S, IsFiniteSet(S), \A x \in S : f[x] \in Nat
  PROVE  SumFunctionOnSet(f, S) \in Nat
<1>. DEFINE Bad == {T \in SUBSET S : SumFunctionOnSet(f, T) \notin Nat}
<1>1. ASSUME NEW T \in Bad, \A x \in T : T \ {x} \notin Bad
      PROVE  FALSE
  <2>1. IsFiniteSet(T) /\ T # {}
    <3>1. SumFunctionOnSet(f, {}) \in Nat
      BY SumOfNone
    <3>. QED BY <3>1, FS_Subset
  <2>2. Pick(T) \in T /\ SumFunctionOnSet(f, T) = f[Pick(T)] + SumFunctionOnSet(f, T \ {Pick(T)})
    BY <2>1, SumStep
  <2>3. SumFunctionOnSet(f, T \ {Pick(T)}) \in Nat /\ f[Pick(T)] \in Nat
    BY <1>1, <2>2
  <2>. QED BY <2>2, <2>3
<1>2. Bad = {}
  <2>1. Bad \subseteq SUBSET S
    OBVIOUS
  <2>. HIDE DEF Bad
  <2>. QED BY <1>1, <2>1, SmallestSubset
<1>. QED BY <1>2

(* Any element may be counted first. *)
LEMMA SumRemove ==
  ASSUME NEW f, NEW S, IsFiniteSet(S), \A x \in S : f[x] \in Nat, NEW y \in S
  PROVE  SumFunctionOnSet(f, S) = f[y] + SumFunctionOnSet(f, S \ {y})
<1>. DEFINE Total(T) == SumFunctionOnSet(f, T)
            Fine(T) == \A x \in T : Total(T) = f[x] + Total(T \ {x})
            Bad == {T \in SUBSET S : ~Fine(T)}
<1>1. \A T \in SUBSET S : Total(T) \in Nat /\ IsFiniteSet(T)
  BY SumType, FS_Subset
<1>2. ASSUME NEW T \in SUBSET S, \A x \in T : Fine(T \ {x})
      PROVE  Fine(T)
  <2>. HIDE DEF Total
  <2>. SUFFICES ASSUME NEW x \in T, x # Pick(T)
                PROVE  Total(T) = f[x] + Total(T \ {x})
    BY <1>1, SumStep DEF Total
  <2>. DEFINE c == Pick(T)
              U == T \ {c, x}
  <2>1. c \in T /\ Total(T) = f[c] + Total(T \ {c})
    BY <1>1, SumStep DEF Total
  <2>2. (T \ {c}) \ {x} = U /\ (T \ {x}) \ {c} = U /\ U \in SUBSET S
    OBVIOUS
  <2>. HIDE DEF c, U
  <2>3. Total(T \ {c}) = f[x] + Total(U)
    BY <1>2, <2>1, <2>2 DEF c
  <2>4. Total(T \ {x}) = f[c] + Total(U)
    BY <1>2, <2>1, <2>2 DEF c
  <2>5. Total(U) \in Nat /\ f[c] \in Nat /\ f[x] \in Nat
    BY <1>1, <2>1, <2>2
  <2>. QED BY <2>1, <2>3, <2>4, <2>5
<1>3. Bad = {}
  <2>1. Bad \subseteq SUBSET S
    OBVIOUS
  <2>2. \A T \in Bad : ~ \A x \in T : T \ {x} \notin Bad
    <3>1. \A T \in SUBSET S : \A x \in T : T \ {x} \in SUBSET S
      OBVIOUS
    <3>. HIDE DEF Fine
    <3>. QED BY <1>2, <3>1
  <2>. HIDE DEF Bad
  <2>. QED BY <2>1, <2>2, SmallestSubset
<1>. QED BY <1>3

(* A sum depends on nothing but what is added. *)
LEMMA SumAgree ==
  ASSUME NEW f, NEW g, NEW S, IsFiniteSet(S), \A x \in S : f[x] = g[x]
  PROVE  SumFunctionOnSet(f, S) = SumFunctionOnSet(g, S)
<1>. DEFINE Bad == {T \in SUBSET S : SumFunctionOnSet(f, T) # SumFunctionOnSet(g, T)}
<1>1. ASSUME NEW T \in Bad, \A x \in T : T \ {x} \notin Bad
      PROVE  FALSE
  <2>1. IsFiniteSet(T) /\ T # {}
    BY SumOfNone, FS_Subset
  <2>2. /\ Pick(T) \in T
        /\ SumFunctionOnSet(f, T) = f[Pick(T)] + SumFunctionOnSet(f, T \ {Pick(T)})
        /\ SumFunctionOnSet(g, T) = g[Pick(T)] + SumFunctionOnSet(g, T \ {Pick(T)})
    BY <2>1, SumStep
  <2>. QED BY <1>1, <2>2
<1>2. Bad = {}
  <2>1. Bad \subseteq SUBSET S
    OBVIOUS
  <2>. HIDE DEF Bad
  <2>. QED BY <1>1, <2>1, SmallestSubset
<1>. QED BY <1>2

(* Adding a set of new elements that all count the same. *)
LEMMA SumOfEqualParts ==
  ASSUME NEW f, NEW S, NEW A, IsFiniteSet(S), A \subseteq S, NEW c \in Nat,
         \A x \in S : f[x] \in Nat, \A x \in A : f[x] = c
  PROVE  SumFunctionOnSet(f, S) = SumFunctionOnSet(f, S \ A) + Cardinality(A) * c
<1>. DEFINE Total(T) == SumFunctionOnSet(f, T)
            Fine(T) == Total((S \ A) \cup T) = Total(S \ A) + Cardinality(T) * c
            Bad == {T \in SUBSET A : ~Fine(T)}
<1>1. IsFiniteSet(A) /\ IsFiniteSet(S \ A)
  BY FS_Subset
<1>2. ASSUME NEW T \in Bad, \A x \in T : T \ {x} \notin Bad
      PROVE  FALSE
  <2>1. IsFiniteSet(T) /\ IsFiniteSet((S \ A) \cup T)
    BY <1>1, FS_Subset
  <2>2. Total(S \ A) \in Nat
    BY <1>1, SumType
  <2>3. T # {}
    <3>1. (S \ A) \cup {} = S \ A /\ Cardinality({}) = 0 /\ 0 * c = 0
      BY FS_EmptySet
    <3>. HIDE DEF Total
    <3>2. Fine({})
      BY <2>2, <3>1
    <3>. HIDE DEF Fine
    <3>. QED BY <3>2
  <2>4. PICK x \in T : TRUE
    BY <2>3
  <2>5. Total((S \ A) \cup T) = f[x] + Total(((S \ A) \cup T) \ {x})
    BY <2>1, SumRemove
  <2>6. ((S \ A) \cup T) \ {x} = (S \ A) \cup (T \ {x})
    OBVIOUS
  <2>7. Cardinality(T) \in Nat /\ Cardinality(T \ {x}) = Cardinality(T) - 1 /\ Cardinality(T \ {x}) \in Nat
    BY <2>1, FS_RemoveElement, FS_CardinalityType, FS_Subset
  <2>8. Total((S \ A) \cup (T \ {x})) = Total(S \ A) + Cardinality(T \ {x}) * c
    BY <1>2
  <2>9. f[x] = c
    OBVIOUS
  <2>10. Cardinality(T) * c = Cardinality(T \ {x}) * c + c /\ Cardinality(T \ {x}) * c \in Nat
    <3>. DEFINE k == Cardinality(T \ {x})
    <3>1. k \in Nat /\ Cardinality(T) = k + 1
      BY <2>7
    <3>. HIDE DEF k
    <3>2. (k + 1) * c = k * c + c /\ k * c \in Nat
      BY <3>1
    <3>. QED BY <3>1, <3>2 DEF k
  <2>. DEFINE counted == Cardinality(T \ {x}) * c
  <2>12. Cardinality(T) * c = counted + c /\ counted \in Nat
    BY <2>10
  <2>13. Total((S \ A) \cup (T \ {x})) = Total(S \ A) + counted
    BY <2>8
  <2>14. Total((S \ A) \cup T) = Total(S \ A) + (counted + c)
    <3>1. Total((S \ A) \cup T) = c + Total((S \ A) \cup (T \ {x}))
      BY <2>5, <2>6, <2>9
    <3>2. \A m \in Nat : c + (m + counted) = m + (counted + c)
      BY <2>12
    <3>. HIDE DEF Total, Bad, counted
    <3>. QED BY <2>2, <2>13, <3>1, <3>2
  <2>11. ~Fine(T)
    OBVIOUS
  <2>. HIDE DEF Total, Bad, counted
  <2>. QED BY <2>11, <2>12, <2>14
<1>3. Bad = {}
  <2>1. Bad \subseteq SUBSET A
    OBVIOUS
  <2>. HIDE DEF Bad
  <2>. QED BY <1>1, <1>2, <2>1, SmallestSubset
<1>4. (S \ A) \cup A = S
  OBVIOUS
<1>. QED BY <1>3, <1>4

(* Disjoint sets are counted one by one. *)
LEMMA SumOfCardinalities ==
  ASSUME NEW S, NEW F, NEW count, NEW U, IsFiniteSet(S),
         \A x \in S : IsFiniteSet(F[x]) /\ count[x] = Cardinality(F[x]),
         \A x, y \in S : x # y => F[x] \cap F[y] = {},
         \A y : y \in U <=> \E x \in S : y \in F[x]
  PROVE  SumFunctionOnSet(count, S) = Cardinality(U)
<1>. DEFINE All(T) == UNION {F[x] : x \in T}
            Fine(T) == IsFiniteSet(All(T)) /\ SumFunctionOnSet(count, T) = Cardinality(All(T))
            Bad == {T \in SUBSET S : ~Fine(T)}
<1>1. \A x \in S : count[x] = Cardinality(F[x]) /\ count[x] \in Nat
  BY FS_CardinalityType
<1>2. ASSUME NEW T \in Bad, \A x \in T : T \ {x} \notin Bad
      PROVE  FALSE
  <2>1. IsFiniteSet(T) /\ T # {}
    <3>1. All({}) = {}
      OBVIOUS
    <3>2. Fine({})
      BY <3>1, SumOfNone, FS_EmptySet
    <3>. QED BY <3>2, FS_Subset
  <2>2. PICK x \in T : TRUE
    BY <2>1
  <2>3. SumFunctionOnSet(count, T) = Cardinality(F[x]) + SumFunctionOnSet(count, T \ {x})
    BY <1>1, <2>1, SumRemove
  <2>4. Fine(T \ {x})
    BY <1>2
  <2>5. All(T) = F[x] \cup All(T \ {x}) /\ F[x] \cap All(T \ {x}) = {}
    OBVIOUS
  <2>6. IsFiniteSet(F[x])
    OBVIOUS
  <2>7. ~Fine(T)
    OBVIOUS
  <2>. DEFINE rest == All(T \ {x})
  <2>. HIDE DEF All, Bad
  <2>8. IsFiniteSet(F[x]) /\ IsFiniteSet(rest)
    BY <2>4, <2>6
  <2>9. /\ IsFiniteSet(F[x] \cup rest)
        /\ Cardinality(F[x] \cup rest) = Cardinality(F[x]) + Cardinality(rest) - Cardinality(F[x] \cap rest)
    <3>. HIDE DEF rest
    <3>. QED BY <2>8, FS_Union
  <2>10. Cardinality(F[x] \cap rest) = 0 /\ All(T) = F[x] \cup rest
    BY <2>5, FS_EmptySet
  <2>11. Cardinality(F[x]) \in Nat /\ Cardinality(rest) \in Nat
    BY <2>8, FS_CardinalityType
  <2>12. SumFunctionOnSet(count, T \ {x}) = Cardinality(rest)
    BY <2>4
  <2>. HIDE DEF rest
  <2>. QED BY <2>3, <2>7, <2>9, <2>10, <2>11, <2>12
<1>3. Bad = {}
  <2>1. Bad \subseteq SUBSET S
    OBVIOUS
  <2>. HIDE DEF Bad
  <2>. QED BY <1>2, <2>1, SmallestSubset
<1>4. All(S) = U
  OBVIOUS
<1>. QED BY <1>3, <1>4

(***************************************************************************)
(* The stock on show.                                                      *)
(***************************************************************************)
(* One rule prices a lead, so no lead is in the stock of two rules. *)
LEMMA StocksAreDisjoint ==
  ASSUME Inv, NEW place, NEW r \in ActiveRules(rules), NEW s \in ActiveRules(rules), r # s
  PROVE  EligibleQuery({r}, place) \cap EligibleQuery({s}, place) = {}
<1>. SUFFICES ASSUME NEW l \in Leads, leads[l].date <= BusinessDay,
                     Covers(rules[r], Age(l)), Covers(rules[s], Age(l))
              PROVE  FALSE
  BY DEF EligibleQuery
<1>1. Age(l) \in Nat
  BY TimeType DEF Inv, FulfillmentTypeOK, LeadRecord, Age
<1>2. PICK q \in RuleIds : Applicable(rules, Age(l)) = {q}
  BY <1>1, ValidRangesExactCover DEF Inv, FulfillmentTypeOK, PricingTypeOK
<1>3. r \in Applicable(rules, Age(l)) /\ s \in Applicable(rules, Age(l))
  BY DEF Applicable
<1>. QED BY <1>2, <1>3

(* Counting rule by rule is counting together. *)
LEMMA StockOfRules ==
  ASSUME Inv, NEW place, NEW tiers, tiers \subseteq ActiveRules(rules)
  PROVE  /\ IsFiniteSet(EligibleQuery(tiers, place))
         /\ SumFunction([r \in tiers |-> Cardinality(EligibleQuery({r}, place))])
              = Cardinality(EligibleQuery(tiers, place))
<1>. DEFINE stock == [r \in tiers |-> EligibleQuery({r}, place)]
            count == [r \in tiers |-> Cardinality(stock[r])]
<1>1. IsFiniteSet(tiers)
  BY PricingAssumption, FS_Subset DEF ActiveRules, Existing
<1>2. \A T : EligibleQuery(T, place) \in SUBSET Leads
  BY DEF EligibleQuery
<1>3. \A r \in tiers : IsFiniteSet(stock[r])
  BY <1>2, FS_Subset, FulfillmentAssumption
<1>4. \A r, s \in tiers : r # s => stock[r] \cap stock[s] = {}
  BY StocksAreDisjoint
<1>5. \A l : l \in EligibleQuery(tiers, place) <=> \E r \in tiers : l \in stock[r]
  BY DEF EligibleQuery
<1>6. count = [r \in tiers |-> Cardinality(EligibleQuery({r}, place))] /\ DOMAIN count = tiers
  OBVIOUS
<1>7. SumFunctionOnSet(count, tiers) = Cardinality(EligibleQuery(tiers, place))
  <2>1. \A r \in tiers : count[r] = Cardinality(stock[r])
    OBVIOUS
  <2>. HIDE DEF stock, count
  <2>. QED BY <1>1, <1>3, <1>4, <1>5, <2>1, SumOfCardinalities
<1>8. IsFiniteSet(EligibleQuery(tiers, place))
  BY <1>2, FS_Subset, FulfillmentAssumption
<1>. QED BY <1>6, <1>7, <1>8 DEF SumFunction

(* What the summary shows of a tier is what an order for it may ask for. *)
LEMMA TierIsStock ==
  ASSUME Inv, NEW price, NEW place
  PROVE  /\ TierQuantity(price, place) = Cardinality(Eligible(price, place))
         /\ IsFiniteSet(Eligible(price, place))
<1>1. Tier(price) \subseteq ActiveRules(rules)
  BY DEF Tier
<1>. QED BY <1>1, StockOfRules DEF TierQuantity, Eligible

(* Tiers of different prices share no lead, so their stocks add up to all there is. *)
LEMMA InventoryIsStock ==
  ASSUME Inv
  PROVE  AvailableInventory = Cardinality(EligibleQuery(ActiveRules(rules), AnyPlace))
<1>. DEFINE stock == [price \in Prices |-> Eligible(price, AnyPlace)]
            count == [price \in Prices |-> Cardinality(stock[price])]
<1>1. IsFiniteSet(Prices)
  <2>. DEFINE A == ActiveRules(rules)
              price == [r \in A |-> rules[r].price]
  <2>1. IsFiniteSet(A)
    BY PricingAssumption, FS_Subset DEF ActiveRules, Existing
  <2>2. price \in Surjection(A, Prices)
    BY DEF Surjection, Prices
  <2>. HIDE DEF A, price
  <2>. QED BY <2>1, <2>2, FS_Surjection
<1>2. \A price \in Prices : IsFiniteSet(stock[price])
  BY TierIsStock
<1>3. ASSUME NEW p \in Prices, NEW q \in Prices, p # q
      PROVE  stock[p] \cap stock[q] = {}
  <2>. SUFFICES ASSUME NEW l \in Eligible(p, AnyPlace), l \in Eligible(q, AnyPlace)
                PROVE  FALSE
    OBVIOUS
  <2>1. PICK r \in ActiveRules(rules) : rules[r].price = p /\ Covers(rules[r], Age(l))
    BY DEF Eligible, EligibleQuery, Tier
  <2>2. PICK s \in ActiveRules(rules) : rules[s].price = q /\ Covers(rules[s], Age(l))
    BY DEF Eligible, EligibleQuery, Tier
  <2>3. l \in EligibleQuery({r}, AnyPlace) /\ l \in EligibleQuery({s}, AnyPlace)
    BY <2>1, <2>2 DEF Eligible, EligibleQuery
  <2>. QED BY <1>3, <2>1, <2>2, <2>3, StocksAreDisjoint
<1>4. \A l : l \in EligibleQuery(ActiveRules(rules), AnyPlace) <=> \E price \in Prices : l \in stock[price]
  BY DEF Eligible, EligibleQuery, Tier, Prices
<1>5. count = [price \in Prices |-> TierQuantity(price, AnyPlace)] /\ DOMAIN count = Prices
  BY TierIsStock
<1>6. SumFunctionOnSet(count, Prices) = Cardinality(EligibleQuery(ActiveRules(rules), AnyPlace))
  <2>1. \A p, q \in Prices : p # q => stock[p] \cap stock[q] = {}
    <3>. HIDE DEF stock
    <3>. QED BY <1>3
  <2>. HIDE DEF stock
  <2>2. \A price \in Prices : IsFiniteSet(stock[price])
    BY <1>2
  <2>3. \A price \in Prices : count[price] = Cardinality(stock[price])
    BY DEF count
  <2>. HIDE DEF count
  <2>. QED BY <1>1, <1>4, <2>1, <2>2, <2>3, SumOfCardinalities
<1>. QED BY <1>5, <1>6 DEF AvailableInventory, SumFunction

(* A place is offered exactly when some tier has stock there. *)
LEMMA OfferedIsStocked ==
  ASSUME Inv, NEW place \in Municipalities
  PROVE  place \in OfferedPlaces <=> \E price \in Prices : TierQuantity(price, place) > 0
<1>1. \A price : TierQuantity(price, place) > 0 <=> Eligible(price, place) # {}
  BY TierIsStock, FS_EmptySet, FS_CardinalityType
<1>2. place # AnyPlace /\ place # None
  BY FulfillmentAssumption
<1>3. (\E price \in Prices : Eligible(price, place) # {})
        <=> \E l \in EligibleQuery(ActiveRules(rules), AnyPlace) : leads[l].municipality = place
  BY <1>2 DEF Eligible, EligibleQuery, Tier, Prices
<1>. QED BY <1>1, <1>2, <1>3 DEF OfferedPlaces

(* The stock on show is the stock on sale, in every reachable state. *)
THEOREM StockOnShowIsSellable == Spec => []StockIsSellable
<1>1. Inv => StockIsSellable
  BY TierIsStock, InventoryIsStock, OfferedIsStocked DEF StockIsSellable
<1>. QED BY <1>1, Invariant, PTL

(***************************************************************************)
(* The books.                                                              *)
(***************************************************************************)
SoldOrders == {o \in Orders : Placed(o) /\ orders[o].status = "FULFILLED"}

(* Only finitely many orders were fulfilled, with finitely many leads, at any
   moment; the totals are sums. *)
BooksInv == IsFiniteSet(SoldOrders) /\ IsFiniteSet(allocations) /\ RevenueIsEarned

(* A step allocates a lot, or it sells nothing. *)
LEMMA NextSellsOrNot ==
  ASSUME Inv, [Next]_vars,
         ~ \E p \in Payloads, selected \in SUBSET Leads : Allocate(p, selected)
  PROVE  /\ allocations' = allocations
         /\ \A o \in Orders :
              /\ Placed(o)' /\ orders'[o].status = "FULFILLED"
                   <=> Placed(o) /\ orders[o].status = "FULFILLED"
              /\ Placed(o) => /\ orders'[o].quantity = orders[o].quantity
                              /\ orders'[o].price = orders[o].price
<1>. DEFINE Kept == \A o \in Orders :
              /\ Placed(o)' /\ orders'[o].status = "FULFILLED"
                   <=> Placed(o) /\ orders[o].status = "FULFILLED"
              /\ Placed(o) => /\ orders'[o].quantity = orders[o].quantity
                              /\ orders'[o].price = orders[o].price
<1>1. FulfillmentTypeOK
  BY DEF Inv
<1>2. ASSUME NEW o \in Orders, Placed(o), NEW order \in Order, Put(o, order),
             order.quantity = orders[o].quantity, order.price = orders[o].price,
             order.status = "FULFILLED" <=> orders[o].status = "FULFILLED"
      PROVE  Kept
  <2>1. /\ orders'[o] = order
        /\ \A q \in Orders \ {o} : orders'[q] = orders[q]
    BY <1>1, <1>2, PutRow
  <2>2. Placed(o)'
    BY <2>1, FulfillmentAssumption DEF Placed
  <2>. QED BY <1>2, <2>1, <2>2 DEF Placed
<1>3. ASSUME NEW o \in Orders, NEW request \in Requests, CreateOrder(o, request)
      PROVE  Kept
  <2>1. /\ ~Placed(o) /\ orders'[o].status = "PENDING"
        /\ \A q \in Orders \ {o} : orders'[q] = orders[q]
    BY <1>1, <1>3 DEF CreateOrder, FulfillmentTypeOK
  <2>. QED BY <2>1 DEF Placed
<1>4. ASSUME NEW o \in Orders, CheckoutCreated(o)
      PROVE  Kept
  <2>. DEFINE row == [orders[o] EXCEPT !.checkoutId = SessionOf[o]]
  <2>1. Placed(o) /\ orders[o] \in Order
    BY <1>4, PlacedOrderType DEF Inv, CallingIsPlaced, CheckoutCreated
  <2>2. /\ row \in Order /\ row.quantity = orders[o].quantity /\ row.price = orders[o].price
        /\ row.status = orders[o].status
    BY <2>1, FulfillmentAssumption DEF Order
  <2>3. Put(o, row)
    BY <1>4 DEF CheckoutCreated, Put
  <2>. HIDE DEF row, Kept
  <2>. QED BY <1>2, <2>1, <2>2, <2>3
<1>5. ASSUME NEW o \in Orders, CheckoutRefused(o)
      PROVE  Kept
  <2>1. Placed(o) /\ orders[o] \in Order
    BY <1>5, PlacedOrderType DEF Inv, CallingIsPlaced, CheckoutRefused
  <2>2. Put(o, FailIfPending(orders[o]))
    BY <1>5 DEF CheckoutRefused, Put
  <2>. HIDE DEF Kept
  <2>. QED BY <1>2, <2>1, <2>2, FailIfPendingRow
<1>6. ASSUME NEW p \in Payloads, AlreadySettled(p) \/ PaymentFailed(p)
      PROVE  Kept
  <2>1. Bindable(p) /\ (Put(p.order, Bound(p)) \/ Put(p.order, FailIfPending(Bound(p))))
    BY <1>6 DEF AlreadySettled, PaymentFailed
  <2>2. p.order \in Orders /\ Placed(p.order) /\ Bound(p) \in Order
    BY <1>1, <2>1, BoundType, BoundRow
  <2>3. /\ Bound(p).quantity = orders[p.order].quantity /\ Bound(p).price = orders[p.order].price
        /\ Bound(p).status = orders[p.order].status
    BY <1>1, <2>1, BoundRow
  <2>. HIDE DEF Kept
  <2>. QED BY <1>2, <2>1, <2>2, <2>3, FailIfPendingRow
<1>7. ASSUME NEW p \in Payloads, Reject(p)
      PROVE  Kept
  <2>1. Payable(p) /\ Put(p.order, Settled(p, "FULFILLMENT_FAILED"))
    BY <1>7 DEF Reject
  <2>2. /\ Settled(p, "FULFILLMENT_FAILED") \in Order
        /\ Settled(p, "FULFILLMENT_FAILED").status = "FULFILLMENT_FAILED"
        /\ Settled(p, "FULFILLMENT_FAILED").quantity = orders[p.order].quantity
        /\ Settled(p, "FULFILLMENT_FAILED").price = orders[p.order].price
    BY <1>1, <2>1, SettledType DEF Statuses
  <2>3. p.order \in Orders /\ Placed(p.order) /\ orders[p.order].status # "FULFILLED"
    BY <2>1 DEF Payable, Bindable, TERMINAL
  <2>. HIDE DEF Kept
  <2>. QED BY <1>2, <2>1, <2>2, <2>3
<1>8. ASSUME orders' = orders
      PROVE  Kept
  BY <1>8 DEF Placed
<1>9. Kept
  <2>. HIDE DEF Kept
  <2>. QED BY <1>3, <1>4, <1>5, <1>6, <1>7, <1>8
          DEF Next, CheckoutStep, PaymentStep, PaymentSucceeded, CheckoutLost, ApplySync,
              EditPricing, ChangeTimeZone, Tick, vars, storeVars
<1>10. allocations' = allocations
  BY DEF Next, CheckoutStep, PaymentStep, PaymentSucceeded, AlreadySettled, Reject,
         PaymentFailed, CreateOrder, CheckoutCreated, CheckoutRefused, CheckoutLost,
         ApplySync, EditPricing, ChangeTimeZone, Tick, vars, storeVars
<1>. QED BY <1>9, <1>10

(* A step that sells nothing leaves the books as they are. *)
LEMMA BooksUntouched ==
  ASSUME BooksInv, allocations' = allocations,
         \A o \in Orders :
           /\ Placed(o)' /\ orders'[o].status = "FULFILLED"
                <=> Placed(o) /\ orders[o].status = "FULFILLED"
           /\ Placed(o) => /\ orders'[o].quantity = orders[o].quantity
                           /\ orders'[o].price = orders[o].price
  PROVE  BooksInv'
<1>1. SoldOrders' = SoldOrders
  BY DEF SoldOrders
<1>2. TotalOf(SoldOrders)' = TotalOf(SoldOrders)
  <2>1. [o \in SoldOrders |-> orders[o].quantity * orders[o].price]'
          = [o \in SoldOrders |-> orders[o].quantity * orders[o].price]
    BY <1>1 DEF SoldOrders
  <2>. QED BY <1>1, <2>1 DEF TotalOf
<1>3. Revenue = TotalOf(SoldOrders)
  BY DEF Revenue, SoldOrders
<1>4. Revenue' = TotalOf(SoldOrders)'
  BY DEF Revenue, SoldOrders
<1>. QED BY <1>1, <1>2, <1>3, <1>4 DEF BooksInv, RevenueIsEarned

(* A lot is as large as its order asked for, and new. *)
LEMMA LotIsNew ==
  ASSUME Inv, NEW p \in Payloads, NEW selected \in SUBSET Leads, Allocate(p, selected)
  PROVE  LET o == p.order
             lot == {AllocationFor(o, l) : l \in selected}
         IN  /\ o \in Orders /\ orders[o] \in Order /\ o \notin SoldOrders
             /\ IsFiniteSet(lot) /\ Cardinality(lot) = orders[o].quantity
             /\ allocations' = allocations \cup lot /\ allocations \cap lot = {}
             /\ \A a \in lot : a.price = orders[o].price
             /\ SoldOrders' = SoldOrders \cup {o}
             /\ orders'[o].quantity = orders[o].quantity /\ orders'[o].price = orders[o].price
             /\ \A q \in Orders \ {o} : orders'[q] = orders[q]
<1>. DEFINE o == p.order
            lot == {AllocationFor(o, l) : l \in selected}
            sale == [l \in selected |-> AllocationFor(o, l)]
<1>1. /\ Payable(p) /\ Put(o, Settled(p, "FULFILLED"))
      /\ selected \subseteq Eligible(orders[o].price, orders[o].municipality)
      /\ Cardinality(selected) = orders[o].quantity
      /\ allocations' = allocations \cup lot
  BY DEF Allocate
<1>2. /\ o \in Orders /\ Placed(o) /\ orders[o] \in Order
      /\ orders[o].status # "FULFILLED"
  BY <1>1, PlacedOrderType DEF Inv, Payable, Bindable, TERMINAL
<1>3. /\ orders'[o] = Settled(p, "FULFILLED")
      /\ \A q \in Orders \ {o} : orders'[q] = orders[q]
      /\ \A q \in Orders : Placed(q) <=> Placed(q)'
  BY <1>1, PaymentRecorded DEF TERMINAL
<1>4. /\ Settled(p, "FULFILLED").status = "FULFILLED"
      /\ Settled(p, "FULFILLED").quantity = orders[o].quantity
      /\ Settled(p, "FULFILLED").price = orders[o].price
  BY <1>1, SettledType DEF Inv, Statuses
<1>5. \A l \in selected :
        LET a == AllocationFor(o, l) IN a.order = o /\ a.lead = l /\ a.price = orders[o].price
  BY <1>1, <1>2, AllocationType DEF Inv
<1>6. IsFiniteSet(lot) /\ Cardinality(lot) = Cardinality(selected)
  <2>1. sale \in Bijection(selected, lot)
    <3>1. sale \in [selected -> lot] /\ \A a \in lot : \E l \in selected : sale[l] = a
      OBVIOUS
    <3>2. \A l, m \in selected : sale[l] = sale[m] => l = m
      BY <1>5
    <3>. HIDE DEF sale, lot
    <3>. QED BY <3>1, <3>2 DEF Bijection, Injection, IsInjective, Surjection
  <2>2. IsFiniteSet(selected)
    BY FS_Subset, FulfillmentAssumption
  <2>. HIDE DEF sale, lot
  <2>. QED BY <2>1, <2>2, FS_Bijection DEF ExistsBijection
<1>7. allocations \cap lot = {}
  <2>1. \A a \in allocations : a.order # o
    BY <1>2 DEF Inv, ExactFulfillment, SoldTo
  <2>. QED BY <1>5, <2>1
<1>8. SoldOrders' = SoldOrders \cup {o}
  BY <1>2, <1>3, <1>4 DEF SoldOrders
<1>9. o \notin SoldOrders
  BY <1>2 DEF SoldOrders
<1>10. \A a \in lot : a.price = orders[o].price
  BY <1>5
<1>. QED BY <1>1, <1>2, <1>3, <1>4, <1>6, <1>7, <1>8, <1>9, <1>10

(* A lot is entered in the books at what its order costs. *)
LEMMA BooksEnterLot ==
  ASSUME Inv, BooksInv, NEW p \in Payloads, NEW selected \in SUBSET Leads, Allocate(p, selected)
  PROVE  BooksInv'
<1>. DEFINE o == p.order
            lot == {AllocationFor(o, l) : l \in selected}
            cost == [q \in SoldOrders |-> orders[q].quantity * orders[q].price]
            newCost == [q \in SoldOrders \cup {o} |-> orders'[q].quantity * orders'[q].price]
            price == [a \in allocations |-> a.price]
            newPrice == [a \in allocations \cup lot |-> a.price]
<1>1. /\ o \in Orders /\ orders[o] \in Order /\ o \notin SoldOrders
      /\ IsFiniteSet(lot) /\ Cardinality(lot) = orders[o].quantity
      /\ allocations' = allocations \cup lot /\ allocations \cap lot = {}
      /\ \A a \in lot : a.price = orders[o].price
      /\ SoldOrders' = SoldOrders \cup {o}
      /\ orders'[o].quantity = orders[o].quantity /\ orders'[o].price = orders[o].price
      /\ \A q \in Orders \ {o} : orders'[q] = orders[q]
  BY LotIsNew
<1>. HIDE DEF lot, o
<1>2. orders[o].quantity \in Nat /\ orders[o].price \in Nat
  BY <1>1 DEF Order
<1>3. \A a \in allocations : a.price \in Nat
  BY DEF Inv, FulfillmentTypeOK, Allocation
<1>4. IsFiniteSet(SoldOrders)' /\ IsFiniteSet(allocations)'
  BY <1>1, FS_AddElement, FS_Union DEF BooksInv
<1>5. SumFunctionOnSet(newCost, SoldOrders \cup {o})
        = orders[o].quantity * orders[o].price + SumFunctionOnSet(cost, SoldOrders)
  <2>1. \A q \in SoldOrders : newCost[q] = cost[q] /\ cost[q] \in Nat
    <3>1. \A q \in SoldOrders : /\ orders[q] \in Order /\ q \in Orders \ {o}
                                /\ orders[q].quantity \in Nat /\ orders[q].price \in Nat
      BY <1>1, PlacedOrderType DEF Inv, SoldOrders, Order
    <3>2. \A m, n \in Nat : m * n \in Nat
      OBVIOUS
    <3>. QED BY <1>1, <3>1, <3>2
  <2>2. newCost[o] = orders[o].quantity * orders[o].price /\ newCost[o] \in Nat
    BY <1>1, <1>2
  <2>3. (SoldOrders \cup {o}) \ {o} = SoldOrders /\ IsFiniteSet(SoldOrders \cup {o})
    BY <1>1, <1>4
  <2>. HIDE DEF newCost, cost
  <2>4. SumFunctionOnSet(newCost, SoldOrders \cup {o}) = newCost[o] + SumFunctionOnSet(newCost, SoldOrders)
    <3>1. \A q \in SoldOrders \cup {o} : newCost[q] \in Nat
      BY <2>1, <2>2
    <3>. QED BY <2>3, <3>1, SumRemove
  <2>5. SumFunctionOnSet(newCost, SoldOrders) = SumFunctionOnSet(cost, SoldOrders)
    BY <2>1, SumAgree DEF BooksInv
  <2>. QED BY <2>2, <2>4, <2>5
<1>6. SumFunctionOnSet(newPrice, allocations \cup lot)
        = SumFunctionOnSet(price, allocations) + orders[o].quantity * orders[o].price
  <2>1. \A a \in allocations : newPrice[a] = price[a] /\ newPrice[a] \in Nat
    BY <1>3
  <2>2. \A a \in lot : newPrice[a] = orders[o].price
    BY <1>1
  <2>3. (allocations \cup lot) \ lot = allocations /\ IsFiniteSet(allocations \cup lot)
    BY <1>1, <1>4
  <2>. HIDE DEF newPrice, price
  <2>4. SumFunctionOnSet(newPrice, allocations \cup lot)
          = SumFunctionOnSet(newPrice, allocations) + Cardinality(lot) * orders[o].price
    <3>1. \A a \in allocations \cup lot : newPrice[a] \in Nat
      BY <1>2, <2>1, <2>2
    <3>. QED BY <1>2, <2>2, <2>3, <3>1, SumOfEqualParts
  <2>5. SumFunctionOnSet(newPrice, allocations) = SumFunctionOnSet(price, allocations)
    BY <2>1, SumAgree DEF BooksInv
  <2>. QED BY <1>1, <2>4, <2>5
<1>7. Revenue = SumFunctionOnSet(cost, SoldOrders)
  BY DEF Revenue, TotalOf, SumFunction, SoldOrders
<1>8. Revenue' = SumFunctionOnSet(newCost, SoldOrders \cup {o})
  <2>1. Revenue' = TotalOf(SoldOrders)'
    BY DEF Revenue, SoldOrders
  <2>. QED BY <1>1, <2>1 DEF TotalOf, SumFunction
<1>9. Revenue = SumFunctionOnSet(price, allocations)
  BY DEF BooksInv, RevenueIsEarned, SumFunction
<1>10. SumFunction([a \in allocations |-> a.price])' = SumFunctionOnSet(newPrice, allocations \cup lot)
  BY <1>1 DEF SumFunction
<1>11. Revenue \in Nat
  <2>1. \A a \in allocations : price[a] \in Nat
    BY <1>3
  <2>. HIDE DEF price
  <2>. QED BY <1>9, <2>1, SumType DEF BooksInv
<1>12. orders[o].quantity * orders[o].price \in Nat
  BY <1>2
<1>13. RevenueIsEarned'
  <2>. DEFINE paid == orders[o].quantity * orders[o].price
  <2>1. Revenue' = paid + Revenue
    BY <1>5, <1>7, <1>8
  <2>2. SumFunction([a \in allocations |-> a.price])' = Revenue + paid
    BY <1>6, <1>9, <1>10
  <2>3. paid + Revenue = Revenue + paid
    <3>. HIDE DEF paid
    <3>. QED BY <1>11, <1>12 DEF paid
  <2>. HIDE DEF paid
  <2>. QED BY <2>1, <2>2, <2>3 DEF RevenueIsEarned
<1>. QED BY <1>4, <1>13 DEF BooksInv

(* The books of an empty shop balance. *)
LEMMA BooksInitialized == Init => BooksInv
<1>. SUFFICES ASSUME Init PROVE BooksInv
  OBVIOUS
<1>1. SoldOrders = {} /\ allocations = {}
  BY DEF Init, SoldOrders, Placed
<1>2. Revenue = TotalOf({})
  BY <1>1 DEF Revenue, SoldOrders
<1>3. \A f : DOMAIN f = {} => SumFunction(f) = 0
  BY SumOfNone DEF SumFunction
<1>4. TotalOf({}) = 0
  BY <1>3 DEF TotalOf
<1>5. SumFunction([a \in allocations |-> a.price]) = 0
  BY <1>1, <1>3
<1>. QED BY <1>1, <1>2, <1>4, <1>5, FS_EmptySet DEF BooksInv, RevenueIsEarned

(* The books balance after every step of every order, payment and edit. *)
LEMMA BooksBalance == Spec => []BooksInv
<1>1. Inv /\ BooksInv /\ [Next]_vars => BooksInv'
  <2>. SUFFICES ASSUME Inv, BooksInv, [Next]_vars PROVE BooksInv'
    OBVIOUS
  <2>1. CASE \E p \in Payloads, selected \in SUBSET Leads : Allocate(p, selected)
    BY <2>1, BooksEnterLot
  <2>2. CASE ~ \E p \in Payloads, selected \in SUBSET Leads : Allocate(p, selected)
    BY <2>2, NextSellsOrNot, BooksUntouched
  <2>. QED BY <2>1, <2>2
<1>. QED BY <1>1, BooksInitialized, Invariant, PTL DEF Spec

(* The revenue on the dashboard is what the delivered leads were sold for. *)
THEOREM RevenueIsEarnedAlways == Spec => []RevenueIsEarned
<1>1. BooksInv => RevenueIsEarned
  BY DEF BooksInv
<1>. QED BY <1>1, BooksBalance, PTL

(***************************************************************************)
(* The administrator's list of leads.                                      *)
(***************************************************************************)
(* The latest exclusion decides: it is over exactly when all are. *)
LEMMA LatestExclusionDecides ==
  ASSUME Inv, BooksInv, NEW l \in Leads
  PROVE  ListedExcluded(l) <=> Excluded(l)
<1>. DEFINE Ends == {0} \cup {a.until : a \in {b \in allocations : b.lead = l}}
<1>1. Ends \subseteq Nat /\ Ends # {}
  BY DEF Inv, FulfillmentTypeOK, Allocation
<1>2. IsFiniteSet(Ends)
  <2>. DEFINE sold == {b \in allocations : b.lead = l}
              until == [a \in sold |-> a.until]
              ends == {a.until : a \in sold}
  <2>1. IsFiniteSet(sold)
    BY FS_Subset DEF BooksInv
  <2>2. until \in Surjection(sold, ends)
    BY DEF Surjection
  <2>3. IsFiniteSet(ends)
    <3>. HIDE DEF sold, until, ends
    <3>. QED BY <2>1, <2>2, FS_Surjection
  <2>. QED BY <2>3, FS_Singleton, FS_Union
<1>3. PICK m \in Ends : \A e \in Ends : m >= e
  <2>. DEFINE self == [e \in Ends |-> e]
  <2>1. \A e \in Ends : self[e] = e /\ self[e] \in Nat
    BY <1>1
  <2>. HIDE DEF Ends, self
  <2>2. PICK m \in Ends : \A e \in Ends : self[e] <= self[m]
    BY <1>1, <1>2, <2>1, GreatestKey
  <2>. QED BY <1>1, <2>1, <2>2
<1>4. LastExclusion(l) \in Ends /\ \A e \in Ends : LastExclusion(l) >= e
  BY <1>3 DEF LastExclusion, Max
<1>5. clock \in Nat
  BY TimeType DEF Inv
<1>6. \A a \in allocations : a.lead = l => a.until \in Ends
  OBVIOUS
<1>7. \A e \in Ends : e > clock => \E a \in allocations : a.lead = l /\ a.until = e
  BY <1>5
<1>. HIDE DEF Ends
<1>8. CASE Excluded(l)
  <2>1. PICK a \in allocations : a.lead = l /\ a.until > clock
    BY <1>8 DEF Excluded
  <2>2. LastExclusion(l) >= a.until /\ a.until \in Nat /\ LastExclusion(l) \in Nat
    BY <1>1, <1>4, <1>6, <2>1
  <2>3. LastExclusion(l) > clock
    BY <1>5, <2>1, <2>2
  <2>. QED BY <1>8, <2>3 DEF ListedExcluded
<1>9. CASE ListedExcluded(l)
  BY <1>4, <1>7, <1>9 DEF ListedExcluded, Excluded
<1>. QED BY <1>8, <1>9

(* The filter by price and the price shown agree, and so do list and shop but for the type. *)
LEMMA ListIsShop ==
  ASSUME Inv, BooksInv, NEW l \in Leads, NEW price \in Prices
  PROVE  /\ l \in ListedAt(price) <=> ListedPrice(l) = price
         /\ l \in Eligible(price, AnyPlace)
              <=> /\ leads[l].active /\ ~ListedExcluded(l) /\ ListedPrice(l) = price
                  /\ leads[l].insurance = LifeInsurance
<1>1. price \in Nat
  BY PricingAssumption
     DEF Prices, Inv, FulfillmentTypeOK, PricingTypeOK, Tables, ActiveRules, Existing, RuleInput
<1>2. BusinessDay \in Nat /\ leads[l].date \in Nat
  BY TimeType DEF Inv, FulfillmentTypeOK, LeadRecord
<1>3. CASE leads[l].date > BusinessDay
  <2>1. \A r \in ActiveRules(rules) : ~Covers(rules[r], Age(l))
    <3>1. \A r \in ActiveRules(rules) : rules[r].min \in Nat
      BY PricingAssumption
         DEF Inv, FulfillmentTypeOK, PricingTypeOK, Tables, ActiveRules, Existing, RuleInput
    <3>. QED BY <1>2, <1>3, <3>1 DEF Covers, Age
  <2>2. ListedPrice(l) = None /\ None # price
    BY <1>1, <2>1, FulfillmentAssumption DEF ListedPrice, Applicable
  <2>3. l \notin ListedAt(price)
    BY <2>1 DEF ListedAt, Tier
  <2>4. l \notin Eligible(price, AnyPlace)
    BY <1>2, <1>3 DEF Eligible, EligibleQuery
  <2>. QED BY <2>2, <2>3, <2>4
<1>4. CASE leads[l].date <= BusinessDay
  <2>1. Age(l) \in Nat
    BY <1>2, <1>4 DEF Age
  <2>2. PICK r \in RuleIds : Applicable(rules, Age(l)) = {r}
    BY <2>1, ValidRangesExactCover DEF Inv, FulfillmentTypeOK, PricingTypeOK
  <2>3. /\ r \in ActiveRules(rules) /\ Covers(rules[r], Age(l))
        /\ \A s \in ActiveRules(rules) : Covers(rules[s], Age(l)) => s = r
    BY <2>2 DEF Applicable
  <2>4. ListedPrice(l) = rules[r].price
    BY <2>2 DEF ListedPrice, ApplicableRule
  <2>5. (\E s \in Tier(price) : Covers(rules[s], Age(l))) <=> rules[r].price = price
    BY <2>3 DEF Tier
  <2>6. ListedExcluded(l) <=> Excluded(l)
    BY LatestExclusionDecides
  <2>. QED BY <1>4, <2>4, <2>5, <2>6 DEF ListedAt, Eligible, EligibleQuery
<1>. QED BY <1>2, <1>3, <1>4

(* In every reachable state the list of leads differs from the shop by the insurance
   type only: listed at a price and free, a lead of the type that is sold is on sale
   at that price, and a lead of another type is not. *)
THEOREM ListIsShopAndOtherTypes == Spec => []ListDiffersByTypeOnly
<1>1. Inv /\ BooksInv => ListDiffersByTypeOnly
  <2>. SUFFICES ASSUME Inv, BooksInv, NEW price \in Prices
                PROVE  /\ ListedAt(price) = {l \in Leads : ListedPrice(l) = price}
                       /\ Eligible(price, AnyPlace) =
                            {l \in ListedAt(price) :
                               /\ leads[l].active /\ ~ListedExcluded(l)
                               /\ leads[l].insurance = LifeInsurance}
    BY DEF ListDiffersByTypeOnly
  <2>1. ListedAt(price) \subseteq Leads /\ Eligible(price, AnyPlace) \subseteq Leads
    BY DEF ListedAt, Eligible, EligibleQuery
  <2>2. \A l \in Leads :
          /\ l \in ListedAt(price) <=> ListedPrice(l) = price
          /\ l \in Eligible(price, AnyPlace)
               <=> /\ leads[l].active /\ ~ListedExcluded(l) /\ ListedPrice(l) = price
                   /\ leads[l].insurance = LifeInsurance
    BY ListIsShop
  <2>. QED BY <2>1, <2>2
<1>. QED BY <1>1, Invariant, BooksBalance, PTL
=============================================================================
