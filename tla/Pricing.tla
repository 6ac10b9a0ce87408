------------------------------ MODULE Pricing ------------------------------
(***************************************************************************)
(* The pricing rules of backend/app/services/pricing_service.py: an active *)
(* rule prices the leads whose age in days lies in its range.  Every       *)
(* change is one write transaction (BEGIN IMMEDIATE), so every change is   *)
(* one action; a rejected request rolls back and is no step at all.        *)
(*                                                                         *)
(* The table is a function from rule ids to rows.  Rows are never deleted: *)
(* purchase_leads references them (ondelete RESTRICT, no delete endpoint). *)
(* sort_order is left out: it only orders the list in which the first      *)
(* covering rule is looked up, and FulfillmentProofs!ValidRangesExactCover *)
(* shows that there is never a second one.                                 *)
(***************************************************************************)
EXTENDS Integers, FiniteSets

CONSTANTS
  RuleIds,   \* primary keys of pricing_rules
  Inputs,    \* the rule bodies an administrator may submit
  Ages,      \* the ages in days a lead can have
  SeedTable, \* the table scripts/seed.py leaves behind
  NoRule,    \* the row of an id not used yet
  Open       \* max_age_days IS NULL: the range has no upper end

(* What PricingRuleInput and the CHECK constraints admit. *)
RuleInput ==
  {i \in [min: Nat, max: Nat \cup {Open}, price: Nat \ {0}, days: Nat, active: BOOLEAN] :
     i.max = Open \/ i.min <= i.max}

ASSUME PricingAssumption ==
  /\ IsFiniteSet(RuleIds)
  /\ Inputs \subseteq RuleInput
  /\ Ages \subseteq Nat
  /\ Open \notin Nat
  /\ NoRule \notin RuleInput

VARIABLE rules

Tables == [RuleIds -> Inputs \cup {NoRule}]

Existing(t) == {r \in RuleIds : t[r] # NoRule}
ActiveRules(t) == {r \in Existing(t) : t[r].active}

(***************************************************************************)
(* PricingService.applicable_rule.                                         *)
(***************************************************************************)
Covers(rule, age) == rule.min <= age /\ (rule.max = Open \/ age <= rule.max)

Applicable(t, age) == {r \in ActiveRules(t) : Covers(t[r], age)}

ApplicableRule(t, age) == CHOOSE r \in Applicable(t, age) : TRUE

(***************************************************************************)
(* PricingService.validate_ranges: sorted by min_age_days the active rules *)
(* start at 0, each one ends the day before its successor starts, and the  *)
(* last one is open-ended.  Two rules with the same start are neighbours   *)
(* in that order and can never be contiguous.                              *)
(***************************************************************************)
Later(t, r) == {s \in ActiveRules(t) : t[s].min > t[r].min}

(* Mutant: a range may start later than the day after its predecessor's end. *)
ContiguousWithGaps(t, r) ==
  /\ t[r].max # Open
  /\ \A s \in Later(t, r) : t[s].min > t[r].max

Contiguous(t, r) ==
  /\ t[r].max # Open
  /\ \E s \in Later(t, r) : t[s].min = t[r].max + 1
  /\ \A s \in Later(t, r) : t[s].min >= t[r].max + 1

(* Mutant: two rules may start on the same day. *)
ValidRangesWithTwins(t) ==
  /\ \E r \in ActiveRules(t) : t[r].min = 0
  /\ \A r \in ActiveRules(t) :
       IF Later(t, r) = {} THEN t[r].max = Open ELSE Contiguous(t, r)

ValidRanges(t) ==
  /\ \E r \in ActiveRules(t) : t[r].min = 0
  /\ \A r, s \in ActiveRules(t) : r # s => t[r].min # t[s].min
  /\ \A r \in ActiveRules(t) :
       IF Later(t, r) = {} THEN t[r].max = Open ELSE Contiguous(t, r)

(***************************************************************************)
(* The same check as the code writes it: the active rules in any order     *)
(* that sorted may return them in, and a comparison of neighbours.         *)
(***************************************************************************)
SortedLists(t) ==
  LET n == Cardinality(ActiveRules(t))
  IN  {list \in [1..n -> ActiveRules(t)] :
         /\ \A r \in ActiveRules(t) : \E i \in 1..n : list[i] = r
         /\ \A i, j \in 1..n : i < j => /\ list[i] # list[j]
                                       /\ t[list[i]].min <= t[list[j]].min}

ScanAccepts(t, list) ==
  LET n == Cardinality(ActiveRules(t))
  IN  /\ n > 0
      /\ t[list[1]].min = 0
      /\ \A i \in 1..(n - 1) :
           /\ t[list[i]].max # Open
           /\ t[list[i + 1]].min = t[list[i]].max + 1
      /\ t[list[n]].max = Open

(***************************************************************************)
(* LeadRepository.age_condition: the same range as a condition on the      *)
(* lead's date.  Dates are ordinals, the first day of the calendar is 1.   *)
(***************************************************************************)
(* Mutant: the oldest day of the range is left out. *)
AgeConditionStrict(rule, date, today) ==
  LET lower == IF today - rule.max < 1 THEN 1 ELSE today - rule.max
  IN  /\ 1 <= today - rule.min
      /\ date <= today - rule.min
      /\ rule.max # Open => date > lower

AgeCondition(rule, date, today) ==
  LET upper == today - rule.min
      lower == IF today - rule.max < 1 THEN 1 ELSE today - rule.max
  IN  /\ upper >= 1
      /\ date <= upper
      /\ rule.max # Open => date >= lower

-----------------------------------------------------------------------------
(* scripts/seed.py fills an empty table and refuses to leave a bad one. *)
ASSUME SeedAssumption == SeedTable \in Tables /\ ValidRanges(SeedTable)

PricingInit == rules = SeedTable

(* POST /admin/pricing-rules *)
Create(r, input) ==
  /\ rules[r] = NoRule
  /\ ValidRanges([rules EXCEPT ![r] = input])
  /\ rules' = [rules EXCEPT ![r] = input]

PriceTaken(r, price) ==
  \E other \in ActiveRules(rules) \ {r} : rules[other].price = price

(* PATCH /admin/pricing-rules/{id}; input is the row merged with the fields sent. *)
Update(r, input) ==
  /\ rules[r] # NoRule
  /\ input.price # rules[r].price => ~PriceTaken(r, input.price)
  /\ ValidRanges([rules EXCEPT ![r] = input])
  /\ rules' = [rules EXCEPT ![r] = input]

(* PUT /admin/pricing-rules: every existing id exactly once, new rules besides. *)
UpdateBatch(table) ==
  /\ Existing(rules) \subseteq Existing(table)
  /\ ValidRanges(table)
  /\ rules' = table

PricingNext ==
  \/ \E r \in RuleIds, input \in Inputs : Create(r, input)
  \/ \E r \in RuleIds, input \in Inputs : Update(r, input)
  \/ \E table \in Tables : UpdateBatch(table)

PricingSpec == PricingInit /\ [][PricingNext]_rules

-----------------------------------------------------------------------------
PricingTypeOK == rules \in Tables

(* Every age is priced by exactly one active rule, whatever sequence of edits
   was accepted: a gap would strand leads, an overlap would sell one lead at
   two prices (validate_ranges and its three callers). *)
ExactCover ==
  \A age \in Ages : \E r \in RuleIds : Applicable(rules, age) = {r}

(* The days of the calendar, as far apart as a lead can be old. *)
Days == {age + 1 : age \in Ages}

(* The range condition of the SQL query and applicable_rule agree on every lead
   date and every day: a lead the query offers always gets its rule, so
   fulfillment never reaches "Eligible lead has no active pricing rule". *)
QueryAgreesWithRule ==
  \A date, today \in Days :
    {r \in ActiveRules(rules) : AgeCondition(rules[r], date, today)}
      = Applicable(rules, today - date)

(* The check the actions are guarded with accepts exactly the edits that the
   neighbour comparison of validate_ranges accepts, however it sorts ties. *)
CheckAgreesWithSortedScan ==
  \A r \in RuleIds, input \in Inputs :
    LET edited == [rules EXCEPT ![r] = input]
    IN  /\ SortedLists(edited) # {}
        /\ \A list \in SortedLists(edited) : ValidRanges(edited) = ScanAccepts(edited, list)
=============================================================================
