---------------------------- MODULE MC_Pricing ----------------------------
(* Pricing on a calendar of a few days. *)
EXTENDS Pricing, TLC

CONSTANTS r1, r2, r3, Horizon

MCAges == 0..Horizon

MCRuleIds == {r1, r2, r3}

Ranges ==
  {<<lo, hi>> \in (0..2) \X ((0..2) \cup {Open}) : hi = Open \/ lo <= hi}

Rule(range, price, active) ==
  [min |-> range[1], max |-> range[2], price |-> price, days |-> 1, active |-> active]

(* Every range at two prices, and two retired rules. *)
MCInputs ==
  {Rule(range, price, TRUE) : range \in Ranges, price \in {5, 12}}
    \cup {Rule(<<0, Open>>, price, FALSE) : price \in {5, 12}}

(* The seeded configuration in small: contiguous tiers, oldest open-ended. *)
MCSeedTable == r1 :> Rule(<<0, 0>>, 12, TRUE) @@ r2 :> Rule(<<1, Open>>, 5, TRUE)
                 @@ r3 :> NoRule
=============================================================================
