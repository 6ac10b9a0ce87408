----------------------------- MODULE MC_Reports -----------------------------
(* The shop of MC_Fulfillment with up to three tiers, two of which may share a
   price, leads of yesterday, today and tomorrow, one of
   them without a municipality, one of another insurance type, and a time zone that changes. *)
EXTENDS Reports, MC_Fulfillment

CONSTANTS r3

MCThreeRules == {r1, r2, r3}

Between(from, to, price) ==
  [min |-> from, max |-> to, price |-> price, days |-> 1, active |-> TRUE]

(* Two tiers at two prices, three tiers at two prices, or everything at one price. *)
MCTiers ==
  {Between(0, 0, 20), Between(1, Open, 10), Between(1, 1, 20), Between(2, Open, 10), Between(0, Open, 20)}

MCSeedTiers == r1 :> Between(0, 0, 20) @@ r2 :> Between(1, Open, 10) @@ r3 :> NoRule

MCLaterDate == [z \in Zones |-> [t \in 0..MaxClock |-> MCBusinessDate[z][t] + 1]]

MCCatalogue ==
  {l1 :> Lead(0, TRUE, m1) @@ l2 :> Lead(1, TRUE, m2),
   l1 :> Lead(2, TRUE, m1) @@ l2 :> Lead(1, FALSE, m1),
   l1 :> Lead(0, TRUE, None) @@ l2 :> LeadOf("Auto", 1, TRUE, m2)}

MCOrdersWanted == {Wants(1, 20, AnyPlace), Wants(2, 10, AnyPlace)}

MCReports == {Report(o, o, TRUE, IntentOf[o], terms) : o \in Orders, terms \in BOOLEAN}

MCSameOrders == [x \in {o1, o2, c1, c2, pi1, pi2} |-> x]
MCReportSymmetry ==
  {ids @@ names : ids \in Permutations(MCThreeRules), names \in {MCSameOrders, MCSwapOrders}}
=============================================================================
