---------------------------- MODULE MC_Recovery ----------------------------
(* Two orders for one lead each, with two leads on the shelf or one; prices,
   leads and the day stand still. *)
EXTENDS Recovery, TLC

CONSTANTS o1, o2, l1, l2, m1, r1, c1, c2, pi1, pi2, draft, hook, visitor

MCOrders == {o1, o2}
MCOneOrder == {o1}
MCLeads == {l1, l2}
MCOneLead == {l1}

MCRuleIds == {r1}
MCMunicipalities == {m1}
MCCheckoutIds == {c1, c2}
MCIntents == {pi1, pi2}
MCAges == {0}

MCRule == [min |-> 0, max |-> Open, price |-> 20, days |-> 1, active |-> TRUE]
MCInputs == {MCRule}
MCSeedTable == r1 :> MCRule
MCRequests == {[quantity |-> 1, price |-> 20, municipality |-> AnyPlace]}
MCInsuranceTypes == {"Life Insurance"}
MCLifeInsurance == "Life Insurance"
MCLeadTables ==
  {[l \in Leads |->
      [date |-> 0, active |-> TRUE, municipality |-> m1, insurance |-> LifeInsurance]]}

MCSessionOf == [o \in Orders |-> IF o = o1 THEN c1 ELSE c2]
MCIntentOf == [o \in Orders |-> IF o = o1 THEN pi1 ELSE pi2]
MCPayloads == {ReportOf(o, seen) : o \in Orders, seen \in SessionStates}

MCHooks == {hook}
MCVisitors == {visitor}
MCNone == {}
MCContacts == {draft}
MCCompanies == {"LeadsPR"}
MCSenders == {[name |-> "LeadsPR", address |-> "orders"]}

MCFirstZone == "west"
MCZones == {MCFirstZone}
MCBusinessDate == [z \in Zones |-> [t \in 0..MaxClock |-> t]]

MCAllReported == Outcomes
=============================================================================
