--------------------------- MODULE MC_Fulfillment ---------------------------
(* Two orders competing for two leads while prices, leads and the time change. *)
EXTENDS Fulfillment, TLC

CONSTANTS o1, o2, l1, l2, m1, m2, r1, r2, c1, c2, pi1, pi2, east, west

MCOrders == {o1, o2}
MCLeads == {l1, l2}
MCRuleIds == {r1, r2}
MCMunicipalities == {m1, m2}
MCInsuranceTypes == {"Life Insurance", "Auto"}
MCLifeInsurance == "Life Insurance"
MCCheckoutIds == {c1, c2}
MCIntents == {pi1, pi2}
MCAges == {0, 1}
MCZones == {east, west}
MCOneZone == {west}
MCFirstZone == west

(* Half a day to a tick; midnight comes to the east one tick before the west. *)
MCBusinessDate ==
  [z \in Zones |-> [t \in 0..MaxClock |-> (IF z = east THEN t + 1 ELSE t) \div 2]]

Fresh(price) == [min |-> 0, max |-> 0, price |-> price, days |-> 1, active |-> TRUE]
Aged(price) == [min |-> 1, max |-> Open, price |-> price, days |-> 2, active |-> TRUE]

(* The aged tier sells at 10 or at the price of the fresh tier: the price an order
   was placed at comes to mean leads of another age. *)
MCInputs == {Fresh(20), Aged(10), Aged(20)}
MCSeedTable == r1 :> Fresh(20) @@ r2 :> Aged(10)

Wants(quantity, price, place) ==
  [quantity |-> quantity, price |-> price, municipality |-> place]
MCRequests == {Wants(2, 20, AnyPlace), Wants(1, 20, m1)}

LeadOf(type, date, active, place) ==
  [date |-> date, active |-> active, municipality |-> place, insurance |-> type]
Lead(date, active, place) == LeadOf(LifeInsurance, date, active, place)

(* Two fresh leads; then one withdrawn at the source, one dated tomorrow. *)
MCLeadTables ==
  {l1 :> Lead(0, TRUE, m1) @@ l2 :> Lead(0, TRUE, m2),
   l1 :> Lead(0, FALSE, m1) @@ l2 :> Lead(1, TRUE, m1)}

MCSessionOf == o1 :> c1 @@ o2 :> c2

Report(order, client, paid, intent, terms) ==
  [id |-> SessionOf[order], order |-> order, client |-> client,
   paid |-> paid, intent |-> intent, terms |-> terms]

IntentOf == o1 :> pi1 @@ o2 :> pi2

(* Each session paid as ordered, paid with a wrong amount, with the payment of the
   other order, with none, unpaid, or with references that disagree. *)
Another(o) == CHOOSE q \in Orders : q # o

MCPayloads ==
  {Report(o, o, TRUE, IntentOf[o], terms) : o \in Orders, terms \in BOOLEAN}
    \cup {Report(o, o, TRUE, IntentOf[Another(o)], TRUE) : o \in Orders}
    \cup {Report(o, o, TRUE, None, TRUE) : o \in Orders}
    \cup {Report(o, Another(o), TRUE, IntentOf[o], TRUE) : o \in Orders}
    \cup {Report(o, o, FALSE, None, TRUE) : o \in Orders}

(* Exchanging the two orders, with their sessions and payments, changes nothing;
   nor does exchanging the ids of the rules, which one batch of edits can do. *)
MCSwapOrders == o1 :> o2 @@ o2 :> o1 @@ c1 :> c2 @@ c2 :> c1 @@ pi1 :> pi2 @@ pi2 :> pi1
MCSwapRules == r1 :> r2 @@ r2 :> r1
MCStay == [x \in {o1, o2, c1, c2, pi1, pi2, r1, r2} |-> x]
MCSymmetry == {MCStay, MCSwapOrders @@ MCStay, MCSwapRules @@ MCStay, MCSwapOrders @@ MCSwapRules}
=============================================================================
