---------------------------- MODULE Fulfillment ----------------------------
(***************************************************************************)
(* Orders, inventory and allocation: purchase_service.py creates an order  *)
(* and its Stripe Checkout, fulfillment_service.py turns a verified        *)
(* payment into allocated leads, inventory_service.py and                  *)
(* lead_repository.py decide which leads may be sold.                      *)
(*                                                                         *)
(* Every write session starts with BEGIN IMMEDIATE, before its first read, *)
(* so a transaction sees and leaves a state no other transaction touches:  *)
(* one transaction is one action.  A request that raises rolls back and is *)
(* no step.  The gaps BETWEEN the transactions of create_checkout, where   *)
(* the network call to Stripe is made and where a crash can strike, are    *)
(* states of their own (the variable checkout).                            *)
(*                                                                         *)
(* There are two notions of time.  Sales and exclusions are instants       *)
(* (utcnow); the age of a lead counts calendar days in the business time   *)
(* zone, a setting the administrator may change at any moment.             *)
(*                                                                         *)
(* Abstractions: currency, amount and mode of a Stripe session are the one *)
(* flag "terms" (they agree with the order or they do not).  An order has  *)
(* no insurance type of its own: checkout and summary admit one only       *)
(* (schemas/purchase.py:8), while the sheet may give a lead any.           *)
(***************************************************************************)
EXTENDS Pricing

CONSTANTS
  Orders,          \* public ids
  Leads,
  Municipalities,
  AnyPlace,        \* the buyer named no municipality
  InsuranceTypes,  \* what the sheet may call a lead's insurance
  LifeInsurance,   \* the one that is sold
  Requests,        \* what buyers ask for
  LeadTables,      \* the contents synchronization may give the lead table
  CheckoutIds,
  SessionOf,       \* the session Stripe opens for an order (one per idempotency key)
  Intents,
  None,            \* SQL NULL
  NoOrder,         \* the row of a public id not drawn yet
  Payloads,        \* the Checkout objects Stripe may report
  Zones,           \* the time zones validate_timezone admits
  FirstZone,       \* config.app_timezone, until the setting is changed
  BusinessDate,    \* utils/time.py: the calendar day of an instant in a zone
  Day,             \* ticks of the clock in a day of an exclusion
  MaxClock         \* bound on the clock, for model checking

Request ==
  [quantity: Nat \ {0}, price: Nat \ {0}, municipality: Municipalities \cup {AnyPlace}]

LeadRecord ==
  [date: Nat, active: BOOLEAN, municipality: Municipalities \cup {None},
   insurance: InsuranceTypes]

Statuses == {"PENDING", "PAID", "FULFILLED", "FAILED", "FULFILLMENT_FAILED"}
TERMINAL == {"FULFILLED", "FULFILLMENT_FAILED"}

Order ==
  [status: Statuses, quantity: Nat \ {0}, price: Nat \ {0},
   municipality: Municipalities \cup {AnyPlace},
   checkoutId: CheckoutIds \cup {None}, intent: Intents \cup {None}]

Allocation ==
  [order: Orders, lead: Leads, rule: RuleIds, price: Nat \ {0}, at: Nat, until: Nat]

(* The fields of a Checkout object the services read. *)
Payload ==
  [id: CheckoutIds, order: Orders \cup {None}, client: Orders \cup {None},
   paid: BOOLEAN, intent: Intents \cup {None}, terms: BOOLEAN]

ASSUME FulfillmentAssumption ==
  /\ IsFiniteSet(Leads)
  /\ Requests \subseteq Request
  /\ LeadTables \subseteq [Leads -> LeadRecord]
  /\ SessionOf \in [Orders -> CheckoutIds]
  /\ Payloads \subseteq Payload
  /\ None \notin Orders \cup CheckoutIds \cup Intents \cup Municipalities
  /\ LifeInsurance \in InsuranceTypes
  /\ None \notin Nat
  /\ AnyPlace \notin Municipalities
  /\ NoOrder \notin Order
  /\ MaxClock \in Nat
  /\ FirstZone \in Zones
  /\ BusinessDate \in [Zones -> [0..MaxClock -> Nat]]
  /\ Day \in Nat \ {0}

VARIABLES
  leads,        \* the leads table
  orders,       \* the purchases table
  allocations,  \* the purchase_leads table
  checkout,     \* how far create_checkout got, per order
  clock,        \* utcnow
  zone          \* the setting "timezone"

storeVars == <<leads, orders, allocations, checkout, clock, zone>>
vars == <<rules, storeVars>>

FulfillmentTypeOK ==
  /\ PricingTypeOK
  /\ leads \in [Leads -> LeadRecord]
  /\ orders \in [Orders -> Order \cup {NoOrder}]
  /\ allocations \subseteq Allocation
  /\ checkout \in [Orders -> {"idle", "calling", "returned", "refused", "lost"}]
  /\ clock \in 0..MaxClock
  /\ zone \in Zones

Placed(o) == orders[o] # NoOrder
BusinessDay == BusinessDate[zone][clock]
Age(l) == BusinessDay - leads[l].date

-----------------------------------------------------------------------------
(***************************************************************************)
(* Inventory.                                                              *)
(***************************************************************************)
(* Mutant: an exclusion is counted in calendar days of the business time zone. *)
ExcludedByDate(l) ==
  \E a \in allocations :
    a.lead = l /\ BusinessDate[zone][a.at] + rules[a.rule].days > BusinessDay

Excluded(l) == \E a \in allocations : a.lead = l /\ a.until > clock

(* Mutant: the shop, like the administrator's list, does not ask for the insurance type. *)
EligibleOfAnyType(tiers, municipality) ==
  {l \in Leads :
     /\ leads[l].active
     /\ leads[l].date <= BusinessDay
     /\ municipality = AnyPlace \/ leads[l].municipality = municipality
     /\ ~Excluded(l)
     /\ \E r \in tiers : Covers(rules[r], Age(l))}

(* LeadRepository.eligible_query *)
EligibleQuery(tiers, municipality) ==
  {l \in Leads :
     /\ leads[l].active
     /\ leads[l].insurance = LifeInsurance
     /\ leads[l].date <= BusinessDay
     /\ municipality = AnyPlace \/ leads[l].municipality = municipality
     /\ ~Excluded(l)
     /\ \E r \in tiers : Covers(rules[r], Age(l))}

(* Mutant: any active rule that covers the lead will do, whatever its price. *)
EligibleAtAnyPrice(price, municipality) == EligibleQuery(ActiveRules(rules), municipality)

(* InventoryService.query *)
Tier(price) == {r \in ActiveRules(rules) : rules[r].price = price}
Eligible(price, municipality) == EligibleQuery(Tier(price), municipality)

(* InventoryService.validate_quantity *)
Available(request) ==
  request.quantity <= Cardinality(Eligible(request.price, request.municipality))

-----------------------------------------------------------------------------
(***************************************************************************)
(* PurchaseService.create_checkout: three transactions and, between them,  *)
(* the call to Stripe.  The order is committed first; nothing is reserved. *)
(***************************************************************************)
CreateOrder(o, request) ==
  /\ ~Placed(o)
  /\ Available(request)
  /\ orders' = [orders EXCEPT ![o] =
       [status |-> "PENDING", quantity |-> request.quantity, price |-> request.price,
        municipality |-> request.municipality, checkoutId |-> None, intent |-> None]]
  /\ checkout' = [checkout EXCEPT ![o] = "calling"]
  /\ UNCHANGED <<rules, leads, allocations, clock, zone>>

(* UNIQUE(stripe_checkout_id), UNIQUE(stripe_payment_intent) *)
CheckoutIdFree(o, id) == \A other \in Orders \ {o} : Placed(other) => orders[other].checkoutId # id
(* Mutant: only pending orders are searched for the payment. *)
IntentFreeAmongPending(o, intent) ==
  \A other \in Orders \ {o} :
    Placed(other) /\ orders[other].status = "PENDING" => orders[other].intent # intent

IntentFree(o, intent) == \A other \in Orders \ {o} : Placed(other) => orders[other].intent # intent

(* Stripe answered; the session id is saved whatever happened to the order meanwhile. *)
CheckoutCreated(o) ==
  /\ checkout[o] = "calling"
  /\ CheckoutIdFree(o, SessionOf[o])
  /\ orders' = [orders EXCEPT ![o].checkoutId = SessionOf[o]]
  /\ checkout' = [checkout EXCEPT ![o] = "returned"]
  /\ UNCHANGED <<rules, leads, allocations, clock, zone>>

(* Mutant: a failure report fails the order whatever its status. *)
FailAlways(order) == [order EXCEPT !.status = "FAILED"]

FailIfPending(order) ==
  IF order.status = "PENDING" THEN [order EXCEPT !.status = "FAILED"] ELSE order

(* Stripe raised; the session may exist all the same. *)
CheckoutRefused(o) ==
  /\ checkout[o] = "calling"
  /\ orders' = [orders EXCEPT ![o] = FailIfPending(orders[o])]
  /\ checkout' = [checkout EXCEPT ![o] = "refused"]
  /\ UNCHANGED <<rules, leads, allocations, clock, zone>>

(* The process died around the call, or its second transaction could not commit. *)
CheckoutLost(o) ==
  /\ checkout[o] = "calling"
  /\ checkout' = [checkout EXCEPT ![o] = "lost"]
  /\ UNCHANGED <<rules, leads, orders, allocations, clock, zone>>

-----------------------------------------------------------------------------
(***************************************************************************)
(* FulfillmentService.  _find_and_bind accepts a payload when its two      *)
(* order references and its session id agree with the stored order.        *)
(***************************************************************************)
Bindable(p) ==
  /\ p.order \in Orders /\ Placed(p.order)
  /\ p.client = p.order
  /\ orders[p.order].checkoutId \in {None, p.id}
  /\ CheckoutIdFree(p.order, p.id)

Bound(p) == [orders[p.order] EXCEPT !.checkoutId = p.id]

Put(o, order) == orders' = [orders EXCEPT ![o] = order]

(* A repeated report of a settled order only binds. *)
AlreadySettled(p) ==
  /\ p.paid /\ Bindable(p)
  /\ orders[p.order].status \in TERMINAL
  /\ Put(p.order, Bound(p))
  /\ UNCHANGED <<rules, leads, allocations, checkout, clock, zone>>

(* Mutant: a settled order is settled again by a repeated report. *)
PayableAgain(p) ==
  /\ p.paid /\ Bindable(p)
  /\ p.intent # None
  /\ IntentFree(p.order, p.intent)
  /\ orders[p.order].intent \in {None, p.intent}

(* The guards between the terminal check and the decision to allocate. *)
Payable(p) ==
  /\ p.paid /\ Bindable(p)
  /\ orders[p.order].status \notin TERMINAL
  /\ p.intent # None
  /\ IntentFree(p.order, p.intent)
  /\ orders[p.order].intent \in {None, p.intent}

Settled(p, status) == [Bound(p) EXCEPT !.intent = p.intent, !.status = status]

(* _fail: payment details differ, or the inventory no longer suffices. *)
Reject(p) ==
  /\ Payable(p)
  /\ p.terms => ~Available(orders[p.order])
  /\ Put(p.order, Settled(p, "FULFILLMENT_FAILED"))
  /\ UNCHANGED <<rules, leads, allocations, checkout, clock, zone>>

AllocationFor(o, l) ==
  LET rule == ApplicableRule(rules, Age(l))
  IN  [order |-> o, lead |-> l, rule |-> rule, price |-> orders[o].price,
       at |-> clock, until |-> clock + rules[rule].days * Day]

(* Mutant: an order is fulfilled with as many leads as there are. *)
AllocatePartly(p, selected) ==
  LET order == orders[p.order]
  IN  /\ Payable(p)
      /\ p.terms
      /\ selected \subseteq Eligible(order.price, order.municipality)
      /\ Cardinality(selected) \in 1..order.quantity
      /\ allocations' = allocations \cup {AllocationFor(p.order, l) : l \in selected}
      /\ Put(p.order, Settled(p, "FULFILLED"))
      /\ UNCHANGED <<rules, leads, checkout, clock, zone>>

(* select_random, add_allocation and the order's new state commit together;
   a selected lead without a rule would raise and roll everything back. *)
Allocate(p, selected) ==
  LET order == orders[p.order]
  IN  /\ Payable(p)
      /\ p.terms
      /\ selected \subseteq Eligible(order.price, order.municipality)
      /\ Cardinality(selected) = order.quantity
      /\ \A l \in selected : Applicable(rules, Age(l)) # {}
      /\ allocations' = allocations \cup {AllocationFor(p.order, l) : l \in selected}
      /\ Put(p.order, Settled(p, "FULFILLED"))
      /\ UNCHANGED <<rules, leads, checkout, clock, zone>>

PaymentSucceeded(p) ==
  \/ AlreadySettled(p)
  \/ Reject(p)
  \/ \E selected \in SUBSET Leads : Allocate(p, selected)

PaymentFailed(p) ==
  /\ Bindable(p)
  /\ Put(p.order, FailIfPending(Bound(p)))
  /\ UNCHANGED <<rules, leads, allocations, checkout, clock, zone>>

-----------------------------------------------------------------------------
(***************************************************************************)
(* What else moves: synchronization replaces the lead table, the           *)
(* administrator edits prices or the time zone, time passes.               *)
(***************************************************************************)
ApplySync ==
  /\ leads' \in LeadTables
  /\ UNCHANGED <<rules, orders, allocations, checkout, clock, zone>>

EditPricing == PricingNext /\ UNCHANGED storeVars

(* PATCH /admin/settings *)
ChangeTimeZone ==
  /\ zone' \in Zones \ {zone}
  /\ UNCHANGED <<rules, leads, orders, allocations, checkout, clock>>

Tick ==
  /\ clock < MaxClock
  /\ clock' = clock + 1
  /\ UNCHANGED <<rules, leads, orders, allocations, checkout, zone>>

Init ==
  /\ PricingInit
  /\ leads \in LeadTables
  /\ orders = [o \in Orders |-> NoOrder]
  /\ allocations = {}
  /\ checkout = [o \in Orders |-> "idle"]
  /\ clock = 0
  /\ zone = FirstZone

CheckoutStep ==
  \E o \in Orders :
    \/ \E request \in Requests : CreateOrder(o, request)
    \/ CheckoutCreated(o)
    \/ CheckoutRefused(o)
    \/ CheckoutLost(o)

PaymentStep == \E p \in Payloads : PaymentSucceeded(p) \/ PaymentFailed(p)

Next == CheckoutStep \/ PaymentStep \/ ApplySync \/ EditPricing \/ ChangeTimeZone \/ Tick

Spec == Init /\ [][Next]_vars

-----------------------------------------------------------------------------
(***************************************************************************)
(* Safety.                                                                 *)
(***************************************************************************)

(* A lead has at most one owner at a time: the exclusion intervals of two
   sales of one lead never overlap, however payments, price edits, syncs and
   days interleave (the ~excluded clause of eligible_query, evaluated under
   the write lock). *)
ExclusiveSales ==
  \A a, b \in allocations :
    a # b /\ a.lead = b.lead => a.until <= b.at \/ b.until <= a.at

SoldTo(o) == {a \in allocations : a.order = o}
LeadsOf(o) == {a.lead : a \in SoldTo(o)}

(* All or nothing: a fulfilled order has exactly the leads it paid for, at
   the price it paid, and any other order has none. *)
ExactFulfillment ==
  \A o \in Orders :
    IF Placed(o) /\ orders[o].status = "FULFILLED"
    THEN /\ Cardinality(LeadsOf(o)) = orders[o].quantity
         /\ \A a \in SoldTo(o) : a.price = orders[o].price
    ELSE SoldTo(o) = {}

(* Money is never in limbo: an order has a recorded payment if and only if
   it was settled one way or the other; no transaction leaves it PAID. *)
PaymentIsSettled ==
  \A o \in Orders :
    Placed(o) => /\ orders[o].status # "PAID"
                 /\ orders[o].intent # None <=> orders[o].status \in TERMINAL

(* One payment never pays for two orders. *)
OnePaymentOneOrder ==
  \A o, q \in Orders :
    o # q /\ Placed(o) /\ Placed(q) /\ orders[o].intent # None
      => orders[o].intent # orders[q].intent

(* Every payment that is recorded has bought one decided order, and every
   decided order has been bought by a payment of its own. *)
MoneyIsAccountedFor == PaymentIsSettled /\ OnePaymentOneOrder

SettledKept ==
  \A o \in Orders :
    Placed(o) /\ orders[o].status \in TERMINAL
      => /\ orders'[o].status = orders[o].status
         /\ orders'[o].intent = orders[o].intent
         /\ SoldTo(o)' = SoldTo(o)

(* A repeated, late or contradictory report never changes a settled order:
   its status, its payment and its leads stay what they were. *)
SettledIsFinal == [][SettledKept]_vars

OfferedNow(a) ==
  /\ leads[a.lead].active
  /\ leads[a.lead].insurance = LifeInsurance
  /\ Age(a.lead) >= 0
  /\ orders[a.order].municipality \in {AnyPlace, leads[a.lead].municipality}
  /\ Applicable(rules, Age(a.lead)) = {a.rule}
  /\ rules[a.rule].price = a.price

(* Sold as offered: the moment a lead is sold it is active at the source, of the
   type that is sold, not from the future, where the buyer wanted it, and its one
   applicable rule has the price the buyer paid -- even if prices or leads changed
   since checkout. *)
SoldAsOffered == [][\A a \in allocations' \ allocations : OfferedNow(a)]_vars

-----------------------------------------------------------------------------
(***************************************************************************)
(* The promise of LeadMarket: PENDING and FAILED orders are both open, as  *)
(* a payment may still arrive for either.                                  *)
(***************************************************************************)
Demand(o) == IF Placed(o) THEN orders[o].quantity ELSE 0

Verdict(o) ==
  IF Placed(o) /\ orders[o].status = "FULFILLED" THEN "sold"
  ELSE IF Placed(o) /\ orders[o].status = "FULFILLMENT_FAILED" THEN "refused"
  ELSE "open"

Sale(a) == [order |-> a.order, lead |-> a.lead, at |-> a.at, until |-> a.until]

Demands == [o \in Orders |-> Demand(o)]
Verdicts == [o \in Orders |-> Verdict(o)]
Sales == {Sale(a) : a \in allocations}

Market == INSTANCE LeadMarket WITH
  Quantities <- {request.quantity : request \in Requests},
  demand <- Demands,
  verdict <- Verdicts,
  sales <- Sales,
  today <- clock

(* The orders and allocations implement the market: every transaction is a
   placement, the sale of one complete lot of free leads, a refusal, the
   passing of time, or invisible to buyers. *)
MarketImplemented == Market!MarketSpec
=============================================================================
