----------------------------- MODULE LeadMarket -----------------------------
(***************************************************************************)
(* What the marketplace promises its buyers, without databases, payments   *)
(* or prices: an order for a number of leads stays open until it is sold   *)
(* exactly that many leads, all free at that moment, or refused for good;  *)
(* a sold lead is not free again before its exclusion has run out.         *)
(* Fulfillment!MarketImplemented says that the code keeps this promise.    *)
(***************************************************************************)
EXTENDS Integers, FiniteSets

CONSTANTS Orders, Leads, Quantities

VARIABLES
  demand,   \* how many leads an order wants, 0 before it is placed
  verdict,  \* "open", "sold" or "refused"
  sales,    \* who holds which lead, from when and until when
  today

marketVars == <<demand, verdict, sales, today>>

MarketInit ==
  /\ demand = [o \in Orders |-> 0]
  /\ verdict = [o \in Orders |-> "open"]
  /\ sales = {}
  /\ today = 0

Free(l) == \A s \in sales : s.lead = l => s.until <= today

Place(o) ==
  /\ demand[o] = 0
  /\ \E q \in Quantities : demand' = [demand EXCEPT ![o] = q]
  /\ UNCHANGED <<verdict, sales, today>>

Undecided(o) == demand[o] > 0 /\ verdict[o] = "open"

(* One lot: free leads, each once, as many as demanded. *)
CompleteLot(o, lot) ==
  /\ \A s \in lot : s.order = o /\ s.lead \in Leads /\ Free(s.lead)
                      /\ s.at = today /\ s.until >= today
  /\ \A s, t \in lot : s.lead = t.lead => s = t
  /\ Cardinality({s.lead : s \in lot}) = demand[o]

Sell(o) ==
  /\ Undecided(o)
  /\ sales \subseteq sales'
  /\ CompleteLot(o, sales' \ sales)
  /\ verdict' = [verdict EXCEPT ![o] = "sold"]
  /\ UNCHANGED <<demand, today>>

Refuse(o) ==
  /\ Undecided(o)
  /\ verdict' = [verdict EXCEPT ![o] = "refused"]
  /\ UNCHANGED <<demand, sales, today>>

TimePasses ==
  /\ today' > today
  /\ UNCHANGED <<demand, verdict, sales>>

MarketNext ==
  \/ \E o \in Orders : Place(o) \/ Sell(o) \/ Refuse(o)
  \/ TimePasses

MarketSpec == MarketInit /\ [][MarketNext]_marketVars

(* What a buyer relies on: a lead has one owner at a time, and an order has the whole
   lot it asked for or nothing. *)
OneOwnerAtATime ==
  \A s, t \in sales : s # t /\ s.lead = t.lead => s.until <= t.at \/ t.until <= s.at

WholeLots ==
  \A o \in Orders :
    IF verdict[o] = "sold"
    THEN Cardinality({s.lead : s \in {t \in sales : t.order = o}}) = demand[o]
    ELSE \A s \in sales : s.order # o
=============================================================================
