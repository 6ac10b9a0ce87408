------------------------------ MODULE Reports ------------------------------
(***************************************************************************)
(* What the storefront and the dashboard are told about the shop: the      *)
(* inventory summary, the list of municipalities, the totals and the list  *)
(* of leads.  They are computed by queries of their own, not by the ones   *)
(* that sell; each request reads one snapshot (module Database), so they   *)
(* are functions of the state.                                             *)
(*                                                                         *)
(* Left out: pages, and the filters that only compare a column.            *)
(***************************************************************************)
EXTENDS Fulfillment, FiniteSetsExt

(* InventoryService.summary counts every rule by itself and adds the counts
   of the rules that share a price. *)
TierQuantity(price, municipality) ==
  SumFunction([r \in Tier(price) |-> Cardinality(EligibleQuery({r}, municipality))])

Prices == {rules[r].price : r \in ActiveRules(rules)}

(* InventoryService.municipalities *)
OfferedPlaces ==
  {leads[l].municipality : l \in EligibleQuery(ActiveRules(rules), AnyPlace)} \ {None}

(* The sum of the orders' total_amount_cents, each fixed when the order is placed. *)
TotalOf(sold) == SumFunction([o \in sold |-> orders[o].quantity * orders[o].price])

(* Mutant: the revenue of every order somebody paid for. *)
RevenueOfPayments == TotalOf({o \in Orders : Placed(o) /\ orders[o].intent # None})

(* AdminRepository.totals *)
Revenue == TotalOf({o \in Orders : Placed(o) /\ orders[o].status = "FULFILLED"})

(* AdminService.dashboard *)
AvailableInventory == SumFunction([price \in Prices |-> TierQuantity(price, AnyPlace)])

(* AdminRepository.leads looks at the latest exclusion of a lead only. *)
LastExclusion(l) == Max({0} \cup {a.until : a \in {b \in allocations : b.lead = l}})

(* AdminService.leads *)
ListedExcluded(l) == LastExclusion(l) > clock

ListedPrice(l) ==
  IF Applicable(rules, Age(l)) = {} THEN None ELSE rules[ApplicableRule(rules, Age(l))].price

(* The price filter of AdminRepository.leads. *)
ListedAt(price) == {l \in Leads : \E r \in Tier(price) : Covers(rules[r], Age(l))}

-----------------------------------------------------------------------------
(* The stock on show is the stock on sale: what the summary offers of a tier in
   a place is what an order for it may ask for, no lead is counted in two tiers,
   and the places offered are those where some tier has stock. *)
StockIsSellable ==
  /\ \A price \in Prices, place \in Municipalities \cup {AnyPlace} :
       TierQuantity(price, place) = Cardinality(Eligible(price, place))
  /\ AvailableInventory = Cardinality(EligibleQuery(ActiveRules(rules), AnyPlace))
  /\ \A place \in Municipalities :
       place \in OfferedPlaces <=> \E price \in Prices : TierQuantity(price, place) > 0

(* The revenue on the dashboard is what the delivered leads were sold for,
   whatever happened to prices, leads and unfulfillable payments meanwhile. *)
RevenueIsEarned == Revenue = SumFunction([a \in allocations |-> a.price])

(* The administrator's list is written apart from the shop and asks for no insurance
   type.  That is the only difference: the leads listed as active, at a price and
   not as excluded are those the shop sells at that price and those of another type,
   which it never sells; and the list filtered by a price shows the leads listed at
   that price. *)
ListDiffersByTypeOnly ==
  \A price \in Prices :
    /\ ListedAt(price) = {l \in Leads : ListedPrice(l) = price}
    /\ Eligible(price, AnyPlace) =
         {l \in ListedAt(price) :
            leads[l].active /\ ~ListedExcluded(l) /\ leads[l].insurance = LifeInsurance}
=============================================================================
