----------------------------- MODULE Storefront -----------------------------
(***************************************************************************)
(* The buyer's browser: the marketplace form of marketplace.tsx, the trip  *)
(* to Stripe's page and the order page of order-status.tsx.                *)
(*                                                                         *)
(* A request is answered by the server at one moment and its answer is     *)
(* processed at a later one; the buyer acts in between.  An effect that    *)
(* starts anew (another municipality, another refresh) aborts its earlier  *)
(* requests: their answers arrive all the same in the model, and are       *)
(* ignored where the code asks for signal.aborted.  One event handler, or  *)
(* one stretch between two awaits, is one step, rendering included.        *)
(*                                                                         *)
(* loading, failed (an error notice) and generation (the effect's run)     *)
(* belong to the page that is open; each page starts with fresh ones.      *)
(***************************************************************************)
EXTENDS Integers

CONSTANTS
  Places,       \* municipalities, and the whole island
  Prices,
  Preferred,    \* price of the tier that starts at 8 days
  Inventories,  \* answers the server may give: leads available per price
  Quantities,   \* what the quantity field may hold, 0 for nothing usable
  None,
  MaxAttempts,  \* polls before the order page pauses (12 in the code)
  MaxLoads      \* bound on the runs of a page's effect, for model checking

OrderStates == {"pending", "failed", "unsent", "refused", "sent"}

ASSUME StorefrontAssumption ==
  /\ Inventories \subseteq [Prices -> Nat]
  /\ Quantities \subseteq Nat /\ 1 \in Quantities
  /\ Preferred \in Prices
  /\ None \notin Places \cup Prices \cup Inventories /\ None \notin OrderStates
  /\ MaxAttempts \in Nat \ {0} /\ MaxLoads \in Nat \ {0}

VARIABLES
  page,        \* "market", "stripe" or "order"
  loading, failed, generation,
  place, inventory, price, quantity,  \* the form, and the inventory it shows
  loads,       \* inventory requests under way
  submitted,   \* the checkout request under way
  order,       \* server: the order
  shown,       \* the order state the order page shows
  stopped,     \* the order page paused its polling
  polls        \* per run of its effect: what it waits for

form == <<place, price, quantity>>
market == <<form, inventory, loads, submitted>>
orderPage == <<shown, stopped, polls>>
storefrontVars == <<page, loading, failed, generation, market, order, orderPage>>

Generations == 1..MaxLoads
NoPoll == [at |-> "off", answer |-> "none", attempts |-> 0]

StorefrontTypeOK ==
  /\ page \in {"market", "stripe", "order"}
  /\ loading \in BOOLEAN /\ failed \in BOOLEAN /\ stopped \in BOOLEAN
  /\ generation \in Generations
  /\ place \in Places
  /\ inventory \in [place: Places, available: Inventories] \cup {None}
  /\ price \in Prices \cup {None}
  /\ quantity \in Nat
  /\ loads \subseteq [place: Places, generation: Generations]
  /\ submitted \in [place: Places, price: Prices, quantity: Nat \ {0}] \cup {None}
  /\ order \in OrderStates \cup {None}
  /\ shown \in OrderStates \cup {None}
  /\ polls \in [Generations ->
       [at: {"off", "get", "refresh", "reread", "timer"},
        answer: OrderStates \cup {"none", "undelivered", "lost"}, attempts: 0..(MaxAttempts - 1)]]

(* Mutant: a request that was given up is processed like any other. *)
NeverAborted(g) == FALSE

(* controller.signal.aborted *)
Aborted(g) == g < generation

-----------------------------------------------------------------------------
(***************************************************************************)
(* The marketplace form.                                                   *)
(***************************************************************************)
StorefrontInit ==
  /\ page = "market"
  /\ loading = TRUE /\ failed = FALSE /\ generation = 1
  /\ place \in Places
  /\ inventory = None /\ price = None /\ quantity = 1
  /\ loads = {[place |-> place, generation |-> 1]}
  /\ submitted = None
  /\ order = None /\ shown = None /\ stopped = FALSE
  /\ polls = [g \in Generations |-> NoPoll]

(* reload and the effect it triggers; the older requests are aborted. *)
LoadAgain(where) ==
  /\ generation < MaxLoads
  /\ generation' = generation + 1
  /\ loads' = loads \cup {[place |-> where, generation |-> generation + 1]}
  /\ loading' = TRUE /\ failed' = FALSE

ChangeLocation(where) ==
  /\ page = "market" /\ submitted = None
  /\ where # place
  /\ place' = where
  /\ LoadAgain(where)
  /\ UNCHANGED <<page, inventory, price, quantity, submitted, order, orderPage>>

Reload ==
  /\ page = "market" /\ failed
  /\ LoadAgain(place)
  /\ UNCHANGED <<page, form, inventory, submitted, order, orderPage>>

InStock(available) == {p \in Prices : available[p] > 0}

(* Keep the buyer's tier if it is there, else prefer the one of eight days. *)
Choices(available) ==
  IF InStock(available) \cap {price} # {} THEN {price}
  ELSE IF Preferred \in InStock(available) THEN {Preferred}
  ELSE InStock(available)

Clamp(q, most) == IF q < 1 THEN 1 ELSE IF q > most THEN most ELSE q

LoadSucceeds(load, available) ==
  /\ load \in loads
  /\ loads' = loads \ {load}
  /\ IF Aborted(load.generation)
     THEN UNCHANGED <<price, quantity, inventory, loading, failed>>
     ELSE /\ IF Choices(available) = {} THEN price' = None /\ quantity' = 1
             ELSE \E p \in Choices(available) :
                    price' = p /\ quantity' = Clamp(quantity, available[p])
          /\ inventory' = [place |-> load.place, available |-> available]
          /\ loading' = FALSE /\ failed' = FALSE
  /\ UNCHANGED <<page, generation, place, submitted, order, orderPage>>

LoadFails(load) ==
  /\ load \in loads
  /\ loads' = loads \ {load}
  /\ IF Aborted(load.generation) THEN UNCHANGED <<loading, failed>>
     ELSE loading' = FALSE /\ failed' = TRUE
  /\ UNCHANGED <<page, generation, form, inventory, submitted, order, orderPage>>

(* The tier on offer: none while loading or after an error. *)
TierShown ==
  ~loading /\ ~failed /\ inventory # None /\ price # None /\ inventory.available[price] > 0

CanCheckout == TierShown /\ quantity \in 1..inventory.available[price]

ChoosePrice(p) ==
  /\ page = "market" /\ ~loading /\ ~failed /\ submitted = None
  /\ inventory # None /\ p \in InStock(inventory.available)
  /\ price' = p
  /\ quantity' = Clamp(quantity, inventory.available[p])
  /\ UNCHANGED <<page, loading, failed, generation, place, inventory, loads, submitted,
                 order, orderPage>>

SetQuantity(q) ==
  /\ page = "market" /\ TierShown /\ submitted = None
  /\ quantity' = q
  /\ UNCHANGED <<page, loading, failed, generation, place, price, inventory, loads, submitted,
                 order, orderPage>>

Submit ==
  /\ page = "market" /\ submitted = None /\ CanCheckout
  /\ submitted' = [place |-> place, price |-> price, quantity |-> quantity]
  /\ UNCHANGED <<page, loading, failed, generation, form, inventory, loads, order, orderPage>>

(* The browser goes to Stripe; the form is gone with its requests. *)
CheckoutSucceeds ==
  /\ submitted # None
  /\ page' = "stripe" /\ order' = "pending"
  /\ inventory' = None /\ price' = None /\ quantity' = 1
  /\ loads' = {} /\ submitted' = None /\ generation' = 1
  /\ UNCHANGED <<loading, failed, place, orderPage>>

(* A conflict with the present inventory loads it anew; any other failure,
   a lost answer included, leaves the form for another try. *)
CheckoutFails(conflict) ==
  /\ submitted # None
  /\ submitted' = None
  /\ IF conflict THEN LoadAgain(place) ELSE UNCHANGED <<loading, failed, generation, loads>>
  /\ UNCHANGED <<page, form, inventory, order, orderPage>>

-----------------------------------------------------------------------------
(***************************************************************************)
(* The order, as webhook, recovery and refresh move it (see Recovery).     *)
(***************************************************************************)
OrderMoves ==
  /\ \/ order = "pending" /\ order' \in {"failed", "unsent", "refused"}
     \/ order = "failed" /\ order' \in {"unsent", "refused"}
     \/ order = "unsent" /\ order' = "sent"
  /\ UNCHANGED <<page, loading, failed, generation, market, orderPage>>

(***************************************************************************)
(* The order page polls: read the order, ask for a refresh while it is not *)
(* final, read it again if only its mail failed, wait, start over.         *)
(***************************************************************************)
Poll(g, at, attempts) == [polls EXCEPT ![g] = [at |-> at, answer |-> "none", attempts |-> attempts]]

OpenOrder ==
  /\ page = "stripe"
  /\ page' = "order"
  /\ loading' = TRUE /\ failed' = FALSE
  /\ polls' = Poll(1, "get", 0)
  /\ UNCHANGED <<generation, market, order, shown, stopped>>

(* "Actualizar estado"; the cleanup of the effect clears its timer. *)
ClickRefresh ==
  /\ page = "order" /\ ~loading
  /\ generation < MaxLoads
  /\ generation' = generation + 1
  /\ loading' = TRUE /\ stopped' = FALSE
  /\ polls' = [polls EXCEPT
       ![generation] = IF @.at = "timer" THEN NoPoll ELSE @,
       ![generation + 1] = [NoPoll EXCEPT !.at = "get"]]
  /\ UNCHANGED <<page, failed, market, order, shown>>

(* The server answers; a refresh may have settled the order but not mailed it. *)
Answer(g) ==
  /\ polls[g].at \in {"get", "refresh", "reread"} /\ polls[g].answer = "none"
  /\ \E answer \in {order, "lost"}
        \cup (IF polls[g].at = "refresh" /\ order = "unsent" THEN {"undelivered"} ELSE {}) :
       polls' = [polls EXCEPT ![g].answer = answer]
  /\ UNCHANGED <<page, loading, failed, generation, market, order, shown, stopped>>

NeedsRefresh(state) == state \in {"pending", "unsent"}

Arrived(g, at) == polls[g].at = at /\ polls[g].answer # "none"

(* An aborted poll ends without a trace. *)
PollAborted(g) ==
  /\ polls[g].answer # "none" /\ Aborted(g)
  /\ polls' = Poll(g, "off", 0)
  /\ UNCHANGED <<page, loading, failed, generation, market, order, shown, stopped>>

PollFails(g) ==
  /\ ~Aborted(g)
  /\ \/ polls[g].answer = "lost"
     \/ polls[g].at = "reread" /\ polls[g].answer # "none"
  /\ shown' = IF polls[g].answer = "lost" THEN shown ELSE polls[g].answer
  /\ failed' = TRUE /\ loading' = FALSE
  /\ polls' = Poll(g, "off", 0)
  /\ UNCHANGED <<page, generation, market, order, stopped>>

(* Mutant: the attempts are not counted. *)
PollEndsUncounted(g) ==
  LET waiting == NeedsRefresh(polls[g].answer)
  IN  /\ failed' = FALSE /\ loading' = FALSE
      /\ IF waiting
         THEN polls' = Poll(g, "timer", polls[g].attempts) /\ UNCHANGED stopped
         ELSE polls' = Poll(g, "off", 0) /\ stopped' = FALSE

(* Mutant: the polling just ends. *)
PollEndsSilently(g) ==
  /\ failed' = FALSE /\ loading' = FALSE
  /\ UNCHANGED stopped
  /\ IF NeedsRefresh(polls[g].answer) /\ polls[g].attempts + 1 < MaxAttempts
     THEN polls' = Poll(g, "timer", polls[g].attempts + 1)
     ELSE polls' = Poll(g, "off", 0)

(* A complete poll: wait for the next one, or pause, or be done. *)
PollEnds(g) ==
  LET waiting == NeedsRefresh(polls[g].answer)
  IN  /\ failed' = FALSE /\ loading' = FALSE
      /\ IF waiting /\ polls[g].attempts + 1 < MaxAttempts
         THEN polls' = Poll(g, "timer", polls[g].attempts + 1) /\ UNCHANGED stopped
         ELSE polls' = Poll(g, "off", 0) /\ stopped' = waiting

PurchaseRead(g) ==
  /\ ~Aborted(g)
  /\ Arrived(g, "get") /\ polls[g].answer # "lost"
  /\ shown' = polls[g].answer
  /\ IF NeedsRefresh(polls[g].answer)
     THEN polls' = Poll(g, "refresh", polls[g].attempts) /\ UNCHANGED <<loading, failed, stopped>>
     ELSE PollEnds(g)
  /\ UNCHANGED <<page, generation, market, order>>

PurchaseRefreshed(g) ==
  /\ ~Aborted(g)
  /\ Arrived(g, "refresh") /\ polls[g].answer \in OrderStates
  /\ shown' = polls[g].answer
  /\ PollEnds(g)
  /\ UNCHANGED <<page, generation, market, order>>

(* email_delivery_pending or email_delivery_blocked *)
Undelivered(g) ==
  /\ ~Aborted(g)
  /\ Arrived(g, "refresh") /\ polls[g].answer = "undelivered"
  /\ polls' = Poll(g, "reread", polls[g].attempts)
  /\ UNCHANGED <<page, loading, failed, generation, market, order, shown, stopped>>

TimerFires(g) ==
  /\ polls[g].at = "timer"
  /\ polls' = Poll(g, "get", polls[g].attempts)
  /\ UNCHANGED <<page, loading, failed, generation, market, order, shown, stopped>>

-----------------------------------------------------------------------------
MarketStep ==
  \/ \E where \in Places : ChangeLocation(where)
  \/ Reload
  \/ \E load \in loads : LoadFails(load) \/ \E available \in Inventories : LoadSucceeds(load, available)
  \/ \E p \in Prices : ChoosePrice(p)
  \/ \E q \in Quantities : SetQuantity(q)
  \/ Submit \/ CheckoutSucceeds \/ \E conflict \in BOOLEAN : CheckoutFails(conflict)

PollStep(g) ==
  \/ Answer(g) \/ PollAborted(g) \/ PollFails(g)
  \/ PurchaseRead(g) \/ PurchaseRefreshed(g) \/ Undelivered(g) \/ TimerFires(g)

OrderStep == OpenOrder \/ ClickRefresh \/ OrderMoves \/ \E g \in Generations : PollStep(g)

StorefrontNext == MarketStep \/ OrderStep

StorefrontSpec == StorefrontInit /\ [][StorefrontNext]_storefrontVars

Answered(g) ==
  \E load \in loads :
    load.generation = g /\ (LoadFails(load) \/ \E available \in Inventories : LoadSucceeds(load, available))

(***************************************************************************)
(* Fairness: every request is answered or given up, since the proxy ends a *)
(* backend request after 90 seconds (lib/server/backend.ts:42), and a      *)
(* timer fires while its page is open.  The buyer need not do anything.    *)
(***************************************************************************)
StorefrontFairness ==
  \A g \in Generations : WF_storefrontVars(Answered(g)) /\ WF_storefrontVars(PollStep(g))

FairStorefrontSpec == StorefrontSpec /\ StorefrontFairness

-----------------------------------------------------------------------------
(* While a checkout request is under way the form shows exactly what was asked
   for, offered for the very municipality that was asked for: no late answer
   for another municipality gets under the buyer's choice (marketplace.tsx:50). *)
SubmittedAsOffered ==
  submitted # None =>
    /\ submitted = [place |-> place, price |-> price, quantity |-> quantity]
    /\ inventory.place = submitted.place
    /\ submitted.quantity <= inventory.available[submitted.price]

Rank(state) ==
  CASE state = None -> 0
    [] state = "pending" -> 1
    [] state = "failed" -> 2
    [] state = "unsent" -> 3
    [] state \in {"refused", "sent"} -> 4

(* The order page never goes back to an earlier state of the order, whatever
   polls and refreshes overlap (order-status.tsx: the checks for aborted). *)
NeverShowsOlder == [][Rank(shown') >= Rank(shown)]_storefrontVars

Resting == page = "order" /\ polls[generation].at = "off"

(* An order page that does not ask any more says why: its order is final, it
   shows an error, or it tells the buyer that it paused -- and it pauses only
   on an order that is not final. *)
RestingIsExplained ==
  Resting => ~loading /\ (failed \/ (stopped <=> NeedsRefresh(shown)))

(* The pages do not leave the buyer waiting: the form's spinner ends with an
   inventory or an error unless the buyer starts another load, and an order page
   polls for a bounded time only, whatever the server answers
   (order-status.tsx:67-88). *)
WaitingEnds ==
  \A g \in Generations :
    /\ page = "market" /\ loading /\ generation = g
         ~> page # "market" \/ ~loading \/ generation # g
    /\ page = "order" /\ generation = g ~> Resting \/ generation # g
=============================================================================
