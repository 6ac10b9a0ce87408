--------------------------- MODULE StorefrontProofs ---------------------------
(***************************************************************************)
(* Theorems about the form and the order page, for any municipalities,     *)
(* tiers, inventories and number of loads and polls.                       *)
(***************************************************************************)
EXTENDS Storefront, TLAPS

(* The one current load is for the municipality on the form, and there is one
   only while the form is loading. *)
LoadsAreOrderly ==
  /\ \A l \in loads :
       /\ l.generation <= generation
       /\ l.generation = generation => loading /\ l.place = place
  /\ \A k, l \in loads : k.generation = l.generation => k = l

(* The inventory on show is that of the municipality on the form. *)
FormAgrees ==
  page = "market" /\ ~loading /\ ~failed /\ inventory # None => inventory.place = place

(* Nothing moves under a submitted form. *)
SubmittedHeld ==
  submitted # None =>
    /\ page = "market" /\ ~loading /\ ~failed /\ inventory # None
    /\ submitted = [place |-> place, price |-> price, quantity |-> quantity]
    /\ inventory.place = submitted.place
    /\ submitted.quantity <= inventory.available[submitted.price]

PagesApart ==
  /\ page # "market" => submitted = None /\ loads = {} /\ order \in OrderStates
  /\ page = "stripe" => generation = 1
  /\ page # "order" => shown = None /\ \A g \in Generations : polls[g] = NoPoll

PollsAreOrderly ==
  \A g \in Generations :
    /\ polls[g].at \in {"off", "timer"} => polls[g].answer = "none"
    /\ polls[g].answer = "undelivered" => polls[g].at = "refresh"
    /\ g > generation => polls[g].at = "off"

(* No answer is ahead of the order, and none that will be shown behind the page. *)
AnswersInOrder ==
  /\ page = "order" => Rank(shown) <= Rank(order)
  /\ \A g \in Generations :
       polls[g].answer \in OrderStates =>
         /\ Rank(polls[g].answer) <= Rank(order)
         /\ g = generation => Rank(shown) <= Rank(polls[g].answer)

StorefrontInv ==
  /\ StorefrontTypeOK
  /\ LoadsAreOrderly
  /\ FormAgrees
  /\ SubmittedHeld
  /\ PagesApart
  /\ PollsAreOrderly
  /\ AnswersInOrder
  /\ RestingIsExplained

(* The order of the states a page may show. *)
LEMMA Ranks ==
  /\ Rank(None) = 0 /\ Rank("pending") = 1 /\ Rank("failed") = 2 /\ Rank("unsent") = 3
  /\ Rank("refused") = 4 /\ Rank("sent") = 4
  /\ \A state \in OrderStates \cup {None} : Rank(state) \in 0..4
BY StorefrontAssumption DEF Rank, OrderStates

(* The generations are numbers, and the first is one. *)
LEMMA FirstGeneration == 1 \in Generations /\ Generations \subseteq Nat
BY StorefrontAssumption DEF Generations

(***************************************************************************)
(* The form.                                                               *)
(***************************************************************************)
(* While the form is open the order page is blank. *)
LEMMA MarketKeepsOrderPage ==
  ASSUME StorefrontInv, page = "market", UNCHANGED <<page, order, orderPage>>, generation' \in Generations
  PROVE  /\ PollsAreOrderly' /\ AnswersInOrder' /\ RestingIsExplained' /\ PagesApart'
         /\ shown = None /\ \A g \in Generations : polls'[g] = NoPoll
<1>1. shown = None /\ \A g \in Generations : polls'[g] = NoPoll
  BY DEF StorefrontInv, PagesApart, orderPage
<1>2. PollsAreOrderly'
  BY <1>1 DEF PollsAreOrderly, NoPoll
<1>3. AnswersInOrder'
  BY <1>1 DEF AnswersInOrder, NoPoll, OrderStates
<1>4. RestingIsExplained'
  BY DEF RestingIsExplained, Resting
<1>5. PagesApart'
  BY <1>1 DEF PagesApart, orderPage
<1>. QED BY <1>1, <1>2, <1>3, <1>4, <1>5

(* Starting a load outdates the others. *)
LEMMA LoadAgainPreserves ==
  ASSUME StorefrontInv, page = "market", LoadAgain(place'), place' \in Places,
         UNCHANGED <<page, inventory, price, quantity, order, orderPage>>, submitted' = None
  PROVE  StorefrontInv'
<1>1. /\ generation' = generation + 1 /\ generation' \in Generations
      /\ loads' = loads \cup {[place |-> place', generation |-> generation + 1]}
      /\ loading' = TRUE /\ failed' = FALSE
      /\ generation \in Nat
  BY FirstGeneration, StorefrontAssumption DEF StorefrontInv, StorefrontTypeOK, LoadAgain, Generations
<1>2. loads \subseteq [place: Places, generation: Generations]
  BY DEF StorefrontInv, StorefrontTypeOK
<1>3. loads' \subseteq [place: Places, generation: Generations]
  BY <1>1, <1>2
<1>4. StorefrontTypeOK'
  BY <1>1, <1>3 DEF StorefrontInv, StorefrontTypeOK, orderPage
<1>5. LoadsAreOrderly'
  <2>1. \A l \in loads : l.generation \in Nat /\ l.generation <= generation
    BY <1>2, FirstGeneration DEF StorefrontInv, LoadsAreOrderly
  <2>. QED BY <1>1, <2>1 DEF StorefrontInv, LoadsAreOrderly
<1>6. FormAgrees' /\ SubmittedHeld' /\ PagesApart'
  BY <1>1, MarketKeepsOrderPage DEF FormAgrees, SubmittedHeld
<1>. QED BY <1>1, <1>4, <1>5, <1>6, MarketKeepsOrderPage DEF StorefrontInv

(* A clamped quantity lies between one and what there is. *)
LEMMA ClampType ==
  ASSUME NEW q \in Nat, NEW most \in Nat, most > 0
  PROVE  Clamp(q, most) \in 1..most /\ Clamp(q, most) \in Nat
BY DEF Clamp

(* What can be chosen is in stock. *)
LEMMA ChoicesType ==
  ASSUME StorefrontInv, NEW available \in Inventories, NEW p \in Choices(available)
  PROVE  p \in Prices /\ available[p] \in Nat /\ available[p] > 0
BY StorefrontAssumption DEF Choices, InStock

(* An inventory arrives, for the current place or a former one. *)
LEMMA LoadSucceedsPreserves ==
  ASSUME StorefrontInv, NEW load \in loads, NEW available \in Inventories, LoadSucceeds(load, available)
  PROVE  StorefrontInv'
<1>1. /\ page = "market" /\ loads' = loads \ {load}
      /\ UNCHANGED <<page, generation, place, submitted, order, orderPage>>
      /\ StorefrontTypeOK
  BY DEF StorefrontInv, PagesApart, LoadSucceeds
<1>2. PollsAreOrderly' /\ AnswersInOrder' /\ RestingIsExplained' /\ PagesApart'
  <2>1. generation' \in Generations
    BY <1>1 DEF StorefrontTypeOK
  <2>. QED BY <1>1, <2>1, MarketKeepsOrderPage
<1>3. CASE Aborted(load.generation)
  <2>1. UNCHANGED <<price, quantity, inventory, loading, failed>>
    BY <1>3 DEF LoadSucceeds
  <2>2. StorefrontTypeOK'
    BY <1>1, <2>1 DEF StorefrontTypeOK, orderPage
  <2>3. LoadsAreOrderly' /\ FormAgrees' /\ SubmittedHeld'
    BY <1>1, <2>1 DEF StorefrontInv, LoadsAreOrderly, FormAgrees, SubmittedHeld
  <2>. QED BY <1>2, <2>2, <2>3 DEF StorefrontInv
<1>4. CASE ~Aborted(load.generation)
  <2>1. load \in [place: Places, generation: Generations] /\ generation \in Generations
    BY <1>1 DEF StorefrontTypeOK
  <2>2. load.generation = generation /\ loading /\ load.place = place
    <3>1. load.generation \in Nat /\ generation \in Nat /\ ~(load.generation < generation)
      BY <1>4, <2>1, FirstGeneration DEF Aborted
    <3>. QED BY <3>1 DEF StorefrontInv, LoadsAreOrderly
  <2>3. submitted = None
    BY <2>2 DEF StorefrontInv, SubmittedHeld
  <2>4. /\ inventory' = [place |-> load.place, available |-> available]
        /\ loading' = FALSE /\ failed' = FALSE
    BY <1>4 DEF LoadSucceeds
  <2>5. price' \in Prices \cup {None} /\ quantity' \in Nat
    <3>1. CASE Choices(available) = {}
      BY <1>4, <3>1 DEF LoadSucceeds
    <3>2. CASE Choices(available) # {}
      <4>1. PICK p \in Choices(available) : price' = p /\ quantity' = Clamp(quantity, available[p])
        BY <1>4, <3>2 DEF LoadSucceeds
      <4>2. quantity \in Nat
        BY <1>1 DEF StorefrontTypeOK
      <4>. QED BY <4>1, <4>2, ChoicesType, ClampType
    <3>. QED BY <3>1, <3>2
  <2>6. StorefrontTypeOK'
    BY <1>1, <2>1, <2>4, <2>5 DEF StorefrontTypeOK, orderPage
  <2>7. LoadsAreOrderly'
    BY <1>1, <2>2 DEF StorefrontInv, LoadsAreOrderly
  <2>8. FormAgrees' /\ SubmittedHeld'
    BY <1>1, <2>2, <2>3, <2>4 DEF FormAgrees, SubmittedHeld
  <2>. QED BY <1>2, <2>6, <2>7, <2>8 DEF StorefrontInv
<1>. QED BY <1>3, <1>4

(* A load fails, current or not. *)
LEMMA LoadFailsPreserves ==
  ASSUME StorefrontInv, NEW load \in loads, LoadFails(load)
  PROVE  StorefrontInv'
<1>1. /\ page = "market" /\ loads' = loads \ {load}
      /\ UNCHANGED <<page, generation, form, inventory, submitted, order, orderPage>>
      /\ StorefrontTypeOK
  BY DEF StorefrontInv, PagesApart, LoadFails
<1>2. PollsAreOrderly' /\ AnswersInOrder' /\ RestingIsExplained' /\ PagesApart'
  <2>1. generation' \in Generations
    BY <1>1 DEF StorefrontTypeOK
  <2>. QED BY <1>1, <2>1, MarketKeepsOrderPage
<1>3. loading' \in BOOLEAN /\ failed' \in BOOLEAN
  BY <1>1 DEF LoadFails, StorefrontTypeOK
<1>4. StorefrontTypeOK'
  BY <1>1, <1>3 DEF StorefrontTypeOK, orderPage, form
<1>5. CASE Aborted(load.generation)
  BY <1>1, <1>2, <1>4, <1>5
     DEF LoadFails, StorefrontInv, LoadsAreOrderly, FormAgrees, SubmittedHeld, form
<1>6. CASE ~Aborted(load.generation)
  <2>1. load.generation = generation /\ loading
    BY <1>1, <1>6, FirstGeneration DEF Aborted, StorefrontInv, StorefrontTypeOK, LoadsAreOrderly
  <2>2. submitted = None /\ loading' = FALSE /\ failed' = TRUE
    BY <1>6, <2>1 DEF LoadFails, StorefrontInv, SubmittedHeld
  <2>3. LoadsAreOrderly' /\ FormAgrees' /\ SubmittedHeld'
    BY <1>1, <2>1, <2>2 DEF StorefrontInv, LoadsAreOrderly, FormAgrees, SubmittedHeld, form
  <2>. QED BY <1>2, <1>4, <2>3 DEF StorefrontInv
<1>. QED BY <1>5, <1>6

(* The buyer's choices among what is on show. *)
LEMMA ChoosePreserves ==
  ASSUME StorefrontInv,
         (\E p \in Prices : ChoosePrice(p)) \/ \E q \in Quantities : SetQuantity(q)
  PROVE  StorefrontInv'
<1>1. /\ page = "market" /\ submitted = None /\ StorefrontTypeOK
      /\ UNCHANGED <<page, loading, failed, generation, place, inventory, loads, submitted, order, orderPage>>
  BY DEF StorefrontInv, ChoosePrice, SetQuantity
<1>2. price' \in Prices \cup {None} /\ quantity' \in Nat
  <2>1. ASSUME NEW p \in Prices, ChoosePrice(p)
        PROVE  price' \in Prices \cup {None} /\ quantity' \in Nat
    <3>1. /\ inventory # None /\ inventory.available[p] > 0
          /\ price' = p /\ quantity' = Clamp(quantity, inventory.available[p])
      BY <2>1 DEF ChoosePrice, InStock
    <3>2. quantity \in Nat /\ inventory.available[p] \in Nat
      BY <1>1, <3>1, StorefrontAssumption DEF StorefrontTypeOK
    <3>. QED BY <3>1, <3>2, ClampType
  <2>2. ASSUME NEW q \in Quantities, SetQuantity(q)
        PROVE  price' \in Prices \cup {None} /\ quantity' \in Nat
    BY <1>1, <2>2, StorefrontAssumption DEF SetQuantity, StorefrontTypeOK
  <2>. QED BY <2>1, <2>2
<1>3. StorefrontTypeOK'
  BY <1>1, <1>2 DEF StorefrontTypeOK, orderPage
<1>4. LoadsAreOrderly' /\ FormAgrees' /\ SubmittedHeld'
  BY <1>1 DEF StorefrontInv, LoadsAreOrderly, FormAgrees, SubmittedHeld
<1>5. PollsAreOrderly' /\ AnswersInOrder' /\ RestingIsExplained' /\ PagesApart'
  <2>1. generation' \in Generations
    BY <1>1 DEF StorefrontTypeOK
  <2>. QED BY <1>1, <2>1, MarketKeepsOrderPage
<1>. QED BY <1>3, <1>4, <1>5 DEF StorefrontInv

(* Only what is on show can be submitted. *)
LEMMA SubmitPreserves ==
  ASSUME StorefrontInv, Submit
  PROVE  StorefrontInv'
<1>1. /\ page = "market" /\ submitted = None /\ CanCheckout /\ StorefrontTypeOK
      /\ submitted' = [place |-> place, price |-> price, quantity |-> quantity]
      /\ UNCHANGED <<page, loading, failed, generation, form, inventory, loads, order, orderPage>>
  BY DEF StorefrontInv, Submit
<1>2. /\ ~loading /\ ~failed /\ inventory # None /\ price # None
      /\ quantity \in 1..inventory.available[price]
  BY <1>1 DEF CanCheckout, TierShown
<1>3. price \in Prices /\ inventory.available[price] \in Nat
  BY <1>1, <1>2, StorefrontAssumption DEF StorefrontTypeOK
<1>4. quantity \in Nat \ {0} /\ quantity <= inventory.available[price] /\ inventory.place = place
  BY <1>1, <1>2, <1>3 DEF StorefrontInv, FormAgrees
<1>5. StorefrontTypeOK'
  BY <1>1, <1>3, <1>4 DEF StorefrontTypeOK, orderPage, form
<1>6. LoadsAreOrderly' /\ FormAgrees' /\ SubmittedHeld'
  BY <1>1, <1>2, <1>4 DEF StorefrontInv, LoadsAreOrderly, FormAgrees, SubmittedHeld, form
<1>7. PollsAreOrderly' /\ AnswersInOrder' /\ RestingIsExplained' /\ PagesApart'
  <2>1. generation' \in Generations
    BY <1>1 DEF StorefrontTypeOK
  <2>. QED BY <1>1, <2>1, MarketKeepsOrderPage
<1>. QED BY <1>5, <1>6, <1>7 DEF StorefrontInv

(* The checkout is answered. *)
LEMMA CheckoutPreserves ==
  ASSUME StorefrontInv, CheckoutSucceeds \/ \E conflict \in BOOLEAN : CheckoutFails(conflict)
  PROVE  StorefrontInv'
<1>1. page = "market" /\ submitted # None /\ StorefrontTypeOK
  BY DEF StorefrontInv, SubmittedHeld, CheckoutSucceeds, CheckoutFails
<1>2. CASE CheckoutSucceeds
  <2>1. /\ page' = "stripe" /\ order' = "pending" /\ inventory' = None /\ price' = None
        /\ quantity' = 1 /\ loads' = {} /\ submitted' = None /\ generation' = 1
        /\ UNCHANGED <<loading, failed, place, orderPage>>
    BY <1>2 DEF CheckoutSucceeds
  <2>2. shown = None /\ \A g \in Generations : polls[g] = NoPoll
    BY <1>1 DEF StorefrontInv, PagesApart
  <2>3. StorefrontTypeOK'
    BY <1>1, <2>1, FirstGeneration DEF StorefrontTypeOK, orderPage, OrderStates
  <2>4. LoadsAreOrderly' /\ FormAgrees' /\ SubmittedHeld' /\ PagesApart'
    BY <2>1, <2>2 DEF LoadsAreOrderly, FormAgrees, SubmittedHeld, PagesApart, OrderStates, orderPage
  <2>5. PollsAreOrderly' /\ AnswersInOrder' /\ RestingIsExplained'
    BY <2>1, <2>2 DEF PollsAreOrderly, AnswersInOrder, RestingIsExplained, Resting, NoPoll, OrderStates, orderPage
  <2>. QED BY <2>3, <2>4, <2>5 DEF StorefrontInv
<1>3. CASE CheckoutFails(TRUE)
  <2>1. LoadAgain(place) /\ submitted' = None /\ UNCHANGED <<page, form, inventory, order, orderPage>>
    BY <1>3 DEF CheckoutFails
  <2>2. place' = place /\ place \in Places
    BY <1>1, <2>1 DEF form, StorefrontTypeOK
  <2>. QED BY <1>1, <2>1, <2>2, LoadAgainPreserves DEF form
<1>4. CASE CheckoutFails(FALSE)
  <2>1. /\ submitted' = None
        /\ UNCHANGED <<page, loading, failed, generation, form, inventory, loads, order, orderPage>>
    BY <1>4 DEF CheckoutFails
  <2>2. StorefrontTypeOK'
    BY <1>1, <2>1 DEF StorefrontTypeOK, orderPage, form
  <2>3. LoadsAreOrderly' /\ FormAgrees' /\ SubmittedHeld'
    BY <2>1 DEF StorefrontInv, LoadsAreOrderly, FormAgrees, SubmittedHeld, form
  <2>4. PollsAreOrderly' /\ AnswersInOrder' /\ RestingIsExplained' /\ PagesApart'
    <3>1. generation' \in Generations
      BY <1>1, <2>1 DEF StorefrontTypeOK
    <3>. QED BY <1>1, <2>1, <3>1, MarketKeepsOrderPage DEF PagesApart
  <2>. QED BY <2>2, <2>3, <2>4 DEF StorefrontInv
<1>. QED BY <1>2, <1>3, <1>4

(* No step of the form breaks the invariant. *)
LEMMA MarketStepPreserves ==
  ASSUME StorefrontInv, MarketStep
  PROVE  StorefrontInv'
<1>1. ASSUME NEW where \in Places, ChangeLocation(where)
      PROVE  StorefrontInv'
  <2>1. page = "market" /\ place' = where /\ LoadAgain(place') /\ submitted' = None
    BY <1>1 DEF ChangeLocation
  <2>. QED BY <1>1, <2>1, LoadAgainPreserves DEF ChangeLocation
<1>2. CASE Reload
  <2>1. /\ page = "market" /\ place' = place /\ LoadAgain(place') /\ place \in Places
        /\ submitted' = submitted
    BY <1>2 DEF Reload, form, StorefrontInv, StorefrontTypeOK
  <2>2. submitted = None
    BY <1>2 DEF Reload, StorefrontInv, SubmittedHeld
  <2>. QED BY <1>2, <2>1, <2>2, LoadAgainPreserves DEF Reload, form
<1>3. ASSUME NEW load \in loads,
             LoadFails(load) \/ \E available \in Inventories : LoadSucceeds(load, available)
      PROVE  StorefrontInv'
  BY <1>3, LoadFailsPreserves, LoadSucceedsPreserves
<1>. QED BY <1>1, <1>2, <1>3, ChoosePreserves, SubmitPreserves, CheckoutPreserves DEF MarketStep

(***************************************************************************)
(* The order page.                                                         *)
(***************************************************************************)
PollStates ==
  [at: {"off", "get", "refresh", "reread", "timer"},
   answer: OrderStates \cup {"none", "undelivered", "lost"}, attempts: 0..(MaxAttempts - 1)]

(* The form stays away while the order page is open. *)
LEMMA OrderKeepsForm ==
  ASSUME StorefrontInv, page = "order", UNCHANGED <<page, market, order>>
  PROVE  LoadsAreOrderly' /\ FormAgrees' /\ SubmittedHeld' /\ PagesApart'
<1>1. loads = {} /\ submitted = None /\ order \in OrderStates
  BY DEF StorefrontInv, PagesApart
<1>2. LoadsAreOrderly' /\ FormAgrees' /\ SubmittedHeld'
  BY <1>1 DEF LoadsAreOrderly, FormAgrees, SubmittedHeld, market
<1>3. PagesApart'
  BY <1>1 DEF PagesApart, market
<1>. QED BY <1>2, <1>3

(* One poll moves, and asks or waits. *)
LEMMA PollMoves ==
  ASSUME StorefrontTypeOK, NEW g \in Generations,
         NEW at \in {"off", "get", "refresh", "reread", "timer"}, NEW n \in 0..(MaxAttempts - 1)
  PROVE  /\ Poll(g, at, n) \in [Generations -> PollStates]
         /\ Poll(g, at, n)[g] = [at |-> at, answer |-> "none", attempts |-> n]
         /\ \A h \in Generations : h # g => Poll(g, at, n)[h] = polls[h]
<1>1. polls \in [Generations -> PollStates]
  BY DEF StorefrontTypeOK, PollStates
<1>2. [at |-> at, answer |-> "none", attempts |-> n] \in PollStates
  BY DEF PollStates
<1>. QED BY <1>1, <1>2 DEF Poll

(* A poll that waits for something belongs to the page that is open; unless it
   was given up it is the current one. *)
LEMMA PollIsCurrent ==
  ASSUME StorefrontInv, NEW g \in Generations, polls[g].at # "off" \/ polls[g].answer # "none"
  PROVE  /\ page = "order" /\ g <= generation /\ polls[g] \in PollStates
         /\ generation \in Generations /\ g \in Nat /\ generation \in Nat
         /\ ~Aborted(g) => g = generation
<1>1. page = "order"
  BY DEF StorefrontInv, PagesApart, NoPoll
<1>2. generation \in Generations /\ g \in Nat /\ generation \in Nat /\ polls[g] \in PollStates
  BY FirstGeneration DEF StorefrontInv, StorefrontTypeOK, PollStates
<1>3. g <= generation
  BY <1>2 DEF StorefrontInv, PollsAreOrderly
<1>. QED BY <1>1, <1>2, <1>3 DEF Aborted

(* What a step of the current poll must show for the order page to stay right:
   the answers of the other polls are theirs. *)
LEMMA CurrentPollPreserves ==
  ASSUME StorefrontInv, page = "order", UNCHANGED <<page, market, order, generation>>,
         NEW g \in Generations, g = generation,
         NEW at \in {"off", "get", "refresh", "reread", "timer"}, NEW n \in 0..(MaxAttempts - 1),
         polls' = Poll(g, at, n),
         shown' \in OrderStates \cup {None}, Rank(shown') <= Rank(order),
         loading' \in BOOLEAN, failed' \in BOOLEAN, stopped' \in BOOLEAN,
         at = "off" => ~loading' /\ (failed' \/ (stopped' <=> NeedsRefresh(shown')))
  PROVE  StorefrontInv'
<1>1. /\ StorefrontTypeOK
      /\ polls' \in [Generations -> PollStates]
      /\ polls'[g] = [at |-> at, answer |-> "none", attempts |-> n]
      /\ \A h \in Generations : h # g => polls'[h] = polls[h]
  BY PollMoves DEF StorefrontInv
<1>2. StorefrontTypeOK'
  BY <1>1 DEF StorefrontTypeOK, PollStates, market, form
<1>3. PollsAreOrderly'
  <2>1. generation \in Nat /\ ~(g > generation)
    BY FirstGeneration
  <2>. QED BY <1>1, <2>1 DEF StorefrontInv, PollsAreOrderly
<1>4. AnswersInOrder'
  <2>1. "none" \notin OrderStates
    BY DEF OrderStates
  <2>. QED BY <1>1, <2>1 DEF StorefrontInv, AnswersInOrder
<1>5. RestingIsExplained'
  BY <1>1 DEF RestingIsExplained, Resting
<1>. QED BY <1>2, <1>3, <1>4, <1>5, OrderKeepsForm DEF StorefrontInv

(* A current answer is shown. *)
LEMMA PollEndsPreserves ==
  ASSUME StorefrontInv, page = "order", UNCHANGED <<page, market, order, generation>>,
         NEW g \in Generations, g = generation, PollEnds(g),
         polls[g].answer \in OrderStates, shown' = polls[g].answer
  PROVE  StorefrontInv'
<1>1. /\ Rank(shown') <= Rank(order) /\ shown' \in OrderStates \cup {None}
      /\ loading' = FALSE /\ failed' = FALSE /\ stopped \in BOOLEAN
      /\ polls[g].attempts \in 0..(MaxAttempts - 1) /\ MaxAttempts \in Nat \ {0}
  BY StorefrontAssumption DEF StorefrontInv, StorefrontTypeOK, AnswersInOrder, PollEnds
<1>2. CASE NeedsRefresh(polls[g].answer) /\ polls[g].attempts + 1 < MaxAttempts
  <2>1. polls' = Poll(g, "timer", polls[g].attempts + 1) /\ stopped' = stopped
    BY <1>2 DEF PollEnds
  <2>2. polls[g].attempts + 1 \in 0..(MaxAttempts - 1)
    BY <1>1, <1>2
  <2>. QED BY <1>1, <2>1, <2>2, CurrentPollPreserves
<1>3. CASE ~(NeedsRefresh(polls[g].answer) /\ polls[g].attempts + 1 < MaxAttempts)
  <2>1. polls' = Poll(g, "off", 0) /\ stopped' = NeedsRefresh(shown') /\ 0 \in 0..(MaxAttempts - 1)
    BY <1>1, <1>3 DEF PollEnds
  <2>2. stopped' \in BOOLEAN
    BY <2>1 DEF NeedsRefresh
  <2>. QED BY <1>1, <2>1, <2>2, CurrentPollPreserves
<1>. QED BY <1>2, <1>3

(* The order moves on at the server. *)
LEMMA OrderMovesPreserves ==
  ASSUME StorefrontInv, OrderMoves
  PROVE  StorefrontInv' /\ shown' = shown
<1>1. /\ UNCHANGED <<page, loading, failed, generation, market, orderPage>>
      /\ order \in OrderStates /\ order' \in OrderStates /\ Rank(order) <= Rank(order')
      /\ order' # None
  BY Ranks, StorefrontAssumption DEF OrderMoves, OrderStates
<1>2. StorefrontTypeOK'
  BY <1>1 DEF StorefrontInv, StorefrontTypeOK, market, orderPage, form
<1>3. LoadsAreOrderly' /\ FormAgrees' /\ SubmittedHeld' /\ PagesApart' /\ PollsAreOrderly' /\ RestingIsExplained'
  BY <1>1 DEF StorefrontInv, LoadsAreOrderly, FormAgrees, SubmittedHeld, PagesApart,
              PollsAreOrderly, RestingIsExplained, Resting, market, orderPage, form
<1>4. AnswersInOrder'
  <2>1. shown \in OrderStates \cup {None} /\ \A state \in OrderStates \cup {None} : Rank(state) \in Nat
    BY Ranks DEF StorefrontInv, StorefrontTypeOK
  <2>2. \A g \in Generations : polls[g].answer \in OrderStates => Rank(polls[g].answer) <= Rank(order')
    BY <1>1, <2>1 DEF StorefrontInv, AnswersInOrder
  <2>3. page = "order" => Rank(shown) <= Rank(order')
    BY <1>1, <2>1 DEF StorefrontInv, AnswersInOrder
  <2>. QED BY <1>1, <2>2, <2>3 DEF StorefrontInv, AnswersInOrder, orderPage
<1>. QED BY <1>1, <1>2, <1>3, <1>4 DEF StorefrontInv, orderPage

(* The order page is opened. *)
LEMMA OpenOrderPreserves ==
  ASSUME StorefrontInv, OpenOrder
  PROVE  StorefrontInv' /\ shown' = shown
<1>1. /\ page = "stripe" /\ page' = "order" /\ loading' = TRUE /\ failed' = FALSE
      /\ polls' = Poll(1, "get", 0)
      /\ UNCHANGED <<generation, market, order, shown, stopped>>
      /\ generation = 1 /\ shown = None /\ loads = {} /\ submitted = None /\ order \in OrderStates
      /\ StorefrontTypeOK
      /\ \A g \in Generations : polls[g] = NoPoll
  BY DEF OpenOrder, StorefrontInv, PagesApart
<1>2. /\ polls' \in [Generations -> PollStates]
      /\ polls'[1] = [at |-> "get", answer |-> "none", attempts |-> 0]
      /\ \A h \in Generations : h # 1 => polls'[h] = NoPoll
  <2>1. 1 \in Generations /\ 0 \in 0..(MaxAttempts - 1)
    BY FirstGeneration, StorefrontAssumption
  <2>. QED BY <1>1, <2>1, PollMoves
<1>3. StorefrontTypeOK'
  BY <1>1, <1>2 DEF StorefrontTypeOK, PollStates, market, form
<1>4. LoadsAreOrderly' /\ FormAgrees' /\ SubmittedHeld' /\ PagesApart'
  BY <1>1 DEF LoadsAreOrderly, FormAgrees, SubmittedHeld, PagesApart, market
<1>5. PollsAreOrderly'
  BY <1>1, <1>2 DEF PollsAreOrderly, NoPoll
<1>6. AnswersInOrder'
  <2>1. Rank(shown) = 0 /\ Rank(order) \in 0..4
    BY <1>1, Ranks
  <2>. QED BY <1>1, <1>2, <2>1 DEF AnswersInOrder, NoPoll, OrderStates
<1>7. RestingIsExplained'
  BY <1>1, <1>2 DEF RestingIsExplained, Resting
<1>. QED BY <1>1, <1>3, <1>4, <1>5, <1>6, <1>7 DEF StorefrontInv

(* The buyer asks again: a new generation begins. *)
LEMMA ClickRefreshPreserves ==
  ASSUME StorefrontInv, ClickRefresh
  PROVE  StorefrontInv' /\ shown' = shown
<1>1. /\ page = "order" /\ generation' = generation + 1 /\ generation < MaxLoads
      /\ generation \in Nat /\ generation \in Generations /\ generation' \in Generations
      /\ loading' = TRUE /\ stopped' = FALSE
      /\ UNCHANGED <<page, failed, market, order, shown>>
      /\ StorefrontTypeOK
  BY StorefrontAssumption DEF ClickRefresh, StorefrontInv, StorefrontTypeOK, Generations
<1>2. /\ polls' \in [Generations -> PollStates]
      /\ polls'[generation'] = [at |-> "get", answer |-> "none", attempts |-> 0]
      /\ \A h \in Generations : h # generation' => polls'[h] = polls[h] \/ polls'[h] = NoPoll
  <2>1. polls \in [Generations -> PollStates]
    BY <1>1 DEF StorefrontTypeOK, PollStates
  <2>2. NoPoll \in PollStates /\ [NoPoll EXCEPT !.at = "get"] = [at |-> "get", answer |-> "none", attempts |-> 0]
        /\ [NoPoll EXCEPT !.at = "get"] \in PollStates
    BY StorefrontAssumption DEF NoPoll, PollStates
  <2>3. polls' = [polls EXCEPT ![generation] = IF @.at = "timer" THEN NoPoll ELSE @,
                               ![generation + 1] = [NoPoll EXCEPT !.at = "get"]]
    BY DEF ClickRefresh
  <2>. HIDE DEF NoPoll, PollStates
  <2>. QED BY <1>1, <2>1, <2>2, <2>3
<1>3. StorefrontTypeOK'
  BY <1>1, <1>2 DEF StorefrontTypeOK, PollStates, market, form
<1>4. LoadsAreOrderly' /\ FormAgrees' /\ SubmittedHeld' /\ PagesApart'
  BY <1>1, OrderKeepsForm
<1>5. PollsAreOrderly'
  <2>1. \A h \in Generations : h \in Nat /\ (h > generation' => h > generation)
    BY <1>1, FirstGeneration
  <2>. QED BY <1>1, <1>2, <2>1, FirstGeneration DEF StorefrontInv, PollsAreOrderly, NoPoll
<1>6. AnswersInOrder'
  BY <1>1, <1>2 DEF StorefrontInv, AnswersInOrder, NoPoll, OrderStates
<1>7. RestingIsExplained'
  BY <1>1, <1>2 DEF RestingIsExplained, Resting
<1>. QED BY <1>1, <1>3, <1>4, <1>5, <1>6, <1>7 DEF StorefrontInv

(* The server answers a poll with the present state. *)
LEMMA AnswerPreserves ==
  ASSUME StorefrontInv, NEW g \in Generations, Answer(g)
  PROVE  StorefrontInv' /\ shown' = shown
<1>1. /\ polls[g].at \in {"get", "refresh", "reread"} /\ polls[g].answer = "none"
      /\ UNCHANGED <<page, loading, failed, generation, market, order, shown, stopped>>
      /\ page = "order" /\ order \in OrderStates /\ StorefrontTypeOK
  BY PollIsCurrent DEF Answer, StorefrontInv, PagesApart
<1>2. PICK answer \in {order, "lost", "undelivered"} :
        /\ polls' = [polls EXCEPT ![g].answer = answer]
        /\ answer = "undelivered" => polls[g].at = "refresh"
  <2>1. order # "undelivered"
    BY <1>1 DEF OrderStates
  <2>. QED BY <2>1 DEF Answer
<1>3. /\ polls' \in [Generations -> PollStates]
      /\ polls'[g].at = polls[g].at /\ polls'[g].answer = answer
      /\ \A h \in Generations : h # g => polls'[h] = polls[h]
  <2>1. polls \in [Generations -> PollStates]
    BY <1>1 DEF StorefrontTypeOK, PollStates
  <2>2. polls[g] \in PollStates /\ answer \in OrderStates \cup {"none", "undelivered", "lost"}
    BY <1>1, <2>1
  <2>3. [polls[g] EXCEPT !.answer = answer] \in PollStates
    BY <2>2 DEF PollStates
  <2>4. polls' = [polls EXCEPT ![g] = [polls[g] EXCEPT !.answer = answer]]
    BY <1>2
  <2>5. [polls[g] EXCEPT !.answer = answer].at = polls[g].at /\ [polls[g] EXCEPT !.answer = answer].answer = answer
    BY <2>2 DEF PollStates
  <2>. QED BY <2>1, <2>3, <2>4, <2>5
<1>4. StorefrontTypeOK'
  BY <1>1, <1>3 DEF StorefrontTypeOK, PollStates, market, form
<1>5. LoadsAreOrderly' /\ FormAgrees' /\ SubmittedHeld' /\ PagesApart'
  BY <1>1, OrderKeepsForm
<1>6. PollsAreOrderly'
  BY <1>1, <1>2, <1>3 DEF StorefrontInv, PollsAreOrderly, OrderStates
<1>7. AnswersInOrder'
  <2>1. answer \in OrderStates => answer = order
    BY <1>2 DEF OrderStates
  <2>2. Rank(order) \in Nat /\ Rank(shown) <= Rank(order)
    BY <1>1, Ranks DEF StorefrontInv, AnswersInOrder
  <2>. QED BY <1>1, <1>3, <2>1, <2>2 DEF StorefrontInv, AnswersInOrder
<1>8. RestingIsExplained'
  <2>1. generation \in Generations
    BY <1>1 DEF StorefrontTypeOK
  <2>2. polls'[generation'].at = polls[generation].at
    BY <1>1, <1>3, <2>1
  <2>. QED BY <1>1, <2>2 DEF StorefrontInv, RestingIsExplained, Resting
<1>. QED BY <1>1, <1>4, <1>5, <1>6, <1>7, <1>8 DEF StorefrontInv

(* A poll of a former generation is given up. *)
LEMMA PollAbortedPreserves ==
  ASSUME StorefrontInv, NEW g \in Generations, PollAborted(g)
  PROVE  StorefrontInv' /\ shown' = shown
<1>1. /\ polls' = Poll(g, "off", 0) /\ g # generation
      /\ UNCHANGED <<page, loading, failed, generation, market, order, shown, stopped>>
      /\ page = "order" /\ StorefrontTypeOK /\ generation \in Generations
  BY PollIsCurrent DEF PollAborted, Aborted, StorefrontInv
<1>2. /\ polls' \in [Generations -> PollStates]
      /\ polls'[g] = [at |-> "off", answer |-> "none", attempts |-> 0]
      /\ \A h \in Generations : h # g => polls'[h] = polls[h]
  <2>1. 0 \in 0..(MaxAttempts - 1)
    BY StorefrontAssumption
  <2>. QED BY <1>1, <2>1, PollMoves
<1>3. StorefrontTypeOK'
  BY <1>1, <1>2 DEF StorefrontTypeOK, PollStates, market, form
<1>4. LoadsAreOrderly' /\ FormAgrees' /\ SubmittedHeld' /\ PagesApart'
  BY <1>1, OrderKeepsForm
<1>5. PollsAreOrderly'
  BY <1>1, <1>2 DEF StorefrontInv, PollsAreOrderly
<1>6. AnswersInOrder'
  BY <1>1, <1>2 DEF StorefrontInv, AnswersInOrder, OrderStates
<1>7. RestingIsExplained'
  BY <1>1, <1>2 DEF StorefrontInv, RestingIsExplained, Resting
<1>. QED BY <1>1, <1>3, <1>4, <1>5, <1>6, <1>7 DEF StorefrontInv

(* The timer of a poll starts the next one. *)
LEMMA TimerFiresPreserves ==
  ASSUME StorefrontInv, NEW g \in Generations, TimerFires(g)
  PROVE  StorefrontInv' /\ shown' = shown
<1>1. /\ polls[g].at = "timer" /\ polls' = Poll(g, "get", polls[g].attempts)
      /\ UNCHANGED <<page, loading, failed, generation, market, order, shown, stopped>>
      /\ page = "order" /\ StorefrontTypeOK /\ generation \in Generations
      /\ polls[g].attempts \in 0..(MaxAttempts - 1)
      /\ g \in Nat /\ generation \in Nat /\ ~(g > generation)
  BY PollIsCurrent DEF TimerFires, StorefrontInv, PollStates
<1>2. /\ polls' \in [Generations -> PollStates]
      /\ polls'[g] = [at |-> "get", answer |-> "none", attempts |-> polls[g].attempts]
      /\ \A h \in Generations : h # g => polls'[h] = polls[h]
  BY <1>1, PollMoves
<1>3. StorefrontTypeOK'
  BY <1>1, <1>2 DEF StorefrontTypeOK, PollStates, market, form
<1>4. LoadsAreOrderly' /\ FormAgrees' /\ SubmittedHeld' /\ PagesApart'
  BY <1>1, OrderKeepsForm
<1>5. PollsAreOrderly'
  <2>1. ASSUME NEW h \in Generations
        PROVE  /\ polls'[h].at \in {"off", "timer"} => polls'[h].answer = "none"
               /\ polls'[h].answer = "undelivered" => polls'[h].at = "refresh"
               /\ h > generation' => polls'[h].at = "off"
    <3>1. CASE h = g
      BY <1>1, <1>2, <3>1
    <3>2. CASE h # g
      BY <1>1, <1>2, <3>2 DEF StorefrontInv, PollsAreOrderly
    <3>. QED BY <3>1, <3>2
  <2>. QED BY <2>1 DEF PollsAreOrderly
<1>6. AnswersInOrder'
  BY <1>1, <1>2 DEF StorefrontInv, AnswersInOrder, OrderStates
<1>7. RestingIsExplained'
  BY <1>1, <1>2 DEF StorefrontInv, RestingIsExplained, Resting
<1>. QED BY <1>1, <1>3, <1>4, <1>5, <1>6, <1>7 DEF StorefrontInv

(* The page goes forward when it shows an answer: the answer is of the current
   poll, and no older than what is shown. *)
LEMMA CurrentAnswer ==
  ASSUME StorefrontInv, NEW g \in Generations, ~Aborted(g), polls[g].answer # "none"
  PROVE  /\ page = "order" /\ g = generation /\ StorefrontTypeOK
         /\ polls[g].attempts \in 0..(MaxAttempts - 1)
         /\ 0 \in 0..(MaxAttempts - 1)
         /\ Rank(shown) <= Rank(order) /\ Rank(shown) \in Nat
         /\ polls[g].answer \in OrderStates =>
              Rank(shown) <= Rank(polls[g].answer) /\ Rank(polls[g].answer) <= Rank(order)
<1>1. page = "order" /\ g = generation /\ StorefrontTypeOK /\ polls[g] \in PollStates
  BY PollIsCurrent DEF StorefrontInv
<1>2. polls[g].attempts \in 0..(MaxAttempts - 1) /\ 0 \in 0..(MaxAttempts - 1)
  BY <1>1, StorefrontAssumption DEF PollStates
<1>3. Rank(shown) \in Nat
  BY <1>1, Ranks DEF StorefrontTypeOK
<1>. QED BY <1>1, <1>2, <1>3 DEF StorefrontInv, AnswersInOrder

(* A poll fails; the page does not go back. *)
LEMMA PollFailsPreserves ==
  ASSUME StorefrontInv, NEW g \in Generations, PollFails(g)
  PROVE  StorefrontInv' /\ Rank(shown') >= Rank(shown)
<1>1. /\ ~Aborted(g) /\ polls[g].answer # "none"
      /\ shown' = IF polls[g].answer = "lost" THEN shown ELSE polls[g].answer
      /\ failed' = TRUE /\ loading' = FALSE
      /\ polls' = Poll(g, "off", 0)
      /\ UNCHANGED <<page, generation, market, order, stopped>>
  BY DEF PollFails
<1>2. polls[g].answer = "lost" \/ polls[g].answer \in OrderStates
  BY PollIsCurrent DEF PollFails, StorefrontInv, PollsAreOrderly, PollStates
<1>3. /\ Rank(shown') <= Rank(order) /\ shown' \in OrderStates \cup {None}
      /\ Rank(shown') >= Rank(shown) /\ stopped \in BOOLEAN
  BY <1>1, <1>2, CurrentAnswer DEF StorefrontTypeOK
<1>4. StorefrontInv'
  BY <1>1, <1>3, CurrentAnswer, CurrentPollPreserves
<1>. QED BY <1>3, <1>4

(* The answer to a plain poll arrives; the page does not go back. *)
LEMMA PurchaseReadPreserves ==
  ASSUME StorefrontInv, NEW g \in Generations, PurchaseRead(g)
  PROVE  StorefrontInv' /\ Rank(shown') >= Rank(shown)
<1>1. /\ ~Aborted(g) /\ polls[g].answer # "none" /\ polls[g].answer # "lost" /\ polls[g].at = "get"
      /\ shown' = polls[g].answer
      /\ UNCHANGED <<page, generation, market, order>>
  BY DEF PurchaseRead, Arrived
<1>2. polls[g].answer \in OrderStates
  BY <1>1, PollIsCurrent DEF StorefrontInv, PollsAreOrderly, PollStates
<1>3. /\ Rank(shown') <= Rank(order) /\ shown' \in OrderStates \cup {None}
      /\ Rank(shown') >= Rank(shown)
  BY <1>1, <1>2, CurrentAnswer
<1>4. CASE NeedsRefresh(polls[g].answer)
  <2>1. polls' = Poll(g, "refresh", polls[g].attempts) /\ UNCHANGED <<loading, failed, stopped>>
    BY <1>4 DEF PurchaseRead
  <2>2. loading' \in BOOLEAN /\ failed' \in BOOLEAN /\ stopped' \in BOOLEAN
    BY <1>1, <2>1, CurrentAnswer DEF StorefrontTypeOK
  <2>3. StorefrontInv'
    BY <1>1, <1>3, <2>1, <2>2, CurrentAnswer, CurrentPollPreserves
  <2>. QED BY <1>3, <2>3
<1>5. CASE ~NeedsRefresh(polls[g].answer)
  <2>1. PollEnds(g)
    BY <1>5 DEF PurchaseRead
  <2>2. StorefrontInv'
    BY <1>1, <1>2, <2>1, CurrentAnswer, PollEndsPreserves
  <2>. QED BY <1>3, <2>2
<1>. QED BY <1>4, <1>5

(* The answer to a refreshing poll arrives; the page does not go back. *)
LEMMA PurchaseRefreshedPreserves ==
  ASSUME StorefrontInv, NEW g \in Generations, PurchaseRefreshed(g)
  PROVE  StorefrontInv' /\ Rank(shown') >= Rank(shown)
<1>1. /\ ~Aborted(g) /\ polls[g].answer # "none" /\ polls[g].answer \in OrderStates
      /\ shown' = polls[g].answer /\ PollEnds(g)
      /\ UNCHANGED <<page, generation, market, order>>
  BY DEF PurchaseRefreshed, Arrived
<1>2. StorefrontInv'
  BY <1>1, CurrentAnswer, PollEndsPreserves
<1>. QED BY <1>1, <1>2, CurrentAnswer

(* After a refresh without its mail the order is read again. *)
LEMMA UndeliveredPreserves ==
  ASSUME StorefrontInv, NEW g \in Generations, Undelivered(g)
  PROVE  StorefrontInv' /\ shown' = shown
<1>1. /\ ~Aborted(g) /\ polls[g].answer # "none"
      /\ polls' = Poll(g, "reread", polls[g].attempts)
      /\ UNCHANGED <<page, loading, failed, generation, market, order, shown, stopped>>
  BY DEF Undelivered, Arrived
<1>2. loading' \in BOOLEAN /\ failed' \in BOOLEAN /\ stopped' \in BOOLEAN /\ shown' \in OrderStates \cup {None}
  BY <1>1, CurrentAnswer DEF StorefrontTypeOK
<1>3. StorefrontInv'
  BY <1>1, <1>2, CurrentAnswer, CurrentPollPreserves
<1>. QED BY <1>1, <1>3

(***************************************************************************)
(* The theorems.                                                           *)
(***************************************************************************)
LEMMA StepPreserves ==
  ASSUME StorefrontInv, [StorefrontNext]_storefrontVars
  PROVE  StorefrontInv' /\ Rank(shown') >= Rank(shown)
<1>1. Rank(shown) \in Nat
  BY Ranks DEF StorefrontInv, StorefrontTypeOK
<1>2. CASE MarketStep
  <2>1. StorefrontInv'
    BY <1>2, MarketStepPreserves
  <2>2. shown' = shown
    BY <1>2 DEF MarketStep, ChangeLocation, Reload, LoadFails, LoadSucceeds, ChoosePrice, SetQuantity,
                Submit, CheckoutSucceeds, CheckoutFails, orderPage
  <2>. QED BY <1>1, <2>1, <2>2
<1>3. CASE OrderStep
  <2>1. CASE OpenOrder \/ ClickRefresh \/ OrderMoves
    BY <1>1, <2>1, OpenOrderPreserves, ClickRefreshPreserves, OrderMovesPreserves
  <2>2. ASSUME NEW g \in Generations, PollStep(g)
        PROVE  StorefrontInv' /\ Rank(shown') >= Rank(shown)
    BY <1>1, <2>2, AnswerPreserves, PollAbortedPreserves, PollFailsPreserves, PurchaseReadPreserves,
       PurchaseRefreshedPreserves, UndeliveredPreserves, TimerFiresPreserves DEF PollStep
  <2>. QED BY <1>3, <2>1, <2>2 DEF OrderStep
<1>4. CASE UNCHANGED storefrontVars
  <2>1. StorefrontInv'
    BY <1>4 DEF storefrontVars, market, form, orderPage, StorefrontInv, StorefrontTypeOK, LoadsAreOrderly,
                FormAgrees, SubmittedHeld, PagesApart, PollsAreOrderly, AnswersInOrder, RestingIsExplained, Resting
  <2>. QED BY <1>1, <1>4, <2>1 DEF storefrontVars, orderPage
<1>. QED BY <1>2, <1>3, <1>4 DEF StorefrontNext

(* The invariant holds in every state of the buyer's pages. *)
THEOREM StorefrontInvariant == StorefrontSpec => []StorefrontInv
<1>1. StorefrontInit => StorefrontInv
  <2>. SUFFICES ASSUME StorefrontInit PROVE StorefrontInv
    OBVIOUS
  <2>1. StorefrontTypeOK
    <3>1. NoPoll \in PollStates
      BY StorefrontAssumption DEF NoPoll, PollStates
    <3>2. polls \in [Generations -> PollStates]
      BY <3>1 DEF StorefrontInit
    <3>3. loads \subseteq [place: Places, generation: Generations]
      BY FirstGeneration DEF StorefrontInit
    <3>. QED BY <3>2, <3>3, FirstGeneration DEF StorefrontInit, StorefrontTypeOK, PollStates
  <2>2. \A g \in Generations : polls[g] = NoPoll
    BY DEF StorefrontInit
  <2>3. LoadsAreOrderly /\ FormAgrees /\ SubmittedHeld /\ PagesApart
    BY <2>2 DEF StorefrontInit, LoadsAreOrderly, FormAgrees, SubmittedHeld, PagesApart
  <2>4. PollsAreOrderly /\ AnswersInOrder /\ RestingIsExplained
    BY <2>2 DEF StorefrontInit, PollsAreOrderly, AnswersInOrder, RestingIsExplained, Resting, NoPoll, OrderStates
  <2>. QED BY <2>1, <2>3, <2>4 DEF StorefrontInv
<1>. QED BY <1>1, StepPreserves, PTL DEF StorefrontSpec

(* Every variable of the pages keeps its type. *)
THEOREM StorefrontTypeCorrect == StorefrontSpec => []StorefrontTypeOK
<1>1. StorefrontInv => StorefrontTypeOK
  BY DEF StorefrontInv
<1>. QED BY <1>1, StorefrontInvariant, PTL

(* What a buyer has submitted is what the form shows, offered for that very
   municipality, however many loads overlap (marketplace.tsx:50). *)
THEOREM SubmittedIsOffered == StorefrontSpec => []SubmittedAsOffered
<1>1. StorefrontInv => SubmittedAsOffered
  BY DEF StorefrontInv, SubmittedHeld, SubmittedAsOffered
<1>. QED BY <1>1, StorefrontInvariant, PTL

(* An order page that does not ask any more says why (order-status.tsx:78). *)
THEOREM RestIsExplained == StorefrontSpec => []RestingIsExplained
<1>1. StorefrontInv => RestingIsExplained
  BY DEF StorefrontInv
<1>. QED BY <1>1, StorefrontInvariant, PTL

(* The order page never goes back to an earlier state of the order, for any
   number of overlapping polls. *)
THEOREM PageNeverShowsOlder == StorefrontSpec => NeverShowsOlder
<1>1. StorefrontInv /\ [StorefrontNext]_storefrontVars => [Rank(shown') >= Rank(shown)]_storefrontVars
  BY StepPreserves
<1>. QED BY <1>1, StorefrontInvariant, PTL DEF StorefrontSpec, NeverShowsOlder
===============================================================================
