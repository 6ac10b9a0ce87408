--------------------------- MODULE RecoveryProofs ---------------------------
(***************************************************************************)
(* Theorems about payments and mails under all workers at once, for any    *)
(* number of orders, webhooks and visitors.                                *)
(***************************************************************************)
EXTENDS Recovery, FulfillmentProofs, SequenceTheorems

(* What is proved of a delivery by itself. *)
MailFacts == INSTANCE EmailProofs WITH fulfilled <- FulfilledOrders, forgotten <- {}

Worker ==
  [at: {"idle", "check", "retrieve", "settle", "deliver", "mailing"},
   order: Orders \cup {None}, seen: SessionStates]

Final == {"paid", "declined", "expired"}

(* A worker acts on an order, and settles what Stripe will not change any more. *)
WorkersAreInformed ==
  /\ session \in [Orders -> SessionStates]
  /\ events \subseteq [order: Orders, seen: Reported]
  /\ cooling \subseteq Orders
  /\ worker \in [Workers -> Worker]
  /\ \A w \in Workers : worker[w].at # "idle" => worker[w].order \in Orders
  /\ \A w \in Workers :
       worker[w].at = "settle" =>
         worker[w].seen \in Final /\ session[worker[w].order] = worker[w].seen
  /\ \A e \in events : e.seen # "processing" => session[e.order] = e.seen

(* The buyer pays after checkout has returned; an order fails because its checkout
   was refused, so nobody was sent to pay, or because its session came to nothing. *)
StatusIsJustified ==
  \A o \in Orders :
    /\ checkout[o] # "idle" => Placed(o)
    /\ session[o] \in {"processing", "paid", "declined"} => checkout[o] = "returned"
    /\ Placed(o) /\ orders[o].status = "FAILED" =>
         checkout[o] = "refused" \/ session[o] \in {"declined", "expired"}
    /\ Placed(o) /\ orders[o].status \in TERMINAL => session[o] = "paid"

RecoveryInv ==
  /\ Inv
  /\ MailFacts!EmailInv
  /\ WorkersAreInformed
  /\ queue \in Seq(Orders)
  /\ StatusIsJustified

(***************************************************************************)
(* The orders.                                                             *)
(***************************************************************************)
LEMMA ReportType ==
  ASSUME WorkersAreInformed, NEW w \in Workers, worker[w].at = "settle"
  PROVE  LET p == ReportOf(worker[w].order, worker[w].seen)
         IN  /\ p \in Payloads
             /\ p.order = worker[w].order /\ p.order \in Orders
             /\ p.paid <=> worker[w].seen = "paid"
<1>1. worker[w].order \in Orders /\ worker[w].seen \in SessionStates
  BY DEF WorkersAreInformed, Worker
<1>. QED BY <1>1, ReportsAssumption DEF ReportOf

(* Every step is a transaction of the shop or leaves it alone. *)
LEMMA NextIsShopStep ==
  ASSUME WorkersAreInformed, RecoveryNext
  PROVE  [Next]_vars
<1>1. ASSUME NEW o \in Orders, Buy(o)
      PROVE  Next
  BY <1>1 DEF Buy, Next, CheckoutStep
<1>2. ASSUME NEW w \in Workers, Settle(w)
      PROVE  Next
  <2>. DEFINE p == ReportOf(worker[w].order, worker[w].seen)
  <2>1. p \in Payloads
    BY <1>2, ReportType DEF Settle
  <2>2. PaymentSucceeded(p) \/ PaymentFailed(p)
    BY <1>2 DEF Settle
  <2>. QED BY <2>1, <2>2 DEF Next, PaymentStep
<1>3. ASSUME NEW w \in Workers, WorkerStep(w)
      PROVE  [Next]_vars
  BY <1>2, <1>3 DEF WorkerStep, Attempt, NoAttempt, Retrieve, Deliver, Commit
<1>4. ASSUME NEW o \in Orders, OpenSession(o) \/ BuyerActs(o) \/ CoolDown(o)
      PROVE  UNCHANGED vars
  BY <1>4 DEF OpenSession, BuyerActs, SessionMoves, CoolDown
<1>5. CASE \/ \E e \in events : DropEvent(e) \/ \E w \in Webhooks : Receive(w, e)
           \/ \E w \in Visitors, o \in Orders : Visit(w, o)
           \/ StartSweep \/ SweepNext \/ ProviderActs
           \/ \E w \in Workers : Fail(w)
  BY <1>5 DEF DropEvent, Receive, Visit, StartSweep, SweepNext, ProviderActs, Fail
<1>. QED BY <1>1, <1>3, <1>4, <1>5 DEF RecoveryNext

(* What a settlement does to its order. *)
LEMMA SettleWrites ==
  ASSUME Inv, WorkersAreInformed, NEW w \in Workers, Settle(w)
  PROVE  LET o == worker[w].order
         IN  /\ o \in Orders /\ Placed(o) /\ checkout' = checkout
             /\ \A q \in Orders : Placed(q)' <=> Placed(q)
             /\ \A q \in Orders \ {o} : orders'[q] = orders[q]
             /\ \/ orders'[o].status = orders[o].status
                \/ worker[w].seen = "paid" /\ orders'[o].status \in TERMINAL
                \/ worker[w].seen # "paid" /\ orders[o].status = "PENDING" /\ orders'[o].status = "FAILED"
<1>. DEFINE p == ReportOf(worker[w].order, worker[w].seen)
            o == worker[w].order
<1>1. /\ p \in Payloads /\ p.order = o /\ o \in Orders
      /\ p.paid <=> worker[w].seen = "paid"
  BY ReportType DEF Settle
<1>2. FulfillmentTypeOK
  BY DEF Inv
<1>3. (IF p.paid THEN PaymentSucceeded(p) ELSE PaymentFailed(p))
  BY DEF Settle
<1>. HIDE DEF p
<1>4. ASSUME NEW order \in Order, Put(o, order), Placed(o)
      PROVE  /\ orders'[o] = order
             /\ \A q \in Orders \ {o} : orders'[q] = orders[q]
             /\ \A q \in Orders : Placed(q)' <=> Placed(q)
  BY <1>1, <1>2, <1>4, PutRow, FulfillmentAssumption DEF Placed
<1>5. CASE ~p.paid
  <2>1. PaymentFailed(p) /\ Bindable(p) /\ Put(o, FailIfPending(Bound(p))) /\ checkout' = checkout
    BY <1>1, <1>3, <1>5 DEF PaymentFailed
  <2>. QED BY <1>1, <1>2, <1>4, <1>5, <2>1, BoundType, BoundRow, FailIfPendingRow
<1>6. CASE AlreadySettled(p)
  <2>1. Bindable(p) /\ Put(o, Bound(p)) /\ checkout' = checkout
    BY <1>1, <1>6 DEF AlreadySettled
  <2>. QED BY <1>1, <1>2, <1>4, <2>1, BoundType, BoundRow
<1>7. ASSUME NEW status \in TERMINAL, p.paid, Payable(p), Put(o, Settled(p, status)), checkout' = checkout
      PROVE  /\ Placed(o) /\ orders'[o].status = status
             /\ \A q \in Orders \ {o} : orders'[q] = orders[q]
             /\ \A q \in Orders : Placed(q)' <=> Placed(q)
  <2>1. status \in Statuses
    BY DEF TERMINAL, Statuses
  <2>. QED BY <1>1, <1>2, <1>4, <1>7, <2>1, SettledType DEF Payable, Bindable
<1>8. CASE Reject(p)
  BY <1>1, <1>7, <1>8 DEF Reject, Payable, TERMINAL
<1>9. CASE \E selected \in SUBSET Leads : Allocate(p, selected)
  BY <1>1, <1>7, <1>9 DEF Allocate, Payable, TERMINAL
<1>. QED BY <1>3, <1>5, <1>6, <1>8, <1>9 DEF PaymentSucceeded

(* What create_checkout does to its order. *)
LEMMA BuyWrites ==
  ASSUME Inv, NEW o \in Orders, Buy(o)
  PROVE  /\ Placed(o)' /\ checkout'[o] # "idle" /\ session' = session
         /\ \A q \in Orders \ {o} : orders'[q] = orders[q] /\ checkout'[q] = checkout[q]
         /\ \/ /\ ~Placed(o)
               /\ checkout'[o] = "calling" /\ orders'[o].status = "PENDING"
            \/ /\ Placed(o) /\ checkout[o] = "calling"
               /\ \/ orders'[o].status = orders[o].status
                  \/ /\ checkout'[o] = "refused"
                     /\ orders[o].status = "PENDING" /\ orders'[o].status = "FAILED"
<1>1. FulfillmentTypeOK /\ session' = session
  BY DEF Inv, Buy, stripeVars
<1>2. ASSUME NEW request \in Requests, CreateOrder(o, request)
      PROVE  /\ Placed(o)'
             /\ ~Placed(o) /\ checkout'[o] = "calling" /\ orders'[o].status = "PENDING"
             /\ \A q \in Orders \ {o} : orders'[q] = orders[q] /\ checkout'[q] = checkout[q]
  <2>1. CallingIsPlaced'
    BY <1>2, CreateOrderStep DEF Inv
  <2>2. /\ ~Placed(o) /\ checkout'[o] = "calling" /\ orders'[o].status = "PENDING"
        /\ \A q \in Orders \ {o} : orders'[q] = orders[q] /\ checkout'[q] = checkout[q]
    BY <1>1, <1>2 DEF CreateOrder, FulfillmentTypeOK
  <2>. QED BY <2>1, <2>2 DEF CallingIsPlaced
<1>3. ASSUME checkout[o] = "calling"
      PROVE  Placed(o) /\ orders[o] \in Order
  BY <1>1, <1>3, PlacedOrderType DEF Inv, CallingIsPlaced
<1>4. ASSUME NEW order \in Order, Put(o, order), Placed(o),
             NEW pc \in {"returned", "refused"}, checkout' = [checkout EXCEPT ![o] = pc]
      PROVE  /\ Placed(o)' /\ checkout'[o] = pc /\ orders'[o] = order
             /\ \A q \in Orders \ {o} : orders'[q] = orders[q] /\ checkout'[q] = checkout[q]
  <2>1. /\ orders'[o] = order
        /\ \A q \in Orders \ {o} : orders'[q] = orders[q]
    BY <1>1, <1>4, PutRow
  <2>. QED BY <1>1, <1>4, <2>1, FulfillmentAssumption DEF Placed, FulfillmentTypeOK
<1>5. CASE CheckoutCreated(o)
  <2>. DEFINE order == [orders[o] EXCEPT !.checkoutId = SessionOf[o]]
  <2>1. checkout[o] = "calling" /\ Placed(o) /\ orders[o] \in Order
    BY <1>3, <1>5 DEF CheckoutCreated
  <2>2. order \in Order /\ order.status = orders[o].status
    BY <2>1, FulfillmentAssumption DEF Order
  <2>. QED BY <1>1, <1>4, <1>5, <2>1, <2>2 DEF CheckoutCreated, Put
<1>6. CASE CheckoutRefused(o)
  <2>1. checkout[o] = "calling" /\ Placed(o) /\ orders[o] \in Order
    BY <1>3, <1>6 DEF CheckoutRefused
  <2>. QED BY <1>1, <1>4, <1>6, <2>1, FailIfPendingRow DEF CheckoutRefused, Put
<1>7. CASE CheckoutLost(o)
  <2>1. checkout[o] = "calling" /\ Placed(o)
    BY <1>3, <1>7 DEF CheckoutLost
  <2>. QED BY <1>1, <1>7, <2>1 DEF CheckoutLost, FulfillmentTypeOK, Placed
<1>. QED BY <1>1, <1>2, <1>5, <1>6, <1>7 DEF Buy

(* A purchase begins pending, or fails before anybody could pay. *)
LEMMA BuyIsJustified ==
  ASSUME RecoveryInv, NEW o \in Orders, Buy(o)
  PROVE  StatusIsJustified'
<1>1. StatusIsJustified /\ Inv
  BY DEF RecoveryInv
<1>2. /\ Placed(o)' /\ checkout'[o] # "idle" /\ session' = session
      /\ \A q \in Orders \ {o} : orders'[q] = orders[q] /\ checkout'[q] = checkout[q]
      /\ \/ /\ ~Placed(o)
            /\ checkout'[o] = "calling" /\ orders'[o].status = "PENDING"
         \/ /\ Placed(o) /\ checkout[o] = "calling"
            /\ \/ orders'[o].status = orders[o].status
               \/ /\ checkout'[o] = "refused"
                  /\ orders[o].status = "PENDING" /\ orders'[o].status = "FAILED"
  BY <1>1, BuyWrites
<1>3. session[o] \notin {"processing", "paid", "declined"}
  BY <1>1, <1>2 DEF StatusIsJustified
<1>4. \A q \in Orders \ {o} : Placed(q)' <=> Placed(q)
  BY <1>2 DEF Placed
<1>. QED BY <1>1, <1>2, <1>3, <1>4 DEF StatusIsJustified, TERMINAL

(* A settlement says what Stripe says for good. *)
LEMMA SettleIsJustified ==
  ASSUME RecoveryInv, NEW w \in Workers, Settle(w)
  PROVE  StatusIsJustified'
<1>. DEFINE o == worker[w].order
<1>1. /\ o \in Orders /\ Placed(o) /\ checkout' = checkout
      /\ \A q \in Orders : Placed(q)' <=> Placed(q)
      /\ \A q \in Orders \ {o} : orders'[q] = orders[q]
      /\ \/ orders'[o].status = orders[o].status
         \/ worker[w].seen = "paid" /\ orders'[o].status \in TERMINAL
         \/ worker[w].seen # "paid" /\ orders[o].status = "PENDING" /\ orders'[o].status = "FAILED"
  BY SettleWrites DEF RecoveryInv
<1>2. session' = session
  BY DEF Settle, stripeVars
<1>3. worker[w].seen \in Final /\ session[o] = worker[w].seen
  BY DEF RecoveryInv, WorkersAreInformed, Settle
<1>. HIDE DEF o
<1>. QED BY <1>1, <1>2, <1>3 DEF RecoveryInv, StatusIsJustified, Final, TERMINAL

(* Stripe's session of one order moves on. *)
LEMMA SessionIsJustified ==
  ASSUME RecoveryInv, NEW o \in Orders, OpenSession(o) \/ BuyerActs(o)
  PROVE  StatusIsJustified'
<1>1. UNCHANGED <<orders, checkout>> /\ \A q \in Orders : Placed(q)' <=> Placed(q)
  BY DEF OpenSession, BuyerActs, SessionMoves, vars, storeVars, Placed
<1>2. session \in [Orders -> SessionStates]
  BY DEF RecoveryInv, WorkersAreInformed
<1>3. PICK from \in {"none", "open", "processing"}, to \in SessionStates \ {"none"} :
        /\ session[o] = from /\ session' = [session EXCEPT ![o] = to]
        /\ from = "none" => to = "open"
        /\ from # "none" => to # "open"
        /\ from = "open" => to # "declined"
        /\ from = "processing" => to # "expired"
        /\ from = "open" /\ to # "expired" => checkout[o] = "returned"
  BY DEF OpenSession, BuyerActs, SessionMoves, SessionStates
<1>4. session'[o] = to /\ \A q \in Orders \ {o} : session'[q] = session[q]
  BY <1>2, <1>3
<1>. QED BY <1>1, <1>3, <1>4 DEF RecoveryInv, StatusIsJustified, SessionStates, TERMINAL

(* Steps that leave orders and sessions alone. *)
LEMMA StillJustified ==
  ASSUME StatusIsJustified, UNCHANGED <<orders, checkout, session>>
  PROVE  StatusIsJustified'
BY DEF StatusIsJustified, Placed

(***************************************************************************)
(* The workers.                                                            *)
(***************************************************************************)
LEMMA WorkerMoves ==
  ASSUME WorkersAreInformed, UNCHANGED session, NEW w \in Workers, NEW row \in Worker,
         worker' = [worker EXCEPT ![w] = row],
         row.at # "idle" => row.order \in Orders,
         row.at = "settle" => row.seen \in Final /\ session[row.order] = row.seen,
         events' \subseteq events, cooling' \subseteq Orders
  PROVE  WorkersAreInformed'
BY DEF WorkersAreInformed

(* Steps that leave sessions and workers alone. *)
LEMMA WorkersStay ==
  ASSUME WorkersAreInformed, UNCHANGED <<session, worker>>,
         events' \subseteq events, cooling' \subseteq Orders
  PROVE  WorkersAreInformed'
BY DEF WorkersAreInformed

(* A worker that ends, or goes on with what it has. *)
LEMMA GoOrDone ==
  ASSUME WorkersAreInformed, NEW w \in Workers,
         UNCHANGED <<session, events>>, cooling' \subseteq Orders,
         Done(w) \/ (worker[w].at # "idle" /\ \E at \in {"retrieve", "deliver", "mailing"} : Go(w, at))
  PROVE  WorkersAreInformed'
<1>1. Idle \in Worker /\ Idle.at = "idle"
  BY DEF Idle, Worker, SessionStates
<1>2. CASE Done(w)
  BY <1>1, <1>2, WorkerMoves DEF Done
<1>3. ASSUME worker[w].at # "idle", NEW at \in {"retrieve", "deliver", "mailing"}, Go(w, at)
      PROVE  WorkersAreInformed'
  <2>. DEFINE row == [worker[w] EXCEPT !.at = at]
  <2>1. worker[w] \in Worker /\ worker[w].order \in Orders
    BY <1>3 DEF WorkersAreInformed
  <2>2. row \in Worker /\ row.at = at /\ row.order = worker[w].order
    BY <2>1 DEF Worker
  <2>3. worker' = [worker EXCEPT ![w] = row]
    BY <1>3 DEF Go
  <2>. HIDE DEF row
  <2>. QED BY <2>1, <2>2, <2>3, WorkerMoves
<1>. QED BY <1>2, <1>3

(* A retrieval answers with the present state, which counts only once it is final. *)
LEMMA RetrieveInforms ==
  ASSUME WorkersAreInformed, NEW w \in Workers, Retrieve(w)
  PROVE  WorkersAreInformed'
<1>. DEFINE o == worker[w].order
            row == [at |-> IF session[o] \in {"paid", "expired"} THEN "settle" ELSE "deliver",
                    order |-> o, seen |-> session[o]]
<1>1. worker[w] \in Worker /\ o \in Orders /\ session[o] \in SessionStates
  BY DEF WorkersAreInformed, Retrieve
<1>2. row \in Worker
  BY <1>1 DEF Worker
<1>3. worker' = [worker EXCEPT ![w] = row]
  BY <1>1 DEF Retrieve, Worker, WorkersAreInformed
<1>4. row.at = "settle" => row.seen \in Final /\ session[row.order] = row.seen
  BY DEF Final
<1>5. UNCHANGED <<session, events>> /\ cooling' \subseteq Orders
  BY DEF Retrieve, stripeVars, retryVars, WorkersAreInformed
<1>. HIDE DEF row
<1>6. row.order \in Orders
  BY <1>1 DEF row
<1>. QED BY <1>2, <1>3, <1>4, <1>5, <1>6, WorkerMoves

(* A worker that takes up an order to settle carries a final state. *)
LEMMA NewcomerInforms ==
  ASSUME WorkersAreInformed, NEW w \in Workers, NEW o \in Orders,
         NEW at \in {"check", "settle"}, NEW seen \in SessionStates,
         worker' = [worker EXCEPT ![w] = [at |-> at, order |-> o, seen |-> seen]],
         at = "settle" => seen \in Final /\ session[o] = seen,
         UNCHANGED <<session, events, cooling>>
  PROVE  WorkersAreInformed'
<1>. DEFINE row == [at |-> at, order |-> o, seen |-> seen]
<1>1. row \in Worker /\ row.at = at /\ row.order = o /\ row.seen = seen
  BY DEF Worker
<1>2. cooling' \subseteq Orders /\ events' \subseteq events /\ worker' = [worker EXCEPT ![w] = row]
  BY DEF WorkersAreInformed
<1>. HIDE DEF row
<1>. QED BY <1>1, <1>2, WorkerMoves

(* What is final stays, so nobody who has seen it is misinformed. *)
LEMMA SessionInforms ==
  ASSUME WorkersAreInformed, NEW o \in Orders, OpenSession(o) \/ BuyerActs(o)
  PROVE  WorkersAreInformed'
<1>1. UNCHANGED <<worker, cooling>>
  BY DEF OpenSession, BuyerActs, SessionMoves, retryVars
<1>2. PICK to \in SessionStates :
        /\ session[o] \notin Final /\ session' = [session EXCEPT ![o] = to]
        /\ events' \subseteq events \cup {e \in {[order |-> o, seen |-> to]} : to \in Reported}
  BY DEF OpenSession, BuyerActs, SessionMoves, SessionStates, Final
<1>3. /\ session' \in [Orders -> SessionStates]
      /\ session'[o] = to /\ \A q \in Orders : q # o => session'[q] = session[q]
  BY <1>2 DEF WorkersAreInformed
<1>4. \A e \in events' : /\ e \in [order: Orders, seen: Reported]
                         /\ e.seen # "processing" => session'[e.order] = e.seen
  <2>1. ASSUME NEW e \in events, e.seen # "processing"
        PROVE  session'[e.order] = e.seen
    <3>1. session[e.order] = e.seen /\ e.order \in Orders /\ e.seen \in Final
      BY <2>1, RecoveryAssumption DEF WorkersAreInformed, Outcomes, Final
    <3>. QED BY <3>1, <1>2, <1>3
  <2>. QED BY <2>1, <1>2, <1>3 DEF WorkersAreInformed
<1>5. \A w \in Workers :
        worker[w].at = "settle" =>
          worker[w].seen \in Final /\ session'[worker[w].order] = worker[w].seen
  BY <1>2, <1>3 DEF WorkersAreInformed
<1>. QED BY <1>1, <1>3, <1>4, <1>5 DEF WorkersAreInformed

(* The sweep's list holds orders, a finite number of them. *)
LEMMA NextQueues ==
  ASSUME RecoveryInv, RecoveryNext
  PROVE  queue' \in Seq(Orders)
<1>1. queue \in Seq(Orders) /\ <<>> \in Seq(Orders)
  BY DEF RecoveryInv
<1>2. CASE StartSweep
  <2>1. Candidates \subseteq Orders
    BY DEF Candidates
  <2>2. Cardinality(Candidates) \in Nat
    BY <2>1, RecoveryAssumption, FS_Subset, FS_CardinalityType
  <2>3. SweepSize \in Nat
    BY <2>2, RecoveryAssumption DEF SweepSize
  <2>4. queue' \in [1..SweepSize -> Candidates]
    BY <1>2 DEF StartSweep
  <2>5. queue' \in [1..SweepSize -> Orders]
    BY <2>1, <2>4
  <2>. HIDE DEF SweepSize
  <2>6. queue' \in UNION {[1..n -> Orders] : n \in Nat}
    BY <2>3, <2>5, Zenon
  <2>7. Seq(Orders) = UNION {[1..n -> Orders] : n \in Nat}
    BY SeqDef, Zenon
  <2>. QED BY <2>6, <2>7, Zenon
<1>3. CASE SweepNext
  BY <1>1, <1>3 DEF SweepNext
<1>4. ASSUME NEW w \in Workers, Fail(w)
      PROVE  queue' \in Seq(Orders)
  BY <1>1, <1>4 DEF Fail
<1>5. ASSUME NEW w \in Workers, WorkerStep(w)
      PROVE  UNCHANGED queue
  BY <1>5 DEF WorkerStep, Attempt, NoAttempt, Settle, Deliver, Commit, Retrieve, retryVars
<1>6. ASSUME NEW o \in Orders, OpenSession(o) \/ Buy(o) \/ BuyerActs(o) \/ CoolDown(o)
      PROVE  UNCHANGED queue
  BY <1>6 DEF OpenSession, Buy, BuyerActs, SessionMoves, CoolDown, retryVars
<1>7. CASE \/ \E e \in events : DropEvent(e) \/ \E w \in Webhooks : Receive(w, e)
           \/ \E w \in Visitors, o \in Orders : Visit(w, o)
           \/ ProviderActs
  BY <1>1, <1>7 DEF DropEvent, Receive, Visit, ProviderActs, retryVars
<1>. QED BY <1>1, <1>2, <1>3, <1>4, <1>5, <1>6, <1>7 DEF RecoveryNext

(* Every step leaves the workers informed. *)
LEMMA NextInforms ==
  ASSUME RecoveryInv, RecoveryNext
  PROVE  WorkersAreInformed'
<1>1. WorkersAreInformed
  BY DEF RecoveryInv
<1>2. ASSUME NEW o \in Orders, OpenSession(o) \/ BuyerActs(o)
      PROVE  WorkersAreInformed'
  BY <1>1, <1>2, SessionInforms
<1>3. ASSUME NEW o \in Orders, Buy(o) \/ CoolDown(o)
      PROVE  WorkersAreInformed'
  <2>1. UNCHANGED <<session, worker, events>> /\ cooling' \subseteq Orders
    BY <1>1, <1>3 DEF Buy, CoolDown, stripeVars, retryVars, WorkersAreInformed
  <2>. QED BY <1>1, <2>1, WorkersStay
<1>4. CASE (\E e \in events : DropEvent(e)) \/ StartSweep \/ ProviderActs
  <2>1. UNCHANGED <<session, worker>> /\ events' \subseteq events /\ cooling' \subseteq Orders
    BY <1>1, <1>4 DEF DropEvent, StartSweep, ProviderActs, stripeVars, retryVars, WorkersAreInformed
  <2>. QED BY <1>1, <2>1, WorkersStay
<1>5. ASSUME NEW e \in events, NEW w \in Webhooks, Receive(w, e)
      PROVE  WorkersAreInformed'
  <2>1. /\ w \in Workers /\ e.order \in Orders /\ e.seen \in SessionStates
        /\ e.seen \in Final /\ session[e.order] = e.seen
    BY <1>1, <1>5, RecoveryAssumption
       DEF Workers, WorkersAreInformed, Receive, Acts, Outcomes, SessionStates, Final
  <2>. QED BY <1>1, <1>5, <2>1, NewcomerInforms DEF Receive, stripeVars, retryVars
<1>6. ASSUME NEW w \in Refreshers, NEW o \in Orders, Refresh(w, o), UNCHANGED <<stripeVars, cooling>>
      PROVE  WorkersAreInformed'
  BY <1>1, <1>6, NewcomerInforms DEF Refresh, Workers, SessionStates, stripeVars
<1>7. ASSUME NEW w \in Visitors, NEW o \in Orders, Visit(w, o)
      PROVE  WorkersAreInformed'
  BY <1>6, <1>7 DEF Visit, Refreshers, retryVars
<1>8. CASE SweepNext
  <2>1. CASE UNCHANGED worker
    BY <1>1, <1>8, <2>1, WorkersStay DEF SweepNext, stripeVars, WorkersAreInformed
  <2>2. CASE Refresh(Job, Head(queue))
    <3>1. Head(queue) \in Orders
      BY <1>8 DEF RecoveryInv, SweepNext
    <3>. QED BY <1>6, <1>8, <2>2, <3>1 DEF SweepNext, Refreshers
  <2>. QED BY <1>8, <2>1, <2>2 DEF SweepNext
<1>9. ASSUME NEW w \in Workers, Retrieve(w)
      PROVE  WorkersAreInformed'
  BY <1>1, <1>9, RetrieveInforms
<1>10. ASSUME NEW w \in Workers,
              Attempt(w) \/ NoAttempt(w) \/ Settle(w) \/ Deliver(w) \/ Commit(w) \/ Fail(w)
       PROVE  WorkersAreInformed'
  <2>1. UNCHANGED <<session, events>>
    BY <1>10 DEF Attempt, NoAttempt, Settle, Deliver, Commit, Fail, stripeVars
  <2>2. cooling' \subseteq Orders
    <3>1. /\ cooling \subseteq Orders
          /\ worker[w].at # "idle" => worker[w].order \in Orders
      BY <1>1 DEF WorkersAreInformed
    <3>. QED BY <1>10, <3>1 DEF Attempt, NoAttempt, Settle, Deliver, Commit, Fail, retryVars
  <2>3. Done(w) \/ (worker[w].at # "idle" /\ \E at \in {"retrieve", "deliver", "mailing"} : Go(w, at))
    BY <1>10 DEF Attempt, NoAttempt, Settle, Deliver, Commit, Fail
  <2>. QED BY <1>1, <2>1, <2>2, <2>3, GoOrDone
<1>. QED
  BY <1>2, <1>3, <1>4, <1>5, <1>7, <1>8, <1>9, <1>10 DEF RecoveryNext, WorkerStep

(***************************************************************************)
(* The mails.                                                              *)
(***************************************************************************)
LEMMA FulfilledStay ==
  ASSUME UNCHANGED orders
  PROVE  UNCHANGED FulfilledOrders
BY DEF FulfilledOrders, Placed

(* Payments fulfill orders, and only while no delivery is open. *)
LEMMA OrdersFulfill ==
  ASSUME RecoveryInv,
         (\E o \in Orders : Buy(o)) \/ (\E w \in Workers : Settle(w))
  PROVE  Mail!EmailNext \/ UNCHANGED Mail!emailVars
<1>1. Inv /\ WorkersAreInformed
  BY DEF RecoveryInv
<1>2. ASSUME NEW o \in Orders, Buy(o)
      PROVE  UNCHANGED Mail!emailVars
  <2>1. FulfilledOrders' = FulfilledOrders
    BY <1>1, <1>2, BuyWrites DEF FulfilledOrders, Placed
  <2>. QED BY <1>2, <2>1 DEF Buy, mailVars, Mail!emailVars, Mail!mailData
<1>3. ASSUME NEW w \in Workers, Settle(w)
      PROVE  Mail!EmailNext \/ UNCHANGED Mail!emailVars
  <2>1. PICK o \in Orders :
          /\ \A q \in Orders : Placed(q)' <=> Placed(q)
          /\ \A q \in Orders \ {o} : orders'[q] = orders[q]
          /\ Placed(o) /\ orders[o].status = "FULFILLED" => orders'[o].status = "FULFILLED"
    <3>1. SettledKept
      <4>1. RecoveryNext
        BY <1>3 DEF RecoveryNext, WorkerStep
      <4>. QED BY <1>1, <4>1, NextIsShopStep, NextKeepsSettled
    <3>. QED BY <1>1, <1>3, <3>1, SettleWrites DEF SettledKept, TERMINAL
  <2>2. FulfilledOrders' \in {FulfilledOrders, FulfilledOrders \cup {o}}
    BY <2>1 DEF FulfilledOrders, TERMINAL
  <2>3. tx = NoTx /\ UNCHANGED mailVars
    BY <1>3 DEF Settle, WriteLockFree
  <2>4. CASE FulfilledOrders' = FulfilledOrders
    BY <2>3, <2>4 DEF mailVars, Mail!emailVars, Mail!mailData
  <2>5. CASE FulfilledOrders' = FulfilledOrders \cup {o}
    <3>1. Mail!Fulfill(o)
      BY <2>3, <2>5 DEF mailVars, Mail!Fulfill, Mail!mailData, Mail!emailStore, Mail!provider
    <3>. QED BY <3>1 DEF Mail!EmailNext
  <2>. QED BY <2>2, <2>4, <2>5
<1>. QED BY <1>2, <1>3

(* Every step of a worker is a step of EmailDelivery or leaves the mails alone. *)
LEMMA NextIsMailStep ==
  ASSUME RecoveryInv, RecoveryNext
  PROVE  Mail!EmailNext \/ UNCHANGED Mail!emailVars
<1>1. WorkersAreInformed
  BY DEF RecoveryInv
<1>2. ASSUME UNCHANGED <<vars, mailVars>>
      PROVE  UNCHANGED Mail!emailVars
  <2>1. UNCHANGED FulfilledOrders
    BY <1>2, FulfilledStay DEF vars, storeVars
  <2>. QED BY <1>2, <2>1 DEF mailVars, Mail!emailVars, Mail!mailData
<1>3. CASE (\E o \in Orders : Buy(o)) \/ (\E w \in Workers : Settle(w))
  BY <1>3, OrdersFulfill
<1>4. ASSUME NEW o \in Orders, OpenSession(o) \/ BuyerActs(o) \/ CoolDown(o)
      PROVE  UNCHANGED <<vars, mailVars>>
  BY <1>4 DEF OpenSession, BuyerActs, SessionMoves, CoolDown
<1>5. CASE \/ \E e \in events : DropEvent(e) \/ \E w \in Webhooks : Receive(w, e)
           \/ \E w \in Visitors, o \in Orders : Visit(w, o)
           \/ StartSweep \/ SweepNext
  BY <1>2, <1>5 DEF DropEvent, Receive, Visit, StartSweep, SweepNext
<1>6. CASE ProviderActs
  BY <1>6 DEF ProviderActs, Mail!EmailNext, Mail!Deliver
<1>7. ASSUME NEW w \in Workers, Attempt(w) \/ NoAttempt(w) \/ Retrieve(w)
      PROVE  UNCHANGED <<vars, mailVars>>
  BY <1>7 DEF Attempt, NoAttempt, Retrieve
<1>8. ASSUME NEW w \in Workers, Deliver(w)
      PROVE  Mail!EmailNext \/ UNCHANGED Mail!emailVars
  <2>1. worker[w].order \in Orders /\ Automatic \in Mail!Kinds
    BY <1>1, <1>8 DEF WorkersAreInformed, Deliver, Mail!Kinds
  <2>. QED BY <1>2, <1>8, <2>1 DEF Deliver, Mail!EmailNext, Mail!Deliver
<1>9. ASSUME NEW w \in Workers, Commit(w)
      PROVE  Mail!EmailNext
  BY <1>9 DEF Commit, Mail!EmailNext, Mail!Deliver
<1>10. ASSUME NEW w \in Workers, Fail(w)
       PROVE  Mail!EmailNext \/ UNCHANGED Mail!emailVars
  BY <1>2, <1>10 DEF Fail, Mail!EmailNext
<1>. QED
  BY <1>2, <1>3, <1>4, <1>5, <1>6, <1>7, <1>8, <1>9, <1>10 DEF RecoveryNext, WorkerStep

(* The instance of the proofs and the one of the model say the same. *)
LEMMA SameMail ==
  /\ Mail!EmailInit <=> MailFacts!EmailInit
  /\ Mail!EmailNext <=> MailFacts!EmailNext
  /\ Mail!emailVars = MailFacts!emailVars
  /\ Mail!EmailTypeOK <=> MailFacts!EmailTypeOK
  /\ MailFacts!EmailAssumption
<1>1. Mail!EmailInit <=> MailFacts!EmailInit
  BY DEF Mail!EmailInit, MailFacts!EmailInit, Mail!Kinds, MailFacts!Kinds
<1>2. Mail!EmailNext <=> MailFacts!EmailNext
  BY DEF Mail!FSG_NAME, MailFacts!FSG_NAME, Mail!House, MailFacts!House, Mail!Brand,
         MailFacts!Brand, Mail!From, MailFacts!From, Mail!DeliveryPayload,
         MailFacts!DeliveryPayload, Mail!Kinds, MailFacts!Kinds, Mail!Replies,
         MailFacts!Replies, Mail!Blocked, MailFacts!Blocked, Mail!MayDeliver,
         MailFacts!MayDeliver, Mail!ProviderKey, MailFacts!ProviderKey, Mail!Waiting,
         MailFacts!Waiting, Mail!Known, MailFacts!Known, Mail!Reply, MailFacts!Reply,
         Mail!Finish, MailFacts!Finish, Mail!Fulfill, MailFacts!Fulfill, Mail!EditContacts,
         MailFacts!EditContacts, Mail!EditSettings, MailFacts!EditSettings, Mail!Begin,
         MailFacts!Begin, Mail!ProviderAccepts, MailFacts!ProviderAccepts,
         Mail!ProviderReplays, MailFacts!ProviderReplays, Mail!ProviderRejects,
         MailFacts!ProviderRejects, Mail!ProviderUnavailable, MailFacts!ProviderUnavailable,
         Mail!ProviderForgets, MailFacts!ProviderForgets, Mail!CommitSent,
         MailFacts!CommitSent, Mail!CommitBlocked, MailFacts!CommitBlocked,
         Mail!CommitFailed, MailFacts!CommitFailed, Mail!Crash, MailFacts!Crash,
         Mail!Deliver, MailFacts!Deliver, Mail!EmailNext, MailFacts!EmailNext,
         Mail!emailStore, MailFacts!emailStore, Mail!mailData, MailFacts!mailData,
         Mail!provider, MailFacts!provider
<1>3. Mail!emailVars = MailFacts!emailVars
  BY DEF Mail!emailVars, MailFacts!emailVars, Mail!mailData, MailFacts!mailData
<1>4. Mail!EmailTypeOK <=> MailFacts!EmailTypeOK
  BY DEF Mail!EmailTypeOK, MailFacts!EmailTypeOK, Mail!Outcomes, MailFacts!Outcomes,
         Mail!Kinds, MailFacts!Kinds, Mail!Replies, MailFacts!Replies, Mail!Names,
         MailFacts!Names, Mail!DeliveryPayloads, MailFacts!DeliveryPayloads, Mail!FSG_NAME,
         MailFacts!FSG_NAME
<1>5. MailFacts!EmailAssumption
  BY RecoveryAssumption
     DEF Mail!EmailAssumption, MailFacts!EmailAssumption, Mail!Kinds, MailFacts!Kinds,
         Mail!Replies, MailFacts!Replies
<1>. QED BY <1>1, <1>2, <1>3, <1>4, <1>5

(* The invariant of delivery, kept by its steps in the instance of the model. *)
LEMMA MailInvariant ==
  ASSUME MailFacts!EmailInv, Mail!EmailNext \/ UNCHANGED Mail!emailVars
  PROVE  MailFacts!EmailInv'
<1>1. MailFacts!EmailNext \/ UNCHANGED MailFacts!emailVars
  <2>1. ASSUME UNCHANGED Mail!emailVars
        PROVE  UNCHANGED MailFacts!emailVars
    BY <2>1 DEF Mail!emailVars, MailFacts!emailVars, Mail!mailData, MailFacts!mailData
  <2>. QED BY <2>1, SameMail
<1>2. MailFacts!EmailAssumption
  BY SameMail
<1>. QED BY <1>1, <1>2, MailFacts!EmailNextInv

(* Every step of a worker is one of the delivery proved about, or none. *)
LEMMA NextIsMailTransaction ==
  ASSUME RecoveryInv, [RecoveryNext]_recoveryVars
  PROVE  /\ MailFacts!EmailNext \/ UNCHANGED MailFacts!emailVars
         /\ MailFacts!EmailAssumption
<1>1. ASSUME UNCHANGED recoveryVars
      PROVE  UNCHANGED MailFacts!emailVars
  BY <1>1, FulfilledStay
     DEF recoveryVars, mailVars, vars, storeVars, MailFacts!emailVars, MailFacts!mailData
<1>2. ASSUME RecoveryNext
      PROVE  MailFacts!EmailNext \/ UNCHANGED MailFacts!emailVars
  <2>1. Mail!EmailNext \/ UNCHANGED Mail!emailVars
    BY <1>2, NextIsMailStep
  <2>2. ASSUME UNCHANGED Mail!emailVars
        PROVE  UNCHANGED MailFacts!emailVars
    BY <2>2 DEF Mail!emailVars, MailFacts!emailVars, Mail!mailData, MailFacts!mailData
  <2>. QED BY <2>1, <2>2, SameMail
<1>. QED BY <1>1, <1>2, SameMail

(***************************************************************************)
(* The theorems.                                                           *)
(***************************************************************************)
LEMMA RecoveryInitInv == RecoveryInit => RecoveryInv
<1>. SUFFICES ASSUME RecoveryInit PROVE RecoveryInv
  OBVIOUS
<1>1. Inv
  BY InitInv DEF RecoveryInit
<1>2. MailFacts!EmailInv
  BY SameMail, MailFacts!EmailInitInv DEF RecoveryInit
<1>3. WorkersAreInformed /\ queue \in Seq(Orders)
  BY DEF RecoveryInit, WorkersAreInformed, Idle, Worker, SessionStates
<1>4. StatusIsJustified
  BY DEF RecoveryInit, Init, StatusIsJustified, Placed
<1>. QED BY <1>1, <1>2, <1>3, <1>4 DEF RecoveryInv

(* Every step of shop, Stripe, workers and mail keeps the invariant. *)
LEMMA RecoveryNextInv == RecoveryInv /\ [RecoveryNext]_recoveryVars => RecoveryInv'
<1>1. ASSUME RecoveryInv, RecoveryNext
      PROVE  RecoveryInv'
  <2>1. Inv'
    BY <1>1, NextIsShopStep, NextInv DEF RecoveryInv
  <2>2. MailFacts!EmailInv'
    BY <1>1, NextIsMailStep, MailInvariant DEF RecoveryInv
  <2>3. WorkersAreInformed' /\ queue' \in Seq(Orders)
    BY <1>1, NextInforms, NextQueues
  <2>4. StatusIsJustified'
    <3>1. StatusIsJustified
      BY <1>1 DEF RecoveryInv
    <3>2. ASSUME UNCHANGED <<vars, session>>
          PROVE  StatusIsJustified'
      BY <3>1, <3>2, StillJustified DEF vars, storeVars
    <3>3. ASSUME NEW o \in Orders, OpenSession(o) \/ Buy(o) \/ BuyerActs(o) \/ CoolDown(o)
          PROVE  StatusIsJustified'
      BY <1>1, <3>2, <3>3, BuyIsJustified, SessionIsJustified DEF CoolDown, stripeVars
    <3>4. CASE \/ \E e \in events : DropEvent(e) \/ \E w \in Webhooks : Receive(w, e)
               \/ \E w \in Visitors, o \in Orders : Visit(w, o)
               \/ StartSweep \/ SweepNext \/ ProviderActs
      BY <3>2, <3>4 DEF DropEvent, Receive, Visit, StartSweep, SweepNext, ProviderActs, stripeVars
    <3>5. ASSUME NEW w \in Workers, WorkerStep(w) \/ Fail(w)
          PROVE  StatusIsJustified'
      BY <1>1, <3>2, <3>5, SettleIsJustified
         DEF WorkerStep, Attempt, NoAttempt, Retrieve, Deliver, Commit, Fail, stripeVars
    <3>. QED BY <1>1, <3>3, <3>4, <3>5 DEF RecoveryNext
  <2>. QED BY <2>1, <2>2, <2>3, <2>4 DEF RecoveryInv
<1>2. ASSUME RecoveryInv, UNCHANGED recoveryVars
      PROVE  RecoveryInv'
  <2>1. Inv'
    BY <1>2, NextInv DEF RecoveryInv, recoveryVars
  <2>2. MailFacts!EmailInv'
    <3>1. UNCHANGED Mail!emailVars
      BY <1>2, FulfilledStay
         DEF recoveryVars, mailVars, vars, storeVars, Mail!emailVars, Mail!mailData
    <3>. QED BY <1>2, <3>1, MailInvariant DEF RecoveryInv
  <2>3. WorkersAreInformed' /\ queue' \in Seq(Orders)
    BY <1>2, WorkersStay DEF RecoveryInv, recoveryVars, stripeVars, retryVars, WorkersAreInformed
  <2>4. StatusIsJustified'
    BY <1>2, StillJustified DEF RecoveryInv, recoveryVars, stripeVars, vars, storeVars
  <2>. QED BY <2>1, <2>2, <2>3, <2>4 DEF RecoveryInv
<1>. QED BY <1>1, <1>2

(* The inductive invariant: the shop's, the mail's, and what links workers, orders and Stripe. *)
THEOREM RecoveryInvariant == RecoverySpec => []RecoveryInv
BY RecoveryInitInv, RecoveryNextInv, PTL DEF RecoverySpec

(* Every reachable state of shop, sessions, workers and mails has its type. *)
THEOREM RecoveryTypeCorrect == RecoverySpec => []RecoveryTypeOK
<1>1. RecoveryInv => RecoveryTypeOK
  <2>. SUFFICES ASSUME RecoveryInv PROVE RecoveryTypeOK
    OBVIOUS
  <2>1. MailFacts!EmailTypeOK
    BY DEF RecoveryInv, MailFacts!EmailInv
  <2>2. Mail!EmailTypeOK
    BY <2>1, SameMail
  <2>. QED BY <2>2 DEF RecoveryInv, Inv, WorkersAreInformed, Worker, RecoveryTypeOK
<1>. QED BY <1>1, RecoveryInvariant, PTL

(* Whatever reports are lost, late, repeated or out of order and whatever workers
   act on, an order is settled only on money Stripe collected and fails only when
   none will come, for any number of orders, webhooks and visitors. *)
THEOREM StatusesFollowPayments == RecoverySpec => []StatusFollowsPayment
<1>1. RecoveryInv => StatusFollowsPayment
  BY DEF RecoveryInv, StatusIsJustified, StatusFollowsPayment, Status, TERMINAL
<1>. QED BY <1>1, RecoveryInvariant, PTL

(* All workers together change orders and leads as the shop of Fulfillment does. *)
THEOREM RecoveryImplementsShop == RecoverySpec => ShopImplemented
<1>1. RecoveryInit => Init
  BY DEF RecoveryInit
<1>2. RecoveryInv /\ [RecoveryNext]_recoveryVars => [Next]_vars
  BY NextIsShopStep DEF RecoveryInv, recoveryVars
<1>. QED BY <1>1, <1>2, RecoveryInvariant, PTL DEF RecoverySpec, ShopImplemented, Spec

(* What the shop promises in every state, and of every step. *)
ShopPromises ==
  /\ ExclusiveSales /\ ExactFulfillment /\ MoneyIsAccountedFor
  /\ StockIsSellable /\ RevenueIsEarned /\ ListDiffersByTypeOnly

(* Webhooks, visitors and sweeps that race, repeat themselves and die in between take
   none of the shop's promises away: one owner at a time, whole lots, no money in
   limbo, settled for good, sold as offered, and true reports of it all. *)
THEOREM RecoveryKeepsPromises ==
  RecoverySpec => []ShopPromises /\ SettledIsFinal /\ SoldAsOffered /\ MarketImplemented
<1>1. Spec => []ShopPromises
  BY SalesAreExclusive, FulfillmentIsExact, MoneyIsAccounted, StockOnShowIsSellable,
     RevenueIsEarnedAlways, ListIsShopAndOtherTypes, PTL DEF ShopPromises
<1>. QED BY <1>1, RecoveryImplementsShop, SettledOrdersAreFinal, LeadsAreSoldAsOffered,
            ImplementsMarket, PTL DEF ShopImplemented

(* All workers together deliver as EmailDelivery does. *)
THEOREM RecoveryImplementsMail == RecoverySpec => MailImplemented
<1>1. RecoveryInit => Mail!EmailInit
  BY DEF RecoveryInit
<1>2. RecoveryInv /\ [RecoveryNext]_recoveryVars => [Mail!EmailNext]_(Mail!emailVars)
  <2>1. ASSUME UNCHANGED recoveryVars
        PROVE  UNCHANGED Mail!emailVars
    BY <2>1, FulfilledStay
       DEF recoveryVars, mailVars, vars, storeVars, Mail!emailVars, Mail!mailData
  <2>. QED BY <2>1, NextIsMailStep
<1>. QED BY <1>1, <1>2, RecoveryInvariant, PTL DEF RecoverySpec, MailImplemented, Mail!EmailSpec

(* What a delivery promises of every step, in the instance the model uses. *)
LotsStayMailed ==
  \A o \in Orders :
    /\ sentAt[o] \/ Mail!Blocked(o) => inbox'[o][Automatic] = inbox[o][Automatic]
    /\ \A k \in resent[o] : inbox'[o][k] = inbox[o][k]

LotsStayBlocked ==
  \A o \in Orders : Mail!Blocked(o) => latest'[o] \in {"email.blocked", "email.resent"}

LotsConflictByEdit ==
  \A o \in Orders :
    /\ tx # NoTx /\ tx.order = o /\ tx.reply = "conflict"
    /\ latest'[o] = "email.blocked"
    => \A m \in remembered :
         m.key = <<o, tx.kind>> => ~Mail!SameMail(m.payload, o)

(* Whatever a worker read before: once an order's mail is recorded as delivered, or
   refused for good, no webhook, visitor or sweep mails it, and none of them lifts
   the block; and none parks it for conflicting with a mail that says the same. *)
THEOREM RecoveryKeepsMailPromises ==
  RecoverySpec =>
    Mail!RecordedSendsNoMore /\ Mail!OnlyResendUnblocks /\ Mail!ConflictsComeOfEdits
<1>1. RecoveryInv /\ [RecoveryNext]_recoveryVars => [LotsStayMailed]_(Mail!emailVars)
  <2>. SUFFICES ASSUME RecoveryInv, [RecoveryNext]_recoveryVars
                PROVE  LotsStayMailed \/ UNCHANGED Mail!emailVars
    OBVIOUS
  <2>1. /\ MailFacts!EmailNext \/ UNCHANGED MailFacts!emailVars
        /\ MailFacts!EmailInv /\ MailFacts!EmailAssumption
    BY NextIsMailTransaction DEF RecoveryInv
  <2>2. MailFacts!SendsNoMore
    BY <2>1, MailFacts!NextSendsNoMore
  <2>. QED BY <2>2 DEF MailFacts!SendsNoMore, LotsStayMailed, Mail!Blocked, MailFacts!Blocked
<1>2. RecoveryInv /\ [RecoveryNext]_recoveryVars => [LotsStayBlocked]_(Mail!emailVars)
  <2>. SUFFICES ASSUME RecoveryInv, [RecoveryNext]_recoveryVars
                PROVE  LotsStayBlocked \/ UNCHANGED Mail!emailVars
    OBVIOUS
  <2>1. /\ MailFacts!EmailNext \/ UNCHANGED MailFacts!emailVars
        /\ MailFacts!EmailInv /\ MailFacts!EmailAssumption
    BY NextIsMailTransaction DEF RecoveryInv
  <2>2. MailFacts!StaysBlocked
    BY <2>1, MailFacts!NextStaysBlocked
  <2>. QED BY <2>2 DEF MailFacts!StaysBlocked, LotsStayBlocked, Mail!Blocked, MailFacts!Blocked
<1>3. RecoveryInv /\ [RecoveryNext]_recoveryVars => [LotsConflictByEdit]_(Mail!emailVars)
  <2>. SUFFICES ASSUME RecoveryInv PROVE LotsConflictByEdit
    OBVIOUS
  <2>1. MailFacts!EmailInv /\ MailFacts!EmailAssumption
    BY SameMail DEF RecoveryInv
  <2>2. MailFacts!ConflictIsEdit
    BY <2>1, MailFacts!HeldConflictIsEdit
  <2>3. \A p, o : Mail!SameMail(p, o) <=> MailFacts!SameMail(p, o)
    BY DEF Mail!SameMail, MailFacts!SameMail, Mail!SameName, MailFacts!SameName,
           Mail!House, MailFacts!House, Mail!FSG_NAME, MailFacts!FSG_NAME
  <2>. QED BY <2>2, <2>3 DEF MailFacts!ConflictIsEdit, LotsConflictByEdit
<1>. QED BY <1>1, <1>2, <1>3, RecoveryInvariant, PTL
         DEF RecoverySpec, Mail!RecordedSendsNoMore, Mail!OnlyResendUnblocks,
             Mail!ConflictsComeOfEdits, LotsStayMailed, LotsStayBlocked, LotsConflictByEdit

(* A lot is mailed once, whichever webhooks, visitors and sweeps deliver it, fail
   or die on the way, while the provider remembers its key. *)
THEOREM LotsAreMailedOnce == RecoverySpec => []MailedOnce
<1>1. RecoveryInv => MailedOnce
  <2>. SUFFICES ASSUME RecoveryInv PROVE MailedOnce
    OBVIOUS
  <2>1. MailFacts!OncePerKey /\ MailFacts!EmailTypeOK
    BY DEF RecoveryInv, MailFacts!EmailInv
  <2>. QED BY <2>1, RecoveryAssumption
           DEF MailedOnce, MailFacts!OncePerKey, MailFacts!EmailTypeOK, MailFacts!Kinds, Mail!EmailAssumption
<1>. QED BY <1>1, RecoveryInvariant, PTL
=============================================================================
