------------------------------ MODULE Recovery ------------------------------
(***************************************************************************)
(* From payment to mailbox: webhook_service.py, the buyer's refresh and    *)
(* the recovery sweep of checkout_reconciliation_service.py, working side  *)
(* by side on the orders of Fulfillment and the mail of EmailDelivery.     *)
(*                                                                         *)
(* A worker is a webhook request, a refresh request or the recovery job.   *)
(* Its transactions and network calls are its steps; between two of them   *)
(* anything may happen, and it acts on what it read before (order and seen *)
(* in its record).  A worker may fail or die at every step.  The per-order *)
(* file lock is held by a refresh from its first step to its last, death   *)
(* included, so it is read off the workers.                                *)
(*                                                                         *)
(* Stripe is external: a session changes on its own, reports each change   *)
(* in an event that may come late, repeatedly, out of order or never, and  *)
(* answers a retrieval with its present state.                             *)
(*                                                                         *)
(* The sweep looks at orders of the last seven days only; the model is     *)
(* that week.  Administrators' resends are left to EmailDelivery.          *)
(***************************************************************************)
EXTENDS Fulfillment, Sequences

CONSTANTS
  Webhooks,     \* concurrent webhook requests
  Visitors,     \* concurrent refresh requests
  Job,          \* the recovery job (max_instances=1)
  Limit,        \* orders per sweep (10 in the code)
  IntentOf,     \* the payment a session collects
  Reported,     \* session changes Stripe sends the endpoint events for
  ResendKeys, Automatic, Companies, Senders, Contacts, NoTx, MaxCopies

VARIABLES
  session,    \* Stripe: the Checkout session of each order
  events,     \* Stripe: reports it may still deliver
  worker,     \* where each worker is, and what it read
  queue,      \* ids the running sweep has yet to refresh
  attempted,  \* orders by time of their latest ATTEMPT entry, a sequence
  cooling,    \* orders with an ATTEMPT entry younger than RETRY_SECONDS
  company, sender, contacts, sentAt, latest, resent, tx, remembered, inbox

Refreshers == Visitors \cup {Job}
Workers == Webhooks \cup Refreshers

stripeVars == <<session, events>>
retryVars == <<queue, attempted, cooling>>
mailVars == <<company, sender, contacts, sentAt, latest, resent, tx, remembered, inbox>>
recoveryVars == <<vars, stripeVars, worker, retryVars, mailVars>>

FulfilledOrders == {o \in Orders : Placed(o) /\ orders[o].status = "FULFILLED"}

(* Within the week of the model the provider forgets no key. *)
Mail == INSTANCE EmailDelivery WITH fulfilled <- FulfilledOrders, forgotten <- {}

SessionStates == {"none", "open", "processing", "paid", "declined", "expired"}
Outcomes == {"processing", "paid", "declined", "expired"}

Idle == [at |-> "idle", order |-> None, seen |-> "none"]

ASSUME RecoveryAssumption ==
  /\ IsFiniteSet(Orders)
  /\ Job \notin Webhooks \cup Visitors
  /\ Webhooks \cap Visitors = {}
  /\ Limit \in Nat \ {0}
  /\ Reported \subseteq Outcomes
  /\ IntentOf \in [Orders -> Intents]
  /\ Mail!EmailAssumption

RecoveryTypeOK ==
  /\ FulfillmentTypeOK
  /\ Mail!EmailTypeOK
  /\ session \in [Orders -> SessionStates]
  /\ events \subseteq [order: Orders, seen: Reported]
  /\ worker \in [Workers ->
       [at: {"idle", "check", "retrieve", "settle", "deliver", "mailing"},
        order: Orders \cup {None}, seen: SessionStates]]
  /\ queue \in Seq(Orders)
  /\ cooling \subseteq Orders

RecoveryInit ==
  /\ Init
  /\ Mail!EmailInit
  /\ session = [o \in Orders |-> "none"]
  /\ events = {}
  /\ worker = [w \in Workers |-> Idle]
  /\ queue = <<>>
  /\ attempted = <<>>
  /\ cooling = {}

(* A write transaction waits for the one that is open. *)
WriteLockFree == tx = NoTx

Go(w, at) == worker' = [worker EXCEPT ![w].at = at]
Done(w) == worker' = [worker EXCEPT ![w] = Idle]

-----------------------------------------------------------------------------
(***************************************************************************)
(* Buying.  The buyer is sent to Stripe only when create_checkout returns. *)
(***************************************************************************)
OpenSession(o) ==
  /\ checkout[o] = "calling"
  /\ session[o] = "none"
  /\ session' = [session EXCEPT ![o] = "open"]
  /\ UNCHANGED <<vars, events, worker, retryVars, mailVars>>

Buy(o) ==
  /\ \/ WriteLockFree /\ \E request \in Requests : CreateOrder(o, request)
     \/ WriteLockFree /\ session[o] # "none" /\ CheckoutCreated(o)
     \/ WriteLockFree /\ CheckoutRefused(o)
     \/ CheckoutLost(o)
  /\ UNCHANGED <<stripeVars, worker, retryVars, mailVars>>

SessionMoves(o, from, to) ==
  /\ session[o] = from
  /\ session' = [session EXCEPT ![o] = to]
  /\ events' = IF to \in Reported THEN events \cup {[order |-> o, seen |-> to]} ELSE events
  /\ UNCHANGED <<vars, worker, retryVars, mailVars>>

BuyerActs(o) ==
  \/ checkout[o] = "returned" /\ SessionMoves(o, "open", "paid")
  \/ checkout[o] = "returned" /\ SessionMoves(o, "open", "processing")
  \/ SessionMoves(o, "processing", "paid")
  \/ SessionMoves(o, "processing", "declined")
  \/ SessionMoves(o, "open", "expired")

(* Acknowledged, or given up. *)
DropEvent(e) ==
  /\ events' = events \ {e}
  /\ UNCHANGED <<vars, session, worker, retryVars, mailVars>>

-----------------------------------------------------------------------------
(***************************************************************************)
(* WebhookService.process.  A completed session that is not paid yet is    *)
(* acknowledged and ignored.                                               *)
(***************************************************************************)
(* Mutant: a completed session that is not paid yet is taken for a failure. *)
ActsOnEveryReport(seen) == seen \in SessionStates

Acts(seen) == seen # "processing"

Receive(w, e) ==
  /\ worker[w] = Idle
  /\ Acts(e.seen)
  /\ worker' = [worker EXCEPT ![w] = [at |-> "settle", order |-> e.order, seen |-> e.seen]]
  /\ UNCHANGED <<vars, stripeVars, retryVars, mailVars>>

ReportOf(o, seen) ==
  [id |-> SessionOf[o], order |-> o, client |-> o, paid |-> seen = "paid",
   intent |-> IF seen = "paid" THEN IntentOf[o] ELSE None, terms |-> TRUE]

ASSUME ReportsAssumption == \A o \in Orders, seen \in SessionStates : ReportOf(o, seen) \in Payloads

(* Mutant: the settlement trusts the status read before the call to Stripe. *)
SettleOnSnapshot(w) ==
  LET o == worker[w].order
      p == ReportOf(o, worker[w].seen)
  IN  /\ worker[w].at = "settle"
      /\ WriteLockFree
      /\ IF p.paid
         THEN \E l \in Eligible(orders[o].price, orders[o].municipality) :
                /\ allocations' = allocations \cup {AllocationFor(o, l)}
                /\ Put(o, Settled(p, "FULFILLED"))
                /\ UNCHANGED <<rules, leads, checkout, clock, zone>>
         ELSE PaymentFailed(p)
      /\ IF p.paid \/ w \in Refreshers THEN Go(w, "deliver") ELSE Done(w)
      /\ UNCHANGED <<stripeVars, retryVars, mailVars>>

(* payment_succeeded and then the mail, or payment_failed; a refresh goes on
   to the mail either way, a webhook only when the order was paid. *)
Settle(w) ==
  LET o == worker[w].order
      p == ReportOf(o, worker[w].seen)
  IN  /\ worker[w].at = "settle"
      /\ WriteLockFree
      /\ IF p.paid THEN PaymentSucceeded(p) ELSE PaymentFailed(p)
      /\ IF p.paid \/ w \in Refreshers THEN Go(w, "deliver") ELSE Done(w)
      /\ UNCHANGED <<stripeVars, retryVars, mailVars>>

-----------------------------------------------------------------------------
(***************************************************************************)
(* EmailService.deliver without a resend key, called by a worker.          *)
(***************************************************************************)
Deliver(w) ==
  LET o == worker[w].order
  IN  /\ worker[w].at = "deliver"
      /\ WriteLockFree
      /\ \/ Go(w, "mailing") /\ UNCHANGED vars /\ Mail!Begin(o, Automatic)
         \/ ~Mail!MayDeliver(o, Automatic) /\ Done(w) /\ UNCHANGED <<vars, mailVars>>
      /\ UNCHANGED <<stripeVars, retryVars>>

ProviderActs ==
  /\ UNCHANGED <<vars, stripeVars, worker, retryVars>>
  /\ \/ \E answer \in {"accepted", "unconfirmed"} : Mail!ProviderAccepts(answer)
     \/ Mail!ProviderReplays
     \/ Mail!ProviderRejects
     \/ Mail!ProviderUnavailable

Commit(w) ==
  /\ worker[w].at = "mailing"
  /\ Done(w)
  /\ UNCHANGED <<vars, stripeVars, retryVars>>
  /\ Mail!CommitSent \/ Mail!CommitBlocked \/ Mail!CommitFailed

-----------------------------------------------------------------------------
(***************************************************************************)
(* CheckoutReconciliationService.                                          *)
(***************************************************************************)
LockFree(o) == \A w \in Refreshers : worker[w].order # o

(* refresh: the file lock with timeout 0; a busy lock answers the stored state. *)
Refresh(w, o) ==
  /\ worker[w] = Idle
  /\ Placed(o)
  /\ LockFree(o)
  /\ worker' = [worker EXCEPT ![w] = [at |-> "check", order |-> o, seen |-> "none"]]

Visit(w, o) ==
  /\ Refresh(w, o)
  /\ UNCHANGED <<vars, stripeVars, retryVars, mailVars>>

(* Nothing to do, delivery blocked, or the last attempt is too recent. *)
NothingToDo(o) ==
  \/ orders[o].status \in {"FAILED", "FULFILLMENT_FAILED"}
  \/ orders[o].status = "FULFILLED" /\ sentAt[o]
  \/ Mail!Blocked(o)
  \/ o \in cooling

LastAttempt(o) == IF \E i \in DOMAIN attempted : attempted[i] = o
                  THEN CHOOSE i \in DOMAIN attempted : attempted[i] = o
                  ELSE 0

WithAttempt(o) ==
  LET Other(q) == q # o
  IN  Append(SelectSeq(attempted, Other), o)

(* The first transaction of _refresh records the attempt and takes along the
   order's status and session id, read once. *)
Attempt(w) ==
  LET o == worker[w].order
  IN  /\ worker[w].at = "check"
      /\ WriteLockFree
      /\ ~NothingToDo(o)
      /\ attempted' = WithAttempt(o)
      /\ cooling' = cooling \cup {o}
      /\ IF orders[o].status # "FULFILLED" /\ orders[o].checkoutId # None
         THEN Go(w, "retrieve")
         ELSE Go(w, "deliver")
      /\ UNCHANGED <<vars, stripeVars, queue, mailVars>>

NoAttempt(w) ==
  /\ worker[w].at = "check"
  /\ WriteLockFree
  /\ NothingToDo(worker[w].order)
  /\ Done(w)
  /\ UNCHANGED <<vars, stripeVars, retryVars, mailVars>>

(* No lock is held over this call.  Complete and paid, or expired, is settled;
   an open, processing or declined session is left alone. *)
Retrieve(w) ==
  LET o == worker[w].order
  IN  /\ worker[w].at = "retrieve"
      /\ worker' = [worker EXCEPT
           ![w].seen = session[o],
           ![w].at = IF session[o] \in {"paid", "expired"} THEN "settle" ELSE "deliver"]
      /\ UNCHANGED <<vars, stripeVars, retryVars, mailVars>>

(* Mutant: the sweep looks at unpaid orders only. *)
UnpaidCandidates ==
  {o \in Orders : Placed(o) /\ ~Mail!Blocked(o) /\ orders[o].status \in {"PENDING", "PAID"}}

(* recover_pending: the orders attempted longest ago, never attempted first. *)
Candidates ==
  {o \in Orders :
     /\ Placed(o)
     /\ ~Mail!Blocked(o)
     /\ \/ orders[o].status \in {"PENDING", "PAID"}
        \/ orders[o].status = "FULFILLED" /\ ~sentAt[o]}

(* Mutant: the sweep takes the orders as they come. *)
PrecedesInAnyOrder(o, q) == TRUE

Precedes(o, q) == LastAttempt(o) <= LastAttempt(q)

Oldest(list) ==
  LET listed == {list[i] : i \in DOMAIN list}
  IN  /\ Cardinality(listed) = Len(list)
      /\ \A i, j \in DOMAIN list : i < j => Precedes(list[i], list[j])
      /\ \A o \in listed, q \in Candidates \ listed : Precedes(o, q)

SweepSize ==
  IF Cardinality(Candidates) < Limit THEN Cardinality(Candidates) ELSE Limit

StartSweep ==
  /\ worker[Job] = Idle
  /\ queue = <<>>
  /\ Candidates # {}
  /\ \E list \in [1..SweepSize -> Candidates] : Oldest(list) /\ queue' = list
  /\ UNCHANGED <<vars, stripeVars, worker, attempted, cooling, mailVars>>

SweepNext ==
  /\ worker[Job] = Idle
  /\ queue # <<>>
  /\ queue' = Tail(queue)
  /\ IF LockFree(Head(queue)) THEN Refresh(Job, Head(queue)) ELSE UNCHANGED worker
  /\ UNCHANGED <<vars, stripeVars, attempted, cooling, mailVars>>

(* RETRY_SECONDS have passed since the latest attempt. *)
CoolDown(o) ==
  /\ cooling' = cooling \ {o}
  /\ UNCHANGED <<vars, stripeVars, worker, queue, attempted, mailVars>>

(* A worker raises, or its process dies: an open transaction is rolled back
   and its lock released.  The sweep outlives an exception, not its process. *)
Fail(w) ==
  /\ worker[w] # Idle
  /\ Done(w)
  /\ UNCHANGED <<vars, stripeVars, attempted, cooling>>
  /\ IF worker[w].at = "mailing" THEN Mail!Crash ELSE UNCHANGED mailVars
  /\ \/ queue' = queue
     \/ w = Job /\ queue' = <<>>

-----------------------------------------------------------------------------
WorkerStep(w) ==
  \/ Attempt(w) \/ NoAttempt(w) \/ Retrieve(w) \/ Settle(w) \/ Deliver(w) \/ Commit(w)

RecoveryNext ==
  \/ \E o \in Orders : OpenSession(o) \/ Buy(o) \/ BuyerActs(o) \/ CoolDown(o)
  \/ \E e \in events : DropEvent(e) \/ \E w \in Webhooks : Receive(w, e)
  \/ \E w \in Visitors, o \in Orders : Visit(w, o)
  \/ StartSweep
  \/ SweepNext
  \/ \E w \in Workers : WorkerStep(w) \/ Fail(w)
  \/ ProviderActs

RecoverySpec == RecoveryInit /\ [][RecoveryNext]_recoveryVars

(***************************************************************************)
(* Fairness.  The scheduler runs the job every minute and every call has a *)
(* timeout, so steps that stay possible are taken; no single order meets a *)
(* failure every time it comes to a step.  Nothing is assumed of webhooks, *)
(* of visitors' coming, or of the buyer.                                   *)
(***************************************************************************)
Working(o) == {w \in Refreshers : worker[w].order = o}

MailAnswered ==
  /\ UNCHANGED <<vars, stripeVars, worker, retryVars>>
  /\ Mail!Answered

CommitAnswer(w) ==
  /\ tx # NoTx /\ tx.reply \in {"accepted", "rejected", "conflict"}
  /\ Commit(w)

Scheduling ==
  /\ WF_recoveryVars(StartSweep)
  /\ WF_recoveryVars(SweepNext)
  /\ WF_recoveryVars(\E w \in Workers : WorkerStep(w))
  /\ WF_recoveryVars(ProviderActs)
  /\ \A o \in Orders : WF_recoveryVars(CoolDown(o))

PaymentFairness ==
  \A o \in Orders :
    /\ SF_recoveryVars(SweepNext /\ Head(queue) = o /\ LockFree(o))
    /\ SF_recoveryVars(\E w \in Working(o) : Attempt(w))
    /\ SF_recoveryVars(\E w \in Working(o) : Retrieve(w))
    /\ SF_recoveryVars(\E w \in Working(o) : Settle(w))

MailFairness ==
  \A o \in Orders :
    /\ SF_recoveryVars(\E w \in Working(o) : Deliver(w))
    /\ SF_recoveryVars(tx # NoTx /\ tx.order = o /\ MailAnswered)
    /\ SF_recoveryVars(\E w \in Workers : worker[w].order = o /\ CommitAnswer(w))

FairPaymentSpec == RecoverySpec /\ Scheduling /\ PaymentFairness
FairRecoverySpec == FairPaymentSpec /\ MailFairness

-----------------------------------------------------------------------------
Status(o) == IF Placed(o) THEN orders[o].status ELSE "none"

(* An order is settled only on money Stripe collected, and fails only when
   none will come: with stale snapshots, late or repeated events and several
   workers on one order, no order is given away and none is closed on a buyer
   who paid. *)
StatusFollowsPayment ==
  \A o \in Orders :
    /\ Status(o) \in TERMINAL => session[o] = "paid"
    /\ Status(o) = "FAILED" => session[o] # "paid"

(* Whoever reports, whatever was read before the call to Stripe and however often a
   payment comes in, orders and leads change by the transactions of Fulfillment only;
   all that is proved of these holds here. *)
ShopImplemented == Spec

(* Whoever calls it, every delivery obeys EmailDelivery: orders are fulfilled
   and mailed in transactions that never overlap. *)
MailImplemented == Mail!EmailSpec

(* Nobody gets the list of an order twice, though a webhook, visitors and the sweep
   may deliver it side by side and each may die after the provider took the mail. *)
MailedOnce == \A o \in Orders : inbox[o][Automatic] <= 1

Saved(o) == Placed(o) /\ orders[o].checkoutId # None

(* Webhooks may all be lost: an order whose session is stored is settled once
   it is paid, and closed once it expires, by the sweep alone. *)
PaymentIsRecovered ==
  \A o \in Orders :
    /\ Saved(o) /\ session[o] = "paid" ~> Status(o) \in TERMINAL
    /\ Saved(o) /\ session[o] = "expired" ~> Status(o) = "FAILED"

(* A fulfilled order is in the end mailed, or parked for the administrator,
   whatever attempts failed or died on the way. *)
LotIsDelivered ==
  \A o \in Orders :
    Status(o) = "FULFILLED" ~> sentAt[o] \/ Mail!Blocked(o)
=============================================================================
