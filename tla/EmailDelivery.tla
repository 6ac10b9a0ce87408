--------------------------- MODULE EmailDelivery ---------------------------
(***************************************************************************)
(* EmailService.deliver: one write transaction that checks the order, asks *)
(* the mail provider and records the answer, holding SQLite's write lock   *)
(* over the network call.  The variable tx is that open transaction, so a  *)
(* crash may strike between the provider's acceptance and the commit, and  *)
(* nothing else may write the database meanwhile.                          *)
(*                                                                         *)
(* The provider is external: it remembers an idempotency key for a while   *)
(* (24 hours), answers a repeated key without sending, and                 *)
(* refuses one whose payload changed.  Of the audit log the module keeps   *)
(* the latest of email.blocked, email.sent and email.resent per order, and *)
(* the keys of the email.resent entries: all that the code ever reads.     *)
(***************************************************************************)
EXTENDS Integers, FiniteSets

CONSTANTS
  Orders,
  ResendKeys,   \* Idempotency-Key headers an administrator may send
  Automatic,    \* no resend key: the webhook, a refresh or the recovery job
  Companies,    \* company names the settings may hold
  Senders,      \* sender settings: display name and address
  Contacts,     \* what the contacts of an order may say
  NoTx,
  MaxCopies     \* bound on the messages counted per order and key

Kinds == ResendKeys \cup {Automatic}
Replies == {"none", "accepted", "rejected", "conflict", "unconfirmed"}
Outcomes == {"none", "email.blocked", "email.sent", "email.resent"}

ASSUME EmailAssumption ==
  /\ Automatic \notin ResendKeys
  /\ MaxCopies \in Nat \ {0}
  /\ \A s \in Senders : s = [name |-> s.name, address |-> s.address]
  /\ NoTx \notin [order: Orders, kind: Kinds, reply: Replies]

VARIABLES
  fulfilled,   \* orders whose status is FULFILLED
  company,     \* setting company_name
  sender,      \* setting sender_email
  contacts,    \* the lead columns the mail of an order shows
  sentAt,      \* email_sent_at IS NOT NULL
  latest,      \* latest email.blocked / email.sent / email.resent entry
  resent,      \* resend keys with an email.resent entry
  tx,          \* the open delivery transaction
  remembered,  \* provider: keys it would recognize, with their payload
  forgotten,   \* provider: keys it has ever forgotten
  inbox        \* provider: messages accepted, per order and kind

emailStore == <<sentAt, latest, resent>>
mailData == <<company, sender, contacts>>
provider == <<remembered, forgotten, inbox>>
emailVars == <<fulfilled, mailData, sentAt, latest, resent, tx, remembered, forgotten, inbox>>

-----------------------------------------------------------------------------
(* delivery_payload, up to its layout: of the purchase only its leads change, and
   the text, the subject and the logo depend on the brand alone. *)
FSG_NAME == "FSG Seguros"
House == {"LeadsPR", FSG_NAME}

(* Mutant: installations that store the former name render another brand. *)
BrandAsStored == company

Brand == IF company \in House THEN FSG_NAME ELSE company

From ==
  IF Brand = FSG_NAME /\ sender.name = "LeadsPR"
  THEN [sender EXCEPT !.name = FSG_NAME]
  ELSE sender

DeliveryPayload(o) == [from |-> From, brand |-> Brand, contacts |-> contacts[o]]

Names == Companies \cup {s.name : s \in Senders} \cup {FSG_NAME}
DeliveryPayloads ==
  [from: [name: Names, address: {s.address : s \in Senders}],
   brand: Names, contacts: Contacts]

EmailTypeOK ==
  /\ fulfilled \subseteq Orders
  /\ company \in Companies
  /\ sender \in Senders
  /\ contacts \in [Orders -> Contacts]
  /\ sentAt \in [Orders -> BOOLEAN]
  /\ latest \in [Orders -> Outcomes]
  /\ resent \in [Orders -> SUBSET ResendKeys]
  /\ tx \in [order: Orders, kind: Kinds, reply: Replies] \cup {NoTx}
  /\ remembered \subseteq [key: Orders \X Kinds, payload: DeliveryPayloads]
  /\ forgotten \subseteq Orders \X Kinds
  /\ inbox \in [Orders -> [Kinds -> 0..MaxCopies]]

EmailInit ==
  /\ fulfilled = {}
  /\ company \in Companies
  /\ sender \in Senders
  /\ contacts \in [Orders -> Contacts]
  /\ sentAt = [o \in Orders |-> FALSE]
  /\ latest = [o \in Orders |-> "none"]
  /\ resent = [o \in Orders |-> {}]
  /\ tx = NoTx
  /\ remembered = {}
  /\ forgotten = {}
  /\ inbox = [o \in Orders |-> [k \in Kinds |-> 0]]

(* EmailService.blocked_query *)
Blocked(o) == latest[o] = "email.blocked"

-----------------------------------------------------------------------------
(* Other write transactions; the open delivery keeps them waiting. *)
Fulfill(o) ==
  /\ tx = NoTx
  /\ fulfilled' = fulfilled \cup {o}
  /\ UNCHANGED <<mailData, emailStore, tx, provider>>

(* A synchronization stores other contact data for a lead of the order. *)
EditContacts(o) ==
  /\ tx = NoTx
  /\ \E c \in Contacts : contacts' = [contacts EXCEPT ![o] = c]
  /\ UNCHANGED <<fulfilled, company, sender, emailStore, tx, provider>>

(* SettingsService.update: one or both values in one transaction. *)
EditSettings ==
  /\ tx = NoTx
  /\ company' \in Companies
  /\ sender' \in Senders
  /\ UNCHANGED <<fulfilled, contacts, emailStore, tx, provider>>

(* Mutant: automatic attempts trust the provider to notice a repetition. *)
MayDeliverAgain(o, kind) ==
  /\ o \in fulfilled
  /\ kind = Automatic => ~Blocked(o)
  /\ kind # Automatic => kind \notin resent[o]

(* Mutant: automatic attempts ignore a permanent rejection. *)
MayDeliverBlocked(o, kind) ==
  /\ o \in fulfilled
  /\ kind = Automatic => ~sentAt[o]
  /\ kind # Automatic => kind \notin resent[o]

(* The checks of deliver, up to the provider call.  The early returns and
   errors they stand for change nothing. *)
MayDeliver(o, kind) ==
  /\ o \in fulfilled
  /\ kind = Automatic => ~sentAt[o] /\ ~Blocked(o)
  /\ kind # Automatic => kind \notin resent[o]

Begin(o, kind) ==
  /\ tx = NoTx
  /\ MayDeliver(o, kind)
  /\ tx' = [order |-> o, kind |-> kind, reply |-> "none"]
  /\ UNCHANGED <<fulfilled, mailData, emailStore, provider>>

(* Mutant: the key depends on what is sent. *)
ProviderKeyOfPayload(o, kind) == <<o, kind, DeliveryPayload(o)>>

(* delivery/<order> or resend/<order>/<key> *)
ProviderKey(o, kind) == <<o, kind>>

Waiting == tx # NoTx /\ tx.reply = "none"
Known == {m \in remembered : m.key = ProviderKey(tx.order, tx.kind)}
Reply(answer) ==
  /\ tx' = [tx EXCEPT !.reply = answer]
  /\ UNCHANGED <<fulfilled, mailData, emailStore>>

(* A new key: the message is taken; the answer may still get lost. *)
ProviderAccepts(answer) ==
  /\ Waiting
  /\ Known = {}
  /\ inbox[tx.order][tx.kind] < MaxCopies
  /\ inbox' = [inbox EXCEPT ![tx.order][tx.kind] = @ + 1]
  /\ remembered' = remembered \cup
       {[key |-> ProviderKey(tx.order, tx.kind), payload |-> DeliveryPayload(tx.order)]}
  /\ answer \in {"accepted", "unconfirmed"}
  /\ Reply(answer)
  /\ UNCHANGED forgotten

(* A known key: same payload, the first answer again; other payload, the conflict
   409 invalid_idempotent_request, which ResendClient classifies as permanent. *)
ProviderReplays ==
  /\ Waiting
  /\ \E m \in Known :
       Reply(IF m.payload = DeliveryPayload(tx.order) THEN "accepted" ELSE "conflict")
  /\ UNCHANGED provider

(* 400, 401, 403, 404, 405, 413, 422: this request sends nothing.  The key may have
   been used before: an API key that was revoked since, a sender no longer admitted. *)
ProviderRejects ==
  /\ Waiting
  /\ Reply("rejected")
  /\ UNCHANGED provider

(* 408, 429, 5xx, a broken connection, a missing configuration. *)
ProviderUnavailable ==
  /\ Waiting
  /\ Reply("unconfirmed")
  /\ UNCHANGED provider

ProviderForgets ==
  /\ \E m \in remembered :
       /\ remembered' = remembered \ {m}
       /\ forgotten' = forgotten \cup {m.key}
  /\ UNCHANGED <<fulfilled, mailData, emailStore, tx, inbox>>

Finish == tx' = NoTx /\ UNCHANGED <<fulfilled, mailData, provider>>

(* Mutant: the delivery is logged but email_sent_at stays empty. *)
CommitSentUnmarked ==
  /\ tx # NoTx /\ tx.reply = "accepted"
  /\ latest' = [latest EXCEPT ![tx.order] = "email.sent"]
  /\ UNCHANGED <<sentAt, resent>>
  /\ Finish

CommitSent ==
  /\ tx # NoTx /\ tx.reply = "accepted"
  /\ sentAt' = [sentAt EXCEPT ![tx.order] = TRUE]
  /\ IF tx.kind = Automatic
     THEN /\ latest' = [latest EXCEPT ![tx.order] = "email.sent"]
          /\ UNCHANGED resent
     ELSE /\ latest' = [latest EXCEPT ![tx.order] = "email.resent"]
          /\ resent' = [resent EXCEPT ![tx.order] = @ \cup {tx.kind}]
  /\ Finish

CommitBlocked ==
  /\ tx # NoTx /\ tx.reply \in {"rejected", "conflict"}
  /\ latest' = [latest EXCEPT ![tx.order] = "email.blocked"]
  /\ UNCHANGED <<sentAt, resent>>
  /\ Finish

(* email.failed is recorded for the operator; no decision reads it. *)
CommitFailed ==
  /\ tx # NoTx /\ tx.reply = "unconfirmed"
  /\ UNCHANGED emailStore
  /\ Finish

(* The process dies or the commit fails: the transaction is rolled back. *)
Crash ==
  /\ tx # NoTx
  /\ UNCHANGED emailStore
  /\ Finish

Deliver ==
  \/ \E o \in Orders, kind \in Kinds : Begin(o, kind)
  \/ \E answer \in {"accepted", "unconfirmed"} : ProviderAccepts(answer)
  \/ ProviderReplays \/ ProviderRejects \/ ProviderUnavailable
  \/ CommitSent \/ CommitBlocked \/ CommitFailed

EmailNext ==
  \/ \E o \in Orders : Fulfill(o) \/ EditContacts(o)
  \/ EditSettings
  \/ Deliver
  \/ Crash
  \/ ProviderForgets

EmailSpec == EmailInit /\ [][EmailNext]_emailVars

(***************************************************************************)
(* Fairness.  The recovery job tries an undelivered order every minute     *)
(* (scheduler.py:34-41); a transaction that is open ends, as the HTTP      *)
(* timeout is 15 seconds; and a provider that is asked again and again     *)
(* does not fail to answer every single time.                              *)
(***************************************************************************)
Answered ==
  \/ ProviderAccepts("accepted") \/ ProviderReplays \/ ProviderRejects

EmailFairness ==
  /\ \A o \in Orders : SF_emailVars(Begin(o, Automatic))
  /\ WF_emailVars(Deliver)
  /\ \A o \in Orders :
       /\ SF_emailVars(tx # NoTx /\ tx.order = o /\ Answered)
       /\ SF_emailVars(tx # NoTx /\ tx.order = o /\ (CommitSent \/ CommitBlocked))

FairEmailSpec == EmailSpec /\ EmailFairness

-----------------------------------------------------------------------------
(* No key ever sends twice, over crashes, lost answers and changed payloads,
   unless the provider has forgotten it: the key is stable per order (README
   "Resend delivery and retry"). *)
OncePerKey ==
  \A o \in Orders, k \in Kinds : inbox[o][k] > 1 => <<o, k>> \in forgotten

(* After a recorded delivery or a permanent rejection no automatic attempt
   sends anything, and a recorded resend key never sends again, even when the
   provider has forgotten every key. *)
RecordedSendsNoMore ==
  [][\A o \in Orders :
       /\ sentAt[o] \/ Blocked(o) => inbox'[o][Automatic] = inbox[o][Automatic]
       /\ \A k \in resent[o] : inbox'[o][k] = inbox[o][k]]_emailVars

(* Blocks survive restarts and failed retries; only a confirmed delivery by an
   administrator supersedes a permanent rejection (email_service.py:27-28). *)
OnlyResendUnblocks ==
  [][\A o \in Orders :
       Blocked(o) => latest'[o] \in {"email.blocked", "email.resent"}]_emailVars

(* The marketplace has two names: installations that store the former one send what
   they would send under the present one (template.py:45-50). *)
SameName(a, b) == a = b \/ {a, b} \subseteq House

SameMail(p, o) ==
  /\ p.contacts = contacts[o]
  /\ SameName(p.brand, company)
  /\ p.from.address = sender.address
  /\ \/ p.from.name = sender.name
     \/ company \in House /\ SameName(p.from.name, sender.name)

(* An order whose mail the provider has taken, the answer lost, is parked by a later
   attempt under the same key for conflicting with it only if the mail has come to
   say something else: a settings edit from one name of the marketplace to the other
   is no conflict.  (The other permanent refusals may park it for reasons of their own.) *)
ConflictsComeOfEdits ==
  [][\A o \in Orders :
       /\ tx # NoTx /\ tx.order = o /\ tx.reply = "conflict"
       /\ latest'[o] = "email.blocked"
       => \A m \in remembered :
            m.key = <<o, tx.kind>> => ~SameMail(m.payload, o)]_emailVars

(* Every fulfilled order is eventually delivered or parked for the administrator. *)
EventuallyDeliveredOrBlocked ==
  \A o \in Orders : o \in fulfilled ~> sentAt[o] \/ Blocked(o)
=============================================================================
