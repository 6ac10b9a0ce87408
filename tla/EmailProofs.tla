---------------------------- MODULE EmailProofs ----------------------------
(***************************************************************************)
(* Theorems about deliveries, for any number of orders, resend keys and    *)
(* settings.                                                               *)
(***************************************************************************)
EXTENDS EmailDelivery, TLAPS

Transaction == [order: Orders, kind: Kinds, reply: Replies]

(* What deliver checked before its network call still holds after it: the open
   transaction keeps every other writer out. *)
StillAllowed == tx # NoTx => MayDeliver(tx.order, tx.kind)

(* The provider knows the keys it has taken messages under, or has forgotten them. *)
TakenIsRemembered ==
  \A o \in Orders, k \in Kinds :
    inbox[o][k] > 0 => \/ <<o, k>> \in forgotten
                       \/ \E m \in remembered : m.key = ProviderKey(o, k)

(* What the provider remembers was rendered by delivery_payload. *)
Rendered(p) ==
  /\ p.brand \in House => p.brand = FSG_NAME
  /\ p.brand = FSG_NAME => p.from.name # "LeadsPR"

OneMessagePerKey ==
  /\ \A m \in remembered : Rendered(m.payload)
  /\ \A m, n \in remembered : m.key = n.key => m = n

(* A known key is refused for another payload only; the open transaction keeps the
   settings and the contacts as they were. *)
ConflictHasCause ==
  tx # NoTx /\ tx.reply = "conflict" =>
    \A m \in Known : m.payload # DeliveryPayload(tx.order)

EmailInv ==
  /\ EmailTypeOK
  /\ StillAllowed
  /\ TakenIsRemembered
  /\ OncePerKey
  /\ OneMessagePerKey
  /\ ConflictHasCause

(***************************************************************************)
(* Types.                                                                  *)
(***************************************************************************)
LEMMA PayloadType ==
  ASSUME EmailTypeOK, NEW o \in Orders
  PROVE  DeliveryPayload(o) \in DeliveryPayloads
<1>1. company \in Companies /\ sender \in Senders /\ contacts[o] \in Contacts
  BY DEF EmailTypeOK
<1>2. sender = [name |-> sender.name, address |-> sender.address]
  BY <1>1, EmailAssumption
<1>3. From \in [name: Names, address: {s.address : s \in Senders}]
  <2>1. sender.name \in Names /\ sender.address \in {s.address : s \in Senders}
    BY <1>1 DEF Names
  <2>2. [sender EXCEPT !.name = FSG_NAME] = [name |-> FSG_NAME, address |-> sender.address]
    BY <1>2
  <2>3. FSG_NAME \in Names
    BY DEF Names
  <2>. QED BY <1>2, <2>1, <2>2, <2>3 DEF From
<1>4. Brand \in Names
  BY <1>1 DEF Brand, Names
<1>. QED BY <1>1, <1>3, <1>4 DEF DeliveryPayload, DeliveryPayloads

(* A rendering never says the former name of the marketplace. *)
LEMMA PayloadRendered ==
  ASSUME EmailTypeOK, NEW o \in Orders
  PROVE  Rendered(DeliveryPayload(o))
<1>1. sender \in Senders
  BY DEF EmailTypeOK
<1>2. sender = [name |-> sender.name, address |-> sender.address]
  BY <1>1, EmailAssumption
<1>3. Brand = FSG_NAME => From.name # "LeadsPR"
  BY <1>2 DEF From, FSG_NAME
<1>. QED BY <1>3 DEF Rendered, DeliveryPayload, Brand, House

(* Two mails that differ in nothing but the marketplace's names are one. *)
LEMMA SameMailIsSamePayload ==
  ASSUME EmailTypeOK, NEW o \in Orders, NEW p \in DeliveryPayloads,
         Rendered(p), SameMail(p, o)
  PROVE  p = DeliveryPayload(o)
<1>1. sender = [name |-> sender.name, address |-> sender.address]
  BY EmailAssumption DEF EmailTypeOK
<1>2. /\ p = [from |-> p.from, brand |-> p.brand, contacts |-> p.contacts]
      /\ p.from = [name |-> p.from.name, address |-> p.from.address]
  BY DEF DeliveryPayloads
<1>3. p.brand = Brand
  BY DEF SameMail, SameName, Rendered, Brand, House
<1>4. From = [name |-> From.name, address |-> sender.address]
  BY <1>1 DEF From
<1>5. From.name = IF Brand = FSG_NAME /\ sender.name = "LeadsPR" THEN FSG_NAME ELSE sender.name
  BY <1>1 DEF From
<1>6. p.from.name = From.name
  <2>1. CASE p.from.name = sender.name
    BY <1>3, <1>5, <2>1 DEF Rendered
  <2>2. CASE company \in House /\ SameName(p.from.name, sender.name)
    BY <1>3, <1>5, <2>2 DEF Rendered, SameName, Brand, House
  <2>. QED BY <2>1, <2>2 DEF SameMail
<1>7. p.from.address = sender.address /\ p.contacts = contacts[o]
  BY DEF SameMail
<1>. QED BY <1>2, <1>3, <1>4, <1>6, <1>7 DEF DeliveryPayload

(* An open transaction delivers a mail of some kind for some order. *)
LEMMA OpenType ==
  ASSUME EmailTypeOK, tx # NoTx
  PROVE  tx \in Transaction /\ tx.order \in Orders /\ tx.kind \in Kinds
BY DEF EmailTypeOK, Transaction

(* At first nothing is sent, remembered or parked. *)
LEMMA EmailInitInv == EmailInit => EmailInv
<1>. SUFFICES ASSUME EmailInit PROVE EmailInv
  OBVIOUS
<1>1. EmailTypeOK
  BY EmailAssumption DEF EmailInit, EmailTypeOK, Outcomes
<1>2. StillAllowed /\ TakenIsRemembered /\ OncePerKey /\ OneMessagePerKey /\ ConflictHasCause
  BY DEF EmailInit, StillAllowed, TakenIsRemembered, OncePerKey, OneMessagePerKey, ConflictHasCause
<1>. QED BY <1>1, <1>2 DEF EmailInv

(***************************************************************************)
(* One lemma for each kind of step.                                        *)
(***************************************************************************)
(* Other transactions run when no delivery is open. *)
LEMMA OtherTransactionStep ==
  ASSUME EmailInv, tx = NoTx,
         (\E o \in Orders : Fulfill(o) \/ EditContacts(o)) \/ EditSettings
  PROVE  EmailInv'
<1>1. UNCHANGED <<emailStore, tx, provider>>
  BY DEF Fulfill, EditContacts, EditSettings
<1>2. /\ fulfilled' \subseteq Orders
      /\ company' \in Companies /\ sender' \in Senders
      /\ contacts' \in [Orders -> Contacts]
  BY DEF EmailInv, EmailTypeOK, Fulfill, EditContacts, EditSettings, mailData
<1>3. EmailTypeOK'
  BY <1>1, <1>2 DEF EmailInv, EmailTypeOK, emailStore, provider
<1>. QED
  BY <1>1, <1>3 DEF EmailInv, StillAllowed, TakenIsRemembered, OncePerKey, ProviderKey,
                    OneMessagePerKey, Rendered, ConflictHasCause, provider

(* Beginning a delivery that is allowed keeps the invariant. *)
LEMMA BeginStep ==
  ASSUME EmailInv, NEW o \in Orders, NEW k \in Kinds, Begin(o, k)
  PROVE  EmailInv'
<1>1. /\ tx' = [order |-> o, kind |-> k, reply |-> "none"]
      /\ MayDeliver(o, k)
      /\ UNCHANGED <<fulfilled, company, sender, contacts, sentAt, latest, resent, remembered, forgotten, inbox>>
  BY DEF Begin, mailData, emailStore, provider
<1>2. tx' \in Transaction
  BY <1>1 DEF Transaction, Replies
<1>3. EmailTypeOK'
  BY <1>1, <1>2 DEF EmailInv, EmailTypeOK, Transaction
<1>4. StillAllowed'
  BY <1>1 DEF StillAllowed, MayDeliver, Blocked
<1>5. ConflictHasCause'
  BY <1>1 DEF ConflictHasCause
<1>. QED BY <1>1, <1>3, <1>4, <1>5
         DEF EmailInv, TakenIsRemembered, OncePerKey, ProviderKey, OneMessagePerKey, Rendered

(* An answer touches the transaction's reply only. *)
LEMMA ReplyStep ==
  ASSUME EmailInv, tx # NoTx, NEW answer \in Replies, Reply(answer)
  PROVE  /\ tx' \in Transaction
         /\ tx'.order = tx.order /\ tx'.kind = tx.kind
         /\ StillAllowed'
<1>1. tx \in Transaction /\ tx' = [tx EXCEPT !.reply = answer]
  BY OpenType DEF EmailInv, Reply
<1>2. tx' \in Transaction /\ tx'.order = tx.order /\ tx'.kind = tx.kind
  BY <1>1 DEF Transaction
<1>3. UNCHANGED <<fulfilled, sentAt, latest, resent>>
  BY DEF Reply, emailStore
<1>4. StillAllowed'
  BY <1>2, <1>3 DEF EmailInv, StillAllowed, MayDeliver, Blocked
<1>. QED BY <1>2, <1>4

(* So does a message the provider takes, its answer lost or not. *)
LEMMA AcceptStep ==
  ASSUME EmailInv, NEW answer, ProviderAccepts(answer)
  PROVE  EmailInv'
<1>. DEFINE o == tx.order
            k == tx.kind
<1>1. /\ tx # NoTx /\ Known = {} /\ inbox[o][k] < MaxCopies
      /\ answer \in Replies /\ Reply(answer)
      /\ inbox' = [inbox EXCEPT ![o][k] = @ + 1]
      /\ remembered' = remembered \cup {[key |-> ProviderKey(o, k), payload |-> DeliveryPayload(o)]}
      /\ forgotten' = forgotten
  BY DEF ProviderAccepts, Waiting, Replies
<1>2. o \in Orders /\ k \in Kinds
  BY <1>1, OpenType DEF EmailInv
<1>3. tx' \in Transaction /\ StillAllowed'
  BY <1>1, ReplyStep
<1>4. inbox \in [Orders -> [Kinds -> 0..MaxCopies]] /\ MaxCopies \in Nat
  BY EmailAssumption DEF EmailInv, EmailTypeOK
<1>5. inbox' \in [Orders -> [Kinds -> 0..MaxCopies]]
  BY <1>1, <1>2, <1>4
<1>6. remembered' \subseteq [key: Orders \X Kinds, payload: DeliveryPayloads]
  BY <1>1, <1>2, PayloadType DEF EmailInv, EmailTypeOK, ProviderKey
<1>7. EmailTypeOK'
  BY <1>1, <1>3, <1>5, <1>6 DEF EmailInv, EmailTypeOK, Transaction, Reply, mailData, emailStore
<1>8. OneMessagePerKey'
  <2>1. \A m \in remembered : m.key # ProviderKey(o, k)
    BY <1>1 DEF Known
  <2>2. Rendered(DeliveryPayload(o))
    BY <1>2, PayloadRendered DEF EmailInv
  <2>. QED BY <1>1, <2>1, <2>2 DEF EmailInv, OneMessagePerKey, Rendered
<1>9. ConflictHasCause'
  <2>1. tx'.reply # "conflict"
    BY <1>1, OpenType DEF EmailInv, ProviderAccepts, Reply, Transaction
  <2>. QED BY <2>1 DEF ConflictHasCause
<1>10. \A q \in Orders, j \in Kinds :
        inbox'[q][j] = IF q = o /\ j = k THEN inbox[o][k] + 1 ELSE inbox[q][j]
  BY <1>1, <1>2, <1>4
<1>11. TakenIsRemembered'
  <2>. SUFFICES ASSUME NEW q \in Orders, NEW j \in Kinds, inbox'[q][j] > 0,
                       <<q, j>> \notin forgotten
                PROVE  \E m \in remembered' : m.key = ProviderKey(q, j)
    BY <1>1 DEF TakenIsRemembered, ProviderKey
  <2>1. CASE q = o /\ j = k
    <3>. DEFINE sent == [key |-> ProviderKey(o, k), payload |-> DeliveryPayload(o)]
    <3>1. sent \in remembered'
      BY <1>1
    <3>2. sent.key = ProviderKey(o, k)
      OBVIOUS
    <3>. QED BY <2>1, <3>1, <3>2
  <2>2. CASE ~(q = o /\ j = k)
    <3>1. inbox[q][j] > 0
      BY <1>10, <2>2
    <3>. QED BY <3>1, <1>1 DEF EmailInv, TakenIsRemembered
  <2>. QED BY <2>1, <2>2
<1>12. OncePerKey'
  <2>. SUFFICES ASSUME NEW q \in Orders, NEW j \in Kinds, inbox'[q][j] > 1
                PROVE  <<q, j>> \in forgotten
    BY <1>1 DEF OncePerKey
  <2>1. CASE q = o /\ j = k
    <3>1. inbox[o][k] > 0
      BY <2>1, <1>2, <1>4, <1>10
    <3>2. \A m \in remembered : m.key # ProviderKey(o, k)
      BY <1>1 DEF Known
    <3>. QED BY <2>1, <3>1, <3>2, <1>2 DEF EmailInv, TakenIsRemembered
  <2>2. CASE ~(q = o /\ j = k)
    BY <2>2, <1>10 DEF EmailInv, OncePerKey
  <2>. QED BY <2>1, <2>2
<1>. QED BY <1>3, <1>7, <1>8, <1>9, <1>11, <1>12 DEF EmailInv

(* So does any other answer of the provider, and none at all. *)
LEMMA AnswerStep ==
  ASSUME EmailInv, ProviderReplays \/ ProviderRejects \/ ProviderUnavailable
  PROVE  EmailInv'
<1>1. PICK answer \in Replies : Reply(answer)
  BY DEF ProviderReplays, ProviderRejects, ProviderUnavailable, Replies
<1>2. tx # NoTx /\ UNCHANGED provider
  BY DEF ProviderReplays, ProviderRejects, ProviderUnavailable, Waiting
<1>3. tx' \in Transaction /\ StillAllowed'
  BY <1>1, <1>2, ReplyStep
<1>4. EmailTypeOK'
  BY <1>1, <1>2, <1>3
     DEF EmailInv, EmailTypeOK, Transaction, Reply, mailData, emailStore, provider
<1>5. ConflictHasCause'
  <2>. SUFFICES ASSUME tx'.reply = "conflict", NEW m \in remembered',
                       m.key = ProviderKey(tx'.order, tx'.kind)
                PROVE  m.payload # DeliveryPayload(tx.order)'
    BY DEF ConflictHasCause, Known, ProviderKey
  <2>1. tx'.order = tx.order /\ tx'.kind = tx.kind /\ remembered' = remembered
    BY <1>1, <1>2, ReplyStep DEF provider
  <2>2. m \in Known
    BY <2>1 DEF Known, ProviderKey
  <2>3. UNCHANGED <<company, sender, contacts>>
    BY <1>1 DEF Reply, mailData
  <2>4. m.payload # DeliveryPayload(tx.order)
    <3>1. tx \in Transaction
      BY <1>2, OpenType DEF EmailInv
    <3>2. ~ProviderRejects
      BY <3>1 DEF ProviderRejects, Reply, Transaction
    <3>3. ~ProviderUnavailable
      BY <3>1 DEF ProviderUnavailable, Reply, Transaction
    <3>4. PICK n \in Known :
            Reply(IF n.payload = DeliveryPayload(tx.order) THEN "accepted" ELSE "conflict")
      BY <3>2, <3>3 DEF ProviderReplays
    <3>5. n.payload # DeliveryPayload(tx.order)
      BY <3>1, <3>4 DEF Reply, Transaction
    <3>6. m = n
      BY <2>2, <3>4 DEF Known, EmailInv, OneMessagePerKey
    <3>. QED BY <3>5, <3>6
  <2>. QED BY <2>1, <2>3, <2>4 DEF DeliveryPayload, From, Brand
<1>. QED
  BY <1>2, <1>3, <1>4, <1>5 DEF EmailInv, TakenIsRemembered, OncePerKey, ProviderKey,
                                OneMessagePerKey, Rendered, provider

(* So does the end of the transaction, by commit, failure or crash. *)
LEMMA EndStep ==
  ASSUME EmailInv, CommitSent \/ CommitBlocked \/ CommitFailed \/ Crash
  PROVE  EmailInv'
<1>1. tx # NoTx /\ tx' = NoTx
      /\ UNCHANGED <<fulfilled, company, sender, contacts, remembered, forgotten, inbox>>
  BY DEF CommitSent, CommitBlocked, CommitFailed, Crash, Finish, mailData, provider
<1>2. tx.order \in Orders /\ tx.kind \in Kinds
  BY <1>1, OpenType DEF EmailInv
<1>3. sentAt' \in [Orders -> BOOLEAN] /\ latest' \in [Orders -> Outcomes]
  <2>1. sentAt \in [Orders -> BOOLEAN] /\ latest \in [Orders -> Outcomes]
    BY DEF EmailInv, EmailTypeOK
  <2>2. sentAt' = sentAt \/ sentAt' = [sentAt EXCEPT ![tx.order] = TRUE]
    BY DEF CommitSent, CommitBlocked, CommitFailed, Crash, emailStore
  <2>3. latest' = latest \/ \E entry \in Outcomes : latest' = [latest EXCEPT ![tx.order] = entry]
    BY DEF CommitSent, CommitBlocked, CommitFailed, Crash, emailStore, Outcomes
  <2>. QED BY <1>2, <2>1, <2>2, <2>3
<1>4. resent' \in [Orders -> SUBSET ResendKeys]
  <2>1. tx.kind # Automatic => tx.kind \in ResendKeys
    BY <1>2 DEF Kinds
  <2>. QED BY <1>2, <2>1 DEF CommitSent, CommitBlocked, CommitFailed, Crash, emailStore,
                             EmailInv, EmailTypeOK
<1>5. EmailTypeOK'
  BY <1>1, <1>3, <1>4 DEF EmailInv, EmailTypeOK
<1>. QED
  BY <1>1, <1>5 DEF EmailInv, StillAllowed, TakenIsRemembered, OncePerKey, ProviderKey,
                    OneMessagePerKey, Rendered, ConflictHasCause

(* So does a key the provider forgets. *)
LEMMA ForgetStep ==
  ASSUME EmailInv, ProviderForgets
  PROVE  EmailInv'
<1>1. PICK m \in remembered : remembered' = remembered \ {m} /\ forgotten' = forgotten \cup {m.key}
  BY DEF ProviderForgets
<1>2. /\ remembered' \subseteq remembered
      /\ UNCHANGED <<fulfilled, company, sender, contacts, sentAt, latest, resent, tx, inbox>>
  BY <1>1 DEF ProviderForgets, mailData, emailStore
<1>3. EmailTypeOK'
  BY <1>1, <1>2 DEF EmailInv, EmailTypeOK
<1>4. StillAllowed'
  BY <1>2 DEF EmailInv, StillAllowed, MayDeliver, Blocked
<1>5. ConflictHasCause'
  BY <1>2 DEF EmailInv, ConflictHasCause, Known, ProviderKey, DeliveryPayload, From, Brand
<1>6. TakenIsRemembered'
  BY <1>1, <1>2 DEF EmailInv, TakenIsRemembered, ProviderKey
<1>7. OncePerKey'
  BY <1>1, <1>2 DEF EmailInv, OncePerKey
<1>. QED BY <1>2, <1>3, <1>4, <1>5, <1>6, <1>7 DEF EmailInv, OneMessagePerKey, Rendered

(* Every step of delivery and its surroundings keeps the invariant. *)
LEMMA EmailNextInv == EmailInv /\ [EmailNext]_emailVars => EmailInv'
<1>. SUFFICES ASSUME EmailInv, [EmailNext]_emailVars PROVE EmailInv'
  OBVIOUS
<1>1. CASE (\E o \in Orders : Fulfill(o) \/ EditContacts(o)) \/ EditSettings
  BY <1>1, OtherTransactionStep DEF Fulfill, EditContacts, EditSettings
<1>2. CASE Deliver
  BY <1>2, BeginStep, AcceptStep, AnswerStep, EndStep DEF Deliver
<1>3. CASE Crash
  BY <1>3, EndStep
<1>4. CASE ProviderForgets
  BY <1>4, ForgetStep
<1>5. CASE UNCHANGED emailVars
  <2>1. EmailTypeOK'
    BY <1>5 DEF EmailInv, EmailTypeOK, emailVars, mailData
  <2>2. StillAllowed'
    BY <1>5 DEF EmailInv, StillAllowed, MayDeliver, Blocked, emailVars
  <2>3. ConflictHasCause'
    BY <1>5 DEF EmailInv, ConflictHasCause, Known, ProviderKey, DeliveryPayload, From, Brand,
                mailData, emailVars
  <2>. QED
    BY <1>5, <2>1, <2>2, <2>3 DEF EmailInv, TakenIsRemembered, OncePerKey, ProviderKey,
                                  OneMessagePerKey, Rendered, emailVars
<1>. QED BY <1>1, <1>2, <1>3, <1>4, <1>5 DEF EmailNext

(***************************************************************************)
(* Theorems.                                                               *)
(***************************************************************************)
(* The inductive invariant holds in every reachable state. *)
THEOREM EmailInvariant == EmailSpec => []EmailInv
BY EmailInitInv, EmailNextInv, PTL DEF EmailSpec

(* Every variable keeps its type, and what the provider remembers is a payload
   the settings and contacts can render to. *)
THEOREM EmailTypeCorrect == EmailSpec => []EmailTypeOK
<1>1. EmailInv => EmailTypeOK
  BY DEF EmailInv
<1>. QED BY <1>1, EmailInvariant, PTL

(* A key sends at most once unless the provider has forgotten it. *)
THEOREM KeysSendOnce == EmailSpec => []OncePerKey
<1>1. EmailInv => OncePerKey
  BY DEF EmailInv
<1>. QED BY <1>1, EmailInvariant, PTL

SendsNoMore ==
  \A o \in Orders :
    /\ sentAt[o] \/ Blocked(o) => inbox'[o][Automatic] = inbox[o][Automatic]
    /\ \A k \in resent[o] : inbox'[o][k] = inbox[o][k]

(* Messages are taken for the open transaction only, which was allowed. *)
LEMMA NextSendsNoMore == EmailInv /\ [EmailNext]_emailVars => SendsNoMore
<1>. SUFFICES ASSUME EmailInv, [EmailNext]_emailVars, NEW o \in Orders
              PROVE  /\ sentAt[o] \/ Blocked(o) => inbox'[o][Automatic] = inbox[o][Automatic]
                     /\ \A k \in resent[o] : inbox'[o][k] = inbox[o][k]
  BY DEF SendsNoMore
<1>1. CASE UNCHANGED inbox
  BY <1>1
<1>2. ASSUME NEW answer, ProviderAccepts(answer)
      PROVE  /\ sentAt[o] \/ Blocked(o) => inbox'[o][Automatic] = inbox[o][Automatic]
             /\ \A k \in resent[o] : inbox'[o][k] = inbox[o][k]
  <2>1. tx # NoTx /\ inbox' = [inbox EXCEPT ![tx.order][tx.kind] = @ + 1]
    BY <1>2 DEF ProviderAccepts, Waiting
  <2>2. tx.order \in Orders /\ tx.kind \in Kinds
    BY <2>1, OpenType DEF EmailInv
  <2>3. MayDeliver(tx.order, tx.kind)
    BY <2>1 DEF EmailInv, StillAllowed
  <2>4. inbox \in [Orders -> [Kinds -> 0..MaxCopies]] /\ resent[o] \subseteq ResendKeys
    BY DEF EmailInv, EmailTypeOK
  <2>5. \A k \in Kinds : ~(o = tx.order /\ k = tx.kind) => inbox'[o][k] = inbox[o][k]
    BY <2>1, <2>2, <2>4
  <2>6. sentAt[o] \/ Blocked(o) => ~(o = tx.order /\ Automatic = tx.kind)
    BY <2>3 DEF MayDeliver
  <2>7. \A k \in resent[o] : k # Automatic /\ ~(o = tx.order /\ k = tx.kind)
    BY <2>3, <2>4, EmailAssumption DEF MayDeliver
  <2>. QED BY <2>4, <2>5, <2>6, <2>7 DEF Kinds
<1>3. UNCHANGED inbox \/ \E answer \in {"accepted", "unconfirmed"} : ProviderAccepts(answer)
  BY DEF EmailNext, Deliver, Fulfill, EditContacts, EditSettings, Begin, ProviderReplays,
         ProviderRejects, ProviderUnavailable, CommitSent, CommitBlocked, CommitFailed, Crash,
         Finish, ProviderForgets, provider, emailVars
<1>. QED BY <1>1, <1>2, <1>3

(* What is recorded as delivered or parked is never sent again by itself. *)
THEOREM RecordedIsNotSentAgain == EmailSpec => RecordedSendsNoMore
<1>1. EmailInv /\ [EmailNext]_emailVars => [SendsNoMore]_emailVars
  BY NextSendsNoMore
<1>. QED BY <1>1, EmailInvariant, PTL DEF EmailSpec, RecordedSendsNoMore, SendsNoMore

StaysBlocked ==
  \A o \in Orders : Blocked(o) => latest'[o] \in {"email.blocked", "email.resent"}

(* Only the commit of a resend may write over a block. *)
LEMMA NextStaysBlocked == EmailInv /\ [EmailNext]_emailVars => StaysBlocked
<1>. SUFFICES ASSUME EmailInv, [EmailNext]_emailVars, NEW o \in Orders, Blocked(o)
              PROVE  latest'[o] \in {"email.blocked", "email.resent"}
  BY DEF StaysBlocked
<1>1. latest \in [Orders -> Outcomes]
  BY DEF EmailInv, EmailTypeOK
<1>2. CASE UNCHANGED latest
  BY <1>2 DEF Blocked
<1>3. CASE CommitSent
  <2>1. tx # NoTx /\ MayDeliver(tx.order, tx.kind)
    BY <1>3 DEF CommitSent, EmailInv, StillAllowed
  <2>2. tx.order = o => tx.kind # Automatic
    BY <2>1 DEF MayDeliver
  <2>. QED BY <1>1, <1>3, <2>2 DEF CommitSent, Blocked
<1>4. CASE CommitBlocked
  BY <1>1, <1>4 DEF CommitBlocked, Blocked
<1>5. UNCHANGED latest \/ CommitSent \/ CommitBlocked
  BY DEF EmailNext, Deliver, Fulfill, EditContacts, EditSettings, Begin, ProviderAccepts, Reply,
         ProviderReplays, ProviderRejects, ProviderUnavailable, CommitFailed, Crash,
         ProviderForgets, emailStore, emailVars
<1>. QED BY <1>2, <1>3, <1>4, <1>5

(* A parked order stays parked until an administrator's resend succeeds. *)
THEOREM BlocksAreKept == EmailSpec => OnlyResendUnblocks
<1>1. EmailInv /\ [EmailNext]_emailVars => [StaysBlocked]_emailVars
  BY NextStaysBlocked
<1>. QED BY <1>1, EmailInvariant, PTL DEF EmailSpec, OnlyResendUnblocks, StaysBlocked

ConflictIsEdit ==
  \A o \in Orders :
    /\ tx # NoTx /\ tx.order = o /\ tx.reply = "conflict"
    /\ latest'[o] = "email.blocked"
    => \A m \in remembered : m.key = <<o, tx.kind>> => ~SameMail(m.payload, o)

(* While a conflict is in hand, the mail differs from the one of its key. *)
LEMMA HeldConflictIsEdit == EmailInv => ConflictIsEdit
<1>. SUFFICES ASSUME EmailInv, NEW o \in Orders,
                     tx # NoTx, tx.order = o, tx.reply = "conflict",
                     NEW m \in remembered, m.key = <<o, tx.kind>>, SameMail(m.payload, o)
              PROVE  FALSE
  BY DEF ConflictIsEdit
<1>1. m \in Known
  BY DEF Known, ProviderKey
<1>2. m.payload # DeliveryPayload(o)
  BY <1>1 DEF EmailInv, ConflictHasCause
<1>3. m.payload \in DeliveryPayloads /\ Rendered(m.payload)
  BY DEF EmailInv, EmailTypeOK, OneMessagePerKey
<1>. QED BY <1>2, <1>3, SameMailIsSamePayload DEF EmailInv

(* A retry under a key in use parks an order as a conflict only if its mail has
   really changed; the other refusals of the provider may come at any time, also
   for a key whose mail was taken. *)
THEOREM ConflictsHaveACause == EmailSpec => ConflictsComeOfEdits
<1>1. EmailInv /\ [EmailNext]_emailVars => [ConflictIsEdit]_emailVars
  BY HeldConflictIsEdit
<1>. QED BY <1>1, EmailInvariant, PTL DEF EmailSpec, ConflictsComeOfEdits, ConflictIsEdit
=============================================================================
