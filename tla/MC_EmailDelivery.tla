------------------------- MODULE MC_EmailDelivery -------------------------
(* One order and one resend key; contacts, company and sender name change. *)
EXTENDS EmailDelivery, TLC

CONSTANTS o1, k1, draft, edited

MCOrders == {o1}
MCResendKeys == {k1}
MCContacts == {draft, edited}

Sender(name) == [name |-> name, address |-> "orders"]
MCCompanies == {"LeadsPR", FSG_NAME, "Another"}
MCSenders == {Sender("LeadsPR"), Sender(FSG_NAME), Sender("Another")}
=============================================================================
