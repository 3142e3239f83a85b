-------------------------- MODULE MCTicketAttachments --------------------------
(* An instance of TicketAttachments for TLC: a customer with two tickets,  *)
(* with messages of the customer and one of an administrator.              *)
EXTENDS TicketAttachments, TLC

CONSTANTS s1, s2, s3, c1, k1, k2, e1, e2, e3

ThreeSlots == {s1, s2, s3}
OneCustomer == {c1}
TwoTickets == {k1, k2}
ThreeEntries == {e1, e2, e3}
Owners == [t \in TwoTickets |-> c1]
EntryTickets == (e1 :> k1) @@ (e2 :> k1) @@ (e3 :> k2)
Authors == (e1 :> c1) @@ (e2 :> Admin) @@ (e3 :> c1)
SlotSymmetry == Permutations(Slots)
=============================================================================
