--------------------------- MODULE TicketAttachments ---------------------------
(***************************************************************************)
(* Attachments of tickets: hTKUploadAttachment and the two limits it keeps,*)
(* the number of attachments of a ticket and the bytes a customer stores.  *)
(* Each limit is a SELECT of its own, one before the body is read and one  *)
(* after, and nothing is locked between them and the INSERT.               *)
(*                                                                         *)
(* Any number of uploads may be made; Slots bounds how many are under way  *)
(* at once.  Attachments are never deleted, and the limits look at nothing *)
(* but two aggregates of tk_attachments, so these stand for the table.     *)
(***************************************************************************)
EXTENDS Integers, FiniteSets

CONSTANTS
    Slots,           \* uploads under way at a time
    CustomerIds,
    Admin,           \* stands for the administrators
    Tickets,
    Entries,
    Owner,           \* tk_tickets.customer_id
    TicketOf,        \* tk_ticket_entries.ticket_id
    Author,          \* author_id of an entry, Admin for those of role "admin"
    MaxBytes,        \* tkAttachmentMaxBytes
    MaxAttachments,  \* effective limits of tkLimits; <= 0 means no limit
    Quota

ASSUME AttachmentsAssumption ==
    /\ IsFiniteSet(Slots) /\ Slots # {}
    /\ Admin \notin CustomerIds
    /\ Owner \in [Tickets -> CustomerIds]
    /\ TicketOf \in [Entries -> Tickets]
    /\ Author \in [Entries -> CustomerIds \cup {Admin}]
    /\ MaxBytes \in Nat /\ MaxAttachments \in Int /\ Quota \in Int

VARIABLES
    attached,  \* TKTicketAttachmentCount of every ticket
    stored,    \* TKCustomerAttachmentBytes of every customer
    upload        \* local state of every upload

uploadVars == <<attached, stored, upload>>

UploadSteps == {"idle", "count", "body", "quota", "insert"}
UploadStates == [pc : UploadSteps, entry : Entries, bytes : 0..MaxBytes]

UploadTypeOK ==
    /\ attached \in [Tickets -> Nat]
    /\ stored \in [CustomerIds -> Nat]
    /\ upload \in [Slots -> UploadStates]

UploadInit ==
    /\ attached = [t \in Tickets |-> 0]
    /\ stored = [c \in CustomerIds |-> 0]
    /\ upload \in [Slots -> [pc : {"idle"}, entry : Entries, bytes : {0}]]

Ticket(s) == TicketOf[upload[s].entry]
Customer(s) == Owner[Ticket(s)]
Becomes(s, pc, n) ==
    upload' = [upload EXCEPT ![s] = [pc |-> pc, entry |-> upload[s].entry, bytes |-> n]]
StepTo(s, pc) == Becomes(s, pc, upload[s].bytes)
Leave(s) == Becomes(s, "idle", 0)
Tables == <<attached, stored>>

\* A customer attaches to messages of their own on their own tickets, an
\* administrator to any.
MayAttach(user, e) ==
    \/ user = Admin
    \/ Owner[TicketOf[e]] = user /\ Author[e] = user

\* The handler up to the first limit; an upload it refuses has no effect.
ArriveUpload(s) ==
    /\ upload[s].pc = "idle"
    /\ \E user \in CustomerIds \cup {Admin}, e \in Entries :
         /\ MayAttach(user, e)
         /\ upload' = [upload EXCEPT ![s] =
                      [pc |-> IF MaxAttachments > 0 THEN "count" ELSE "body",
                       entry |-> e, bytes |-> 0]]
    /\ UNCHANGED Tables

\* Mutant: the limit is refused only when it is exceeded.
CheckCountLax(s) ==
    /\ upload[s].pc = "count"
    /\ StepTo(s, IF attached[Ticket(s)] > MaxAttachments THEN "idle" ELSE "body")
    /\ UNCHANGED Tables

CheckCount(s) ==
    /\ upload[s].pc = "count"
    /\ StepTo(s, IF attached[Ticket(s)] >= MaxAttachments THEN "idle" ELSE "body")
    /\ UNCHANGED Tables

\* io.ReadAll behind the LimitReader: a body over MaxBytes is refused, and so is
\* a type that is not on the list.
ReadBody(s) ==
    /\ upload[s].pc = "body"
    /\ \/ Leave(s)
       \/ \E n \in 0..MaxBytes : Becomes(s, IF Quota > 0 THEN "quota" ELSE "insert", n)
    /\ UNCHANGED Tables

\* The bytes are charged to the owner of the ticket, whoever uploads.
CheckQuota(s) ==
    /\ upload[s].pc = "quota"
    /\ IF stored[Customer(s)] + upload[s].bytes > Quota THEN Leave(s) ELSE StepTo(s, "insert")
    /\ UNCHANGED Tables

\* Mutant: the row gets the declared length, -1 when the client declared none.
InsertDeclared(s) ==
    /\ upload[s].pc = "insert"
    /\ attached' = [attached EXCEPT ![Ticket(s)] = @ + 1]
    /\ stored' = [stored EXCEPT ![Customer(s)] = @ - 1]
    /\ Leave(s)

Insert(s) ==
    /\ upload[s].pc = "insert"
    /\ attached' = [attached EXCEPT ![Ticket(s)] = @ + 1]
    /\ stored' = [stored EXCEPT ![Customer(s)] = @ + upload[s].bytes]
    /\ Leave(s)

\* A statement fails, the client hangs up, or the process stops.
FailUpload(s) ==
    /\ upload[s].pc # "idle"
    /\ Leave(s)
    /\ UNCHANGED Tables

Step(s) == \/ ArriveUpload(s) \/ CheckCount(s) \/ ReadBody(s) \/ CheckQuota(s)
           \/ Insert(s) \/ FailUpload(s)
UploadNext == \E s \in Slots : Step(s)
UploadSpec == UploadInit /\ [][UploadNext]_uploadVars

-----------------------------------------------------------------------------
(* Properties                                                              *)

\* The limit on a ticket's attachments is kept up to the uploads that pass the
\* check together: of those under way at once all but one may come on top.
CountNearlyKept ==
    MaxAttachments > 0 =>
      \A t \in Tickets : attached[t] <= MaxAttachments + Cardinality(Slots) - 1

\* Likewise the quota: each upload that overtakes another brings at most one
\* body of MaxBytes on top.
QuotaNearlyKept ==
    Quota > 0 =>
      \A c \in CustomerIds : stored[c] <= Quota + MaxBytes * (Cardinality(Slots) - 1)

\* LimitsNearlyKept: both limits of the upload handler at once.
LimitsNearlyKept == CountNearlyKept /\ QuotaNearlyKept
=============================================================================
