------------------------------ MODULE Support ------------------------------
(***************************************************************************)
(* A support ticket between its customer and the staff (support.service).  *)
(* Every operation reads the ticket, checks, and updates it by id.  The    *)
(* texts, the audit log and the notifications are left out.                *)
(***************************************************************************)
EXTENDS Handlers

CONSTANTS
    Staff,
    Nobody      \* assignedStaffId is null

ASSUME NobodyAssumption == Nobody \notin Staff

VARIABLE ticket     \* the SupportTicket row

TicketStatuses == {"none", "NEW", "IN_PROGRESS", "RESOLVED"}

SupportWork ==
    [op: {"reply", "note"}, by: Staff, owner: Staff \cup {Nobody}]
        \cup [op: {"rate", "reopen"}]

SupportTypeOK ==
    ticket \in [status: TicketStatuses, owner: Staff \cup {Nobody}, rated: BOOLEAN]

SupportInit == ticket = [status |-> "none", owner |-> Nobody, rated |-> FALSE]

Opened == ticket.status # "none"

CreateFromContact ==
    /\ ~Opened
    /\ ticket' = [ticket EXCEPT !.status = "NEW"]
    /\ UNCHANGED call

\* An admin assigns the ticket, or a member of the staff claims it.
AssignTicket(s) ==
    /\ Opened
    /\ ticket' = [ticket EXCEPT !.owner = s, !.status = "IN_PROGRESS"]
    /\ UNCHANGED call

UpdateStatus ==
    /\ Opened
    /\ \E status \in TicketStatuses \ {"none"} : ticket' = [ticket EXCEPT !.status = status]
    /\ UNCHANGED call

\* replyTicket: an answer to the customer, or an internal note.
ReplyTicketRead(c, s) ==
    /\ Opened
    /\ \E op \in {"reply", "note"} : Start(c, [op |-> op, by |-> s, owner |-> ticket.owner])
    /\ UNCHANGED ticket

\* Mutant: whoever answers takes the ticket.
ReplyTicketWriteTakes(c) ==
    /\ Doing(c, "reply")
    /\ ticket' = [ticket EXCEPT !.status = "IN_PROGRESS", !.owner = call[c].by]
    /\ Finish(c)

\* The owner read before is written back, or the author becomes the owner.
ReplyTicketWrite(c) ==
    /\ Doing(c, "reply")
    /\ ticket' = [ticket EXCEPT
            !.status = "IN_PROGRESS",
            !.owner = IF call[c].owner = Nobody THEN call[c].by ELSE call[c].owner]
    /\ Finish(c)

NoteWrite(c) ==
    /\ Doing(c, "note")
    /\ ticket' = [ticket EXCEPT !.owner = IF call[c].owner = Nobody THEN call[c].by ELSE @]
    /\ Finish(c)

\* rateTicket and reopenTicket.
ResolvedRead(c) ==
    /\ ticket.status = "RESOLVED"
    /\ \E op \in {"rate", "reopen"} : Start(c, [op |-> op])
    /\ UNCHANGED ticket

RateWrite(c) ==
    /\ Doing(c, "rate")
    /\ ticket' = [ticket EXCEPT !.rated = TRUE]
    /\ Finish(c)

ReopenWrite(c) ==
    /\ Doing(c, "reopen")
    /\ ticket' = [ticket EXCEPT !.status = "NEW", !.rated = FALSE]
    /\ Finish(c)

SupportNext ==
    \/ CreateFromContact \/ UpdateStatus
    \/ \E s \in Staff : AssignTicket(s)
    \/ \E c \in Calls, s \in Staff : ReplyTicketRead(c, s)
    \/ \E c \in Calls :
        ReplyTicketWrite(c) \/ NoteWrite(c) \/ ResolvedRead(c) \/ RateWrite(c) \/ ReopenWrite(c)

SupportSpec ==
    /\ SupportInit /\ call = [c \in Calls |-> Idle]
    /\ [][SupportNext]_<<call, ticket>>

-----------------------------------------------------------------------------
Replying(c) == call[c].op \in {"reply", "note"} /\ call'[c] = Idle

\* A reply or a note takes a ticket from its owner only if the ticket changed hands
\* after the reply had read it (replyTicket: "avoid override when the ticket belongs
\* to somebody else").
ReplyKeepsTheOwner ==
    [][(\E c \in Calls : Replying(c) /\ call[c].owner = ticket.owner /\ ticket.owner # Nobody)
        => ticket'.owner = ticket.owner]_<<call, ticket>>
=============================================================================
