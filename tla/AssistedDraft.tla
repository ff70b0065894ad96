--------------------------- MODULE AssistedDraft ---------------------------
(***************************************************************************)
(* Drafts of bookings that staff make for a customer                       *)
(* (assisted-draft.service).  A draft is written, submitted, sent back or  *)
(* rejected by writes that name its id only; its approval is one           *)
(* transaction that reserves seats, inserts the booking, which refers to   *)
(* the draft by a unique column, and marks the draft CONVERTED.            *)
(***************************************************************************)
EXTENDS Handlers, Integers, Sequences

CONSTANTS
    Drafts,     \* the drafts that may be made
    Capacity,   \* seats of the departure
    Parties     \* seats a form asks for; 0: the form is not ready for approval

ASSUME PartiesAssumption == 0 \in Parties /\ Parties \subseteq Nat /\ Capacity \in Nat

VARIABLES
    draft,      \* the AssistedBookingDraft rows
    converted,  \* the bookings made from each draft
    departure   \* isActive and availableSeats, and the seats others hold

draftVars == <<draft, converted, departure>>

Methods == {"PAYOS", "IN_STORE", "none"}
Editable == {"DRAFT", "NEEDS_REVISION"}
DraftStatuses == Editable \cup {"absent", "PENDING_APPROVAL", "REJECTED", "CONVERTED", "DELETED"}

DraftWork ==
    [op: {"update", "delete", "submit", "revise", "reject", "approve"},
     d: Drafts, party: Parties, booked: BOOLEAN]

DraftTypeOK ==
    /\ draft \in [Drafts -> [status: DraftStatuses, party: Parties, method: Methods]]
    /\ converted \in [Drafts -> Seq([seats: Parties, live: BOOLEAN])]
    /\ departure \in [open: BOOLEAN, free: 0..Capacity, sold: 0..Capacity]

DraftInit ==
    /\ draft = [d \in Drafts |-> [status |-> "absent", party |-> 0, method |-> "none"]]
    /\ converted = [d \in Drafts |-> <<>>]
    /\ departure = [open |-> TRUE, free |-> Capacity, sold |-> 0]

Exists(d) == draft[d].status \notin {"absent", "DELETED"}

\* The convertedBooking relation, read through Booking.assistedDraftId.
Booked(d) == converted[d] # <<>>

\* assertAssistedDraftReadyForApproval.
Ready(d) == draft[d].party > 0 /\ draft[d].method # "none"

\* What calculateAssistedQuote asks of the departure.
Quoted(party) == departure.open /\ party <= departure.free

Work(op, d, party) == [op |-> op, d |-> d, party |-> party, booked |-> Booked(d)]

Write(d, field, value) == draft' = [draft EXCEPT ![d][field] = value]

-----------------------------------------------------------------------------
(* Staff.                                                                  *)

CreateDraft(d) ==
    /\ draft[d].status = "absent"
    /\ \E party \in Parties, method \in Methods :
        /\ party = 0 \/ Quoted(party)
        /\ draft' = [draft EXCEPT ![d] = [status |-> "DRAFT", party |-> party, method |-> method]]
    /\ UNCHANGED <<call, converted, departure>>

UpdateRead(c, d) ==
    /\ draft[d].status \in Editable
    /\ \E party \in Parties : Start(c, Work("update", d, party))
    /\ UNCHANGED draftVars

\* The form is saved over whatever the draft is by now; the payment method is
\* computed from the form and not among the columns written.
UpdateWrite(c) ==
    /\ Doing(c, "update")
    /\ IF Exists(call[c].d) /\ (call[c].party = 0 \/ Quoted(call[c].party))
       THEN Write(call[c].d, "party", call[c].party)
       ELSE UNCHANGED draft
    /\ Finish(c)
    /\ UNCHANGED <<converted, departure>>

\* Mutant: the relation to the booking is not looked at.
DeleteReadStatusOnly(c, d) ==
    /\ draft[d].status \in Editable \cup {"REJECTED"}
    /\ Start(c, Work("delete", d, 0))
    /\ UNCHANGED draftVars

DeleteRead(c, d) ==
    /\ draft[d].status \in Editable \cup {"REJECTED"}
    /\ ~Booked(d)
    /\ Start(c, Work("delete", d, 0))
    /\ UNCHANGED draftVars

\* A submission by an admin is an approval.
SubmitRead(c, d) ==
    /\ draft[d].status \in Editable
    /\ Ready(d) /\ Quoted(draft[d].party)
    /\ Start(c, Work("submit", d, 0))
    /\ UNCHANGED draftVars

-----------------------------------------------------------------------------
(* Admins.                                                                 *)

ReviewRead(c, d) ==
    /\ draft[d].status = "PENDING_APPROVAL"
    /\ \E op \in {"revise", "reject"} : Start(c, Work(op, d, 0))
    /\ UNCHANGED draftVars

\* The write that ends a deletion, a submission or a review; it fails when the
\* row is gone.
StatusWrite(c) ==
    \E step \in {<<"delete", "DELETED">>, <<"submit", "PENDING_APPROVAL">>,
                 <<"revise", "NEEDS_REVISION">>, <<"reject", "REJECTED">>} :
        /\ Doing(c, step[1])
        /\ IF Exists(call[c].d) THEN Write(call[c].d, "status", step[2]) ELSE UNCHANGED draft
        /\ Finish(c)
        /\ UNCHANGED <<converted, departure>>

\* The reads and checks of the transaction ...
ApproveRead(c, d) ==
    /\ draft[d].status \in Editable \cup {"PENDING_APPROVAL"}
    /\ ~Booked(d)
    /\ Ready(d) /\ Quoted(draft[d].party)
    /\ Start(c, Work("approve", d, draft[d].party))
    /\ UNCHANGED draftVars

ApprovedBy(c) ==
    /\ converted' = [converted EXCEPT ![call[c].d] = Append(@, [seats |-> call[c].party, live |-> TRUE])]
    /\ Write(call[c].d, "status", "CONVERTED")
    /\ departure' = [departure EXCEPT !.free = @ - call[c].party]

\* Mutant: assistedDraftId is not unique.
ApproveWriteAgain(c) ==
    /\ Doing(c, "approve")
    /\ IF Quoted(call[c].party) /\ Exists(call[c].d) THEN ApprovedBy(c) ELSE UNCHANGED draftVars
    /\ Finish(c)

\* ... and its writes: seats only if there are still enough, the booking only if
\* the draft still exists and no other booking refers to it; else all is undone.
ApproveWrite(c) ==
    /\ Doing(c, "approve")
    /\ IF Quoted(call[c].party) /\ Exists(call[c].d) /\ ~Booked(call[c].d)
       THEN ApprovedBy(c)
       ELSE UNCHANGED draftVars
    /\ Finish(c)

-----------------------------------------------------------------------------
(* The rest of the shop.                                                   *)

\* The booking of a draft is cancelled or expires.
EndBooking(d) ==
    \E i \in DOMAIN converted[d] :
        /\ converted[d][i].live
        /\ converted' = [converted EXCEPT ![d][i].live = FALSE]
        /\ departure' = [departure EXCEPT !.free = @ + converted[d][i].seats]
        /\ UNCHANGED <<call, draft>>

OthersBook ==
    /\ Quoted(1)
    /\ departure' = [departure EXCEPT !.free = @ - 1, !.sold = @ + 1]
    /\ UNCHANGED <<call, draft, converted>>

OthersCancel ==
    /\ departure.sold > 0
    /\ departure' = [departure EXCEPT !.free = @ + 1, !.sold = @ - 1]
    /\ UNCHANGED <<call, draft, converted>>

\* Staff take the departure off sale, or put it back.
SwitchDeparture ==
    /\ departure' = [departure EXCEPT !.open = ~@]
    /\ UNCHANGED <<call, draft, converted>>

DraftNext ==
    \/ \E d \in Drafts : CreateDraft(d) \/ EndBooking(d)
    \/ \E c \in Calls, d \in Drafts :
        UpdateRead(c, d) \/ DeleteRead(c, d) \/ SubmitRead(c, d) \/ ReviewRead(c, d) \/ ApproveRead(c, d)
    \/ \E c \in Calls : UpdateWrite(c) \/ StatusWrite(c) \/ ApproveWrite(c)
    \/ OthersBook \/ OthersCancel \/ SwitchDeparture

DraftSpec ==
    /\ DraftInit /\ call = [c \in Calls |-> Idle]
    /\ [][DraftNext]_<<call, draftVars>>

-----------------------------------------------------------------------------
\* However many admins approve it, and whatever late submissions and reviews do to
\* its status afterwards, a draft becomes at most one booking (approveAssistedDraft).
DraftsBookOnce == \A d \in Drafts : Len(converted[d]) <= 1

\* Once a draft has become a booking, it is deleted, or changed while CONVERTED,
\* only by a handler that read it before (updateAssistedDraft, submitAssistedDraft,
\* requestRevisionAssistedDraft, rejectAssistedDraft, deleteAssistedDraft).
BookedDraftChangesByEarlyReaderOnly ==
    [][\A d \in Drafts :
        /\ Booked(d)
        /\ draft[d].status = "CONVERTED" \/ draft'[d].status = "DELETED"
        /\ draft'[d] # draft[d]
        => \E c \in Calls : call[c] # Idle /\ call'[c] = Idle /\ call[c].d = d /\ ~call[c].booked
      ]_<<call, draftVars>>
=============================================================================
