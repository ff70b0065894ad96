----------------------------- MODULE BackOffice -----------------------------
(***************************************************************************)
(* The desks around the bookings: assisted drafts, vouchers, reviews,      *)
(* support tickets and accounts.  Their handlers run in one server process *)
(* and have no table in common in what is modelled here, so a behaviour of *)
(* all of them is an interleaving of behaviours of each.  The model        *)
(* follows one desk per behaviour; the requests of the others would be     *)
(* stutters to it.                                                         *)
(***************************************************************************)
EXTENDS AssistedDraft, Voucher, Review, Support, Session

VARIABLE desk       \* the desk whose requests the behaviour follows

vars == <<desk, call, draftVars, voucherVars, reviewVars, ticket, sessionVars>>

Desks == {"drafts", "vouchers", "reviews", "support", "accounts"}

TypeOK ==
    /\ desk \in Desks
    /\ DraftTypeOK /\ VoucherTypeOK /\ ReviewTypeOK /\ SupportTypeOK /\ SessionTypeOK
    /\ call \in [Calls -> {Idle} \cup DraftWork \cup VoucherWork \cup ReviewWork
                              \cup SupportWork \cup SessionWork]

Init ==
    /\ desk \in Desks
    /\ call = [c \in Calls |-> Idle]
    /\ DraftInit /\ VoucherInit /\ ReviewInit /\ SupportInit /\ SessionInit

DraftsDesk ==
    /\ desk = "drafts" /\ DraftNext
    /\ UNCHANGED <<desk, voucherVars, reviewVars, ticket, sessionVars>>

VouchersDesk ==
    /\ desk = "vouchers" /\ VoucherNext
    /\ UNCHANGED <<desk, draftVars, reviewVars, ticket, sessionVars>>

ReviewsDesk ==
    /\ desk = "reviews" /\ ReviewNext
    /\ UNCHANGED <<desk, draftVars, voucherVars, ticket, sessionVars>>

SupportDesk ==
    /\ desk = "support" /\ SupportNext
    /\ UNCHANGED <<desk, draftVars, voucherVars, reviewVars, sessionVars>>

AccountsDesk ==
    /\ desk = "accounts" /\ SessionNext
    /\ UNCHANGED <<desk, draftVars, voucherVars, reviewVars, ticket>>

Next == DraftsDesk \/ VouchersDesk \/ ReviewsDesk \/ SupportDesk \/ AccountsDesk

Spec == Init /\ [][Next]_vars
=============================================================================
