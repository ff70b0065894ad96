----------------------------- MODULE Catalogue -----------------------------
(***************************************************************************)
(* One tour of the catalogue: its review workflow, its trash, its schedule *)
(* of departures, the seats that bookings take from them, and the nightly  *)
(* job that archives departures and completes the tour.                    *)
(*                                                                         *)
(* A handler reads and checks, awaits, and writes by id; statements of     *)
(* different handlers and of the job interleave.  bulkReplace is a         *)
(* transaction at READ COMMITTED: what it read may be out of date when it  *)
(* writes, others see its writes only once it commits, and whoever wants   *)
(* to write a row that it has written waits for it.  Requests are those of *)
(* an admin, or of the owner where the code asks for the owner: an admin   *)
(* may do all that staff may.                                              *)
(***************************************************************************)
EXTENDS Integers, Sequences, FiniteSets, SequencesExt

CONSTANTS
    Handlers,   \* requests that may be in flight at the same time
    Beginnings, \* bound: the tours created, when, and who serves which requests then
    LastDay,    \* bound: days are 0..LastDay
    StartDay,   \* tour.startDate
    NewSeats,   \* seats of a departure the office adds
    MaxRows     \* bound: departure rows, archived ones included

ASSUME HandlersAssumption == IsFiniteSet(Handlers)
ASSUME NumbersAssumption ==
    LastDay \in Nat \ {0} /\ StartDay \in Nat /\ NewSeats \in Nat \ {0} /\ MaxRows \in Nat

VARIABLES
    tour,       \* the Tour row; ready: its texts and packages pass the checks
    departure,  \* the TourDeparture rows by id
    today,
    handler,    \* what each request in flight does next, with what it read
    night,      \* the pass of the cron job: "idle", or "complete" after its first update
    drifted,    \* history: a form was saved whose seats were out of date
    duty        \* the kinds of request that each handler serves in this behaviour

vars == <<tour, departure, today, handler, night, drifted, duty>>

Workflow == {"submit", "approve", "reject", "publish"}
Kinds == Workflow \cup {"edit", "package", "packages", "trash", "destroy", "form", "book"}

Days == 0..LastDay
Statuses == {"DRAFT", "PENDING_REVIEW", "PUBLISHED", "REJECTED", "COMPLETED"}

ASSUME BeginningsAssumption ==
    Beginnings \subseteq
        [status: Statuses, ready: BOOLEAN, day: Days, duty: [Handlers -> SUBSET Kinds]]

Ops == Kinds \cup {"idle", "addPackages", "save", "commit"}

\* What a handler does next, and what it read: was the tour completed, the departure
\* of the booking.
Work(op, completed, row) ==
    [op |-> op, completed |-> completed, row |-> row, form |-> {}, kept |-> {}, off |-> {}]

Idle == Work("idle", FALSE, 0)

\* A schedule on its way: its entries, the rows that meet one of them, and the rows
\* that go off sale.
Schedule(op, form, kept, off) ==
    [Idle EXCEPT !.op = op, !.form = form, !.kept = kept, !.off = off]

\* sold, offered and by are history: the seats that live bookings hold, the seats the
\* office meant to sell, and the handler that put the row on sale.
Row == [day: Days, active: BOOLEAN, seats: Nat, sold: Nat, offered: Nat, by: Handlers]

Rows == DOMAIN departure
Upcoming(i) == departure[i].active /\ departure[i].day > today

TypeOK ==
    /\ tour \in [status: Statuses, ready: BOOLEAN, trashed: BOOLEAN, booked: BOOLEAN, gone: BOOLEAN]
    /\ departure \in Seq(Row)
    /\ Len(departure) <= MaxRows
    /\ today \in Days
    /\ handler \in [Handlers -> [op: Ops, completed: BOOLEAN, row: 0..MaxRows,
                                 form: SUBSET [day: Days, seats: Nat],
                                 kept: SUBSET (1..MaxRows), off: SUBSET (1..MaxRows)]]
    /\ night \in {"idle", "complete"}
    /\ drifted \in BOOLEAN
    /\ duty \in [Handlers -> SUBSET Kinds]

\* create: a draft, or an admin's tour in any status, without departures yet.
Init ==
    /\ \E new \in Beginnings :
          /\ tour = [status |-> new.status, ready |-> new.ready,
                     trashed |-> FALSE, booked |-> FALSE, gone |-> FALSE]
          /\ today = new.day
          /\ duty = new.duty
    /\ departure = <<>>
    /\ handler = [h \in Handlers |-> Idle]
    /\ night = "idle"
    /\ drifted = FALSE

-----------------------------------------------------------------------------
(* Handlers.                                                               *)

Found == ~tour.gone /\ ~tour.trashed

\* A request that is one statement.
Served(kind) == \E h \in Handlers : kind \in duty[h]

Starts(h, op) ==
    /\ op \in duty[h]
    /\ handler[h].op = "idle"
    /\ handler' = [handler EXCEPT ![h] = Work(op, op \in Workflow /\ tour.status = "COMPLETED", 0)]
    /\ UNCHANGED <<tour, departure, today, night, drifted, duty>>

\* The write of a handler in flight; an update by id of a deleted row throws.
Writes(h, op, row) ==
    /\ handler[h].op = op
    /\ tour' = IF tour.gone THEN tour ELSE row
    /\ handler' = [handler EXCEPT ![h] = Idle]
    /\ UNCHANGED <<departure, today, night, drifted, duty>>

SetsStatus(h, op, status) == Writes(h, op, [tour EXCEPT !.status = status])

\* requirePublishableTour with departures and packages.
Publishable ==
    /\ tour.ready
    /\ \E i \in Rows : Upcoming(i) /\ departure[i].seats > 0

-----------------------------------------------------------------------------
(* The review workflow.                                                    *)

SubmitForReview(h) ==
    /\ Found /\ Publishable
    /\ tour.status \in {"DRAFT", "REJECTED"}
    /\ Starts(h, "submit")

ReviewTour(h) ==
    /\ Found
    /\ tour.status = "PENDING_REVIEW"
    /\ \/ Publishable /\ Starts(h, "approve")
       \/ Starts(h, "reject")

\* Mutant: a completed tour may be published again.
PublishTourAlways(h) ==
    /\ Found /\ Publishable
    /\ Starts(h, "publish")

PublishTour(h) ==
    /\ Found /\ Publishable
    /\ tour.status # "COMPLETED"
    /\ Starts(h, "publish")

WorkflowWrite(h) ==
    \/ SetsStatus(h, "submit", "PENDING_REVIEW")
    \/ SetsStatus(h, "approve", "PUBLISHED")
    \/ SetsStatus(h, "reject", "REJECTED")
    \/ SetsStatus(h, "publish", "PUBLISHED")

-----------------------------------------------------------------------------
(* The content of the tour, and its trash.                                 *)

Update(h) == Found /\ Starts(h, "edit")

\* New texts, and an admin may set any status.
UpdateWrite(h) ==
    \E ready \in BOOLEAN, status \in Statuses :
        Writes(h, "edit", [tour EXCEPT !.ready = ready, !.status = status])

\* remove, bulkHide.
RemoveTour ==
    /\ Served("trash")
    /\ Found
    /\ tour' = [tour EXCEPT !.trashed = TRUE]
    /\ UNCHANGED <<departure, today, handler, night, drifted, duty>>

\* restoreTour, bulkRestoreTours.
RestoreTour ==
    /\ Served("trash")
    /\ ~tour.gone
    /\ tour.trashed
    /\ tour' = [tour EXCEPT !.trashed = FALSE]
    /\ UNCHANGED <<departure, today, handler, night, drifted, duty>>

\* permanentDelete, bulkPermanentDelete.
PermanentDelete(h) ==
    /\ ~tour.gone
    /\ tour.trashed
    /\ ~tour.booked
    /\ Starts(h, "destroy")

\* Mutant: the rows of bookings do not hold the tour.
DestroyWriteUnrestricted(h) ==
    /\ handler[h].op = "destroy"
    /\ \A g \in Handlers : handler[g].op # "commit"
    /\ tour' = [tour EXCEPT !.gone = TRUE]
    /\ departure' = <<>>
    /\ handler' = [handler EXCEPT ![h] = Idle]
    /\ UNCHANGED <<today, night, drifted, duty>>

\* The foreign key of Booking.tour restricts the delete, that of departures cascades;
\* it waits for those who have written departures.
DestroyWrite(h) ==
    /\ handler[h].op = "destroy"
    /\ \A g \in Handlers : handler[g].op # "commit"
    /\ IF tour.booked THEN UNCHANGED <<tour, departure>>
       ELSE tour' = [tour EXCEPT !.gone = TRUE] /\ departure' = <<>>
    /\ handler' = [handler EXCEPT ![h] = Idle]
    /\ UNCHANGED <<today, night, drifted, duty>>

\* create, update and remove of a package.
EditPackage ==
    /\ Served("package")
    /\ Found
    /\ \E ready \in BOOLEAN : tour' = [tour EXCEPT !.ready = ready]
    /\ UNCHANGED <<departure, today, handler, night, drifted, duty>>

\* bulkReplace of the packages: deleteMany and createMany without a transaction.
ReplacePackages(h) == Found /\ Starts(h, "packages")

DeletePackages(h) ==
    /\ handler[h].op = "packages"
    /\ tour' = [tour EXCEPT !.ready = FALSE]
    /\ \/ handler' = [handler EXCEPT ![h] = Work("addPackages", FALSE, 0)]
       \/ handler' = [handler EXCEPT ![h] = Idle]
    /\ UNCHANGED <<departure, today, night, drifted, duty>>

CreatePackages(h) ==
    \E ready \in BOOLEAN : Writes(h, "addPackages", [tour EXCEPT !.ready = ready])

-----------------------------------------------------------------------------
(* The schedule.                                                           *)

OnePerDay(form) == \A f, g \in form : f.day = g.day => f = g

\* The office opens the schedule: the form keeps some departures with the seats
\* it shows, and adds others; two entries of one date are refused.  Bound: no form is
\* opened after one was saved out of date, since that can add seats without end.
OpenForm(h) ==
    /\ ~drifted
    /\ Found
    /\ "form" \in duty[h]
    /\ handler[h].op = "idle"
    /\ LET shown == {[day |-> departure[i].day, seats |-> departure[i].seats] :
                        i \in {j \in Rows : Upcoming(j)}}
           added == {[day |-> d, seats |-> NewSeats] :
                        d \in (today + 1)..LastDay \ {f.day : f \in shown}}
       IN  \E form \in SUBSET (shown \cup added) :
               /\ OnePerDay(form)
               /\ handler' = [handler EXCEPT ![h] = Schedule("form", form, {}, {})]
    /\ UNCHANGED <<tour, departure, today, night, drifted, duty>>

\* The entries of the form that are not too late.
Wanted(h) == {f \in handler[h].form : f.day > today}
OnSale(day) == {i \in Rows : Upcoming(i) /\ departure[i].day = day}

\* What the entries can meet: of each date one row, if it has any.  Which of several
\* is a matter of their sortOrder.
FirstRows(form) ==
    {kept \in SUBSET UNION {OnSale(f.day) : f \in form} :
        \A f \in form : OnSale(f.day) # {} => \E i \in Rows : kept \cap OnSale(f.day) = {i}}

\* Mutant: entries never meet the row of their date.
BeginReplaceMeetingNone(h) ==
    /\ handler[h].op = "form"
    /\ Found
    /\ handler' = [handler EXCEPT ![h] = Schedule("save", Wanted(h), {}, {})]
    /\ UNCHANGED <<tour, departure, today, night, drifted, duty>>

\* bulkReplace: the check of the tour, and the rows that its transaction reads.  The
\* two are one step, for nothing here depends on a tour that is trashed in between.
BeginReplace(h) ==
    /\ handler[h].op = "form"
    /\ Found
    /\ \E kept \in FirstRows(Wanted(h)) :
          handler' = [handler EXCEPT ![h] = Schedule("save", Wanted(h), kept, {})]
    /\ UNCHANGED <<tour, departure, today, night, drifted, duty>>

\* One of hs has written the row and holds its lock until its transaction ends.
Locked(i, hs) == \E g \in hs : handler[g].op = "commit" /\ i \in handler[g].kept

\* Mutant: rows go off sale only when the form does not have their date.
WriteScheduleByDate(h) ==
    /\ handler[h].op = "save"
    /\ ~tour.gone
    /\ \A i \in handler[h].kept : ~Locked(i, Handlers \ {h})
    /\ LET off == {i \in Rows : departure[i].active
                                /\ \A f \in handler[h].form : f.day # departure[i].day}
       IN  handler' = [handler EXCEPT ![h].op = "commit", ![h].off = off]
    /\ UNCHANGED <<tour, departure, today, night, drifted, duty>>

\* The entries are written, and every other active row that others have committed by
\* now is to go off sale: the ids are those of the first read, the rows are not.  The
\* loop locks rows one by one; nobody changes a row that it has locked, so it may as
\* well lock them all at its end.  In a deleted tour no row is found by its id.
WriteSchedule(h) ==
    /\ handler[h].op = "save"
    /\ ~tour.gone
    /\ \A i \in handler[h].kept : ~Locked(i, Handlers \ {h})
    /\ LET off == {i \in Rows : departure[i].active} \ handler[h].kept
       IN  handler' = [handler EXCEPT ![h].op = "commit", ![h].off = off]
    /\ UNCHANGED <<tour, departure, today, night, drifted, duty>>

\* The seats that the form gives to a row, and the entries that get a new row.
FormSeats(h, i) == (CHOOSE f \in handler[h].form : f.day = departure[i].day).seats
Added(h) == {f \in handler[h].form : \A i \in handler[h].kept : departure[i].day # f.day}

Rewritten(h) ==
    [i \in Rows |->
        IF i \in handler[h].kept
        THEN [departure[i] EXCEPT !.active = TRUE, !.seats = FormSeats(h, i), !.by = h]
        ELSE [departure[i] EXCEPT !.active = @ /\ i \notin handler[h].off]]

NewRow(h, f) ==
    [day |-> f.day, active |-> TRUE, seats |-> f.seats, sold |-> 0, offered |-> f.seats, by |-> h]

\* Rows for entries, in some order.
NewRows(h, entries) ==
    LET list == SetToSeq(entries) IN [n \in DOMAIN list |-> NewRow(h, list[n])]

\* Others see the rows.  A row that goes off sale may be one that another transaction
\* has written: the update waits for it, and two that wait for each other are aborted.
CommitReplace(h) ==
    /\ handler[h].op = "commit"
    /\ \A i \in handler[h].off : ~Locked(i, Handlers \ {h})
    /\ Len(departure) + Cardinality(Added(h)) <= MaxRows
    /\ departure' = Rewritten(h) \o NewRows(h, Added(h))
    /\ drifted' = (drifted \/ \E i \in handler[h].kept : departure[i].seats # FormSeats(h, i))
    /\ handler' = [handler EXCEPT ![h] = Idle]
    /\ UNCHANGED <<tour, today, night, duty>>

-----------------------------------------------------------------------------
(* Bookings, as they touch the tour.                                       *)

\* The transaction of create reads the tour and the departure.
Book(h) ==
    /\ Found
    /\ "book" \in duty[h]
    /\ handler[h].op = "idle"
    /\ \E i \in Rows :
          /\ Upcoming(i)
          /\ departure[i].seats > 0
          /\ handler' = [handler EXCEPT ![h] = Work("book", FALSE, i)]
    /\ UNCHANGED <<tour, departure, today, night, drifted, duty>>

\* Seats of a row that pass from free to sold.
Sold(row, n) == [row EXCEPT !.seats = row.seats - n, !.sold = row.sold + n]

Sell(i) == departure' = [departure EXCEPT ![i] = Sold(@, 1)]

\* Mutant: the reservation trusts the seats that were read.
ReserveUnchecked(h) ==
    /\ handler[h].op = "book"
    /\ ~Locked(handler[h].row, Handlers)
    /\ LET i == handler[h].row
       IN  IF i \in Rows
           THEN Sell(i) /\ tour' = [tour EXCEPT !.booked = TRUE]
           ELSE UNCHANGED <<tour, departure>>
    /\ handler' = [handler EXCEPT ![h] = Idle]
    /\ UNCHANGED <<today, night, drifted, duty>>

\* reserveSeatsAtomically, and the new row of the booking.
Reserve(h) ==
    /\ handler[h].op = "book"
    /\ ~Locked(handler[h].row, Handlers)
    /\ LET i == handler[h].row
       IN  IF i \in Rows /\ departure[i].active /\ departure[i].seats > 0
           THEN Sell(i) /\ tour' = [tour EXCEPT !.booked = TRUE]
           ELSE UNCHANGED <<tour, departure>>
    /\ handler' = [handler EXCEPT ![h] = Idle]
    /\ UNCHANGED <<today, night, drifted, duty>>

\* releaseSeats: whatever became of the departure, a booking gives back its seat.
Release(i) ==
    /\ ~Locked(i, Handlers)
    /\ departure[i].sold > 0
    /\ departure' = [departure EXCEPT ![i] = Sold(@, -1)]
    /\ UNCHANGED <<tour, today, handler, night, drifted, duty>>

-----------------------------------------------------------------------------
(* The cron job, time, and restarts.                                       *)

\* Midnight: departures of today and before are archived.  That the day changes only
\* with the pass, also when the pass waits for a lock, is an abstraction: it orders a
\* transaction that spans midnight before it.
HandleExpiredTours ==
    /\ night = "idle"
    /\ \E d \in {today, today + 1} \cap Days :
          /\ today' = d
          /\ d = today => today = LastDay
          /\ \A i \in Rows : departure[i].active /\ departure[i].day <= d => ~Locked(i, Handlers)
          /\ departure' = [i \in Rows |->
                 [departure[i] EXCEPT !.active = @ /\ departure[i].day > d]]
    /\ night' = "complete"
    /\ UNCHANGED <<tour, handler, drifted, duty>>

\* Nothing of the tour can be booked any more: no departure that is still to come,
\* or, without departures, the start date.
Over ==
    IF Rows = {} THEN StartDay <= today
    ELSE \A i \in Rows : ~Upcoming(i)

\* Mutant: only a tour without departures completes.
CompleteToursByStartDate ==
    /\ night = "complete"
    /\ tour' = IF tour.status = "PUBLISHED" /\ Rows = {} /\ StartDay <= today
               THEN [tour EXCEPT !.status = "COMPLETED"] ELSE tour
    /\ night' = "idle"
    /\ UNCHANGED <<departure, today, handler, drifted, duty>>

\* The second update of the pass, on tours in the trash too.
CompleteTours ==
    /\ night = "complete"
    /\ tour' = IF tour.status = "PUBLISHED" /\ Over
               THEN [tour EXCEPT !.status = "COMPLETED"] ELSE tour
    /\ night' = "idle"
    /\ UNCHANGED <<departure, today, handler, drifted, duty>>

\* A statement fails, or the process restarts.
Abandon(h) ==
    /\ handler[h].op # "idle"
    /\ handler' = [handler EXCEPT ![h] = Idle]
    /\ UNCHANGED <<tour, departure, today, night, drifted, duty>>

AbandonNight ==
    /\ night = "complete"
    /\ night' = "idle"
    /\ UNCHANGED <<tour, departure, today, handler, drifted, duty>>

-----------------------------------------------------------------------------
Reads(h) ==
    \/ SubmitForReview(h) \/ ReviewTour(h) \/ PublishTour(h)
    \/ Update(h) \/ PermanentDelete(h) \/ ReplacePackages(h)
    \/ OpenForm(h) \/ Book(h)

Proceeds(h) ==
    \/ WorkflowWrite(h) \/ UpdateWrite(h) \/ DestroyWrite(h)
    \/ DeletePackages(h) \/ CreatePackages(h)
    \/ BeginReplace(h) \/ WriteSchedule(h) \/ CommitReplace(h) \/ Reserve(h)

Next ==
    \/ \E h \in Handlers : Reads(h) \/ Proceeds(h) \/ Abandon(h)
    \/ RemoveTour \/ RestoreTour \/ EditPackage
    \/ \E i \in Rows : Release(i)
    \/ HandleExpiredTours \/ CompleteTours \/ AbandonNight

\* A transaction commits, or fails, at the latest when the time Prisma gives it is up.
EndReplace(h) == CommitReplace(h) \/ (handler[h].op = "commit" /\ Abandon(h))

\* Every night has its pass, not every pass fails, and locks are not held for ever.
Fairness ==
    /\ WF_vars(HandleExpiredTours)
    /\ SF_vars(CompleteTours)
    /\ \A h \in Handlers : WF_vars(EndReplace(h))

Spec == Init /\ [][Next]_vars /\ Fairness
-----------------------------------------------------------------------------
(* Properties.                                                             *)

\* A completed tour leaves COMPLETED only by an admin's explicit choice of a
\* status, or by a workflow handler that had read another status before the
\* nightly job completed the tour.
CompletedLeftByStaleWriteOnly ==
    [][tour.status = "COMPLETED" /\ tour'.status # "COMPLETED" =>
          \E h \in Handlers :
              /\ handler'[h] # handler[h]
              /\ \/ handler[h].op = "edit"
                 \/ handler[h].op \in {"submit", "approve", "reject", "publish"}
                    /\ ~handler[h].completed]_vars

\* No departure is sold beyond the seats the office offered, as long as no schedule
\* form was saved with seats that bookings had changed since it was opened.
NeverOversold ==
    ~drifted => \A i \in Rows : departure[i].sold <= departure[i].offered

\* Replacements that overlap can put a date on sale more than once, for each creates
\* the row it did not see; but the rows of a date were put on sale by different
\* handlers: whoever saves the schedule again ends what there was of its own.
DateOnSaleOncePerHandler ==
    \A i, j \in Rows :
        /\ Upcoming(i) /\ Upcoming(j)
        /\ departure[i].day = departure[j].day /\ departure[i].by = departure[j].by
        => i = j

\* A save never ends the sale of a row that its own handler had put on sale, and that
\* may have bookings, while the row's date stays in the form, unless a row of that date
\* which another handler put on sale goes on instead.  The comment of bulkReplace
\* promises that every date which stays keeps its row; overlapping replacements break
\* that only this far.
OwnRowsStayOnSale ==
    [][\A h \in Handlers, i \in Rows :
          /\ handler[h].op = "commit" /\ handler'[h].op = "idle" /\ departure' # departure
          /\ departure[i].active /\ departure[i].by = h
          /\ \E f \in handler[h].form : f.day = departure[i].day
          => \/ departure'[i].active
             \/ \E j \in Rows : /\ departure[j].by # h /\ departure'[j].active
                                /\ departure[j].day = departure[i].day]_vars

\* A tour that has a booking is never deleted, although permanentDelete counts the
\* bookings before it deletes.
BookedTourIsKept == tour.gone => ~tour.booked

\* A published tour that cannot be booked any more is completed, or gets a new
\* departure, or leaves the catalogue.
DeadTourCloses ==
    tour.status = "PUBLISHED" /\ Rows # {} /\ Over /\ ~tour.gone
        ~> tour.status # "PUBLISHED" \/ ~Over \/ tour.gone
=============================================================================
