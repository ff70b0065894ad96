-------------------------- MODULE CatalogueProofs --------------------------
(***************************************************************************)
(* The safety of the catalogue for any number of handlers, rows and days.  *)
(***************************************************************************)
EXTENDS Catalogue, FiniteSetTheorems, TLAPS

TourType == [status: Statuses, ready: BOOLEAN, trashed: BOOLEAN, booked: BOOLEAN, gone: BOOLEAN]
HandlerType ==
    [op: Ops, completed: BOOLEAN, row: 0..MaxRows, form: SUBSET [day: Days, seats: Nat],
     kept: SUBSET (1..MaxRows), off: SUBSET (1..MaxRows)]

\* A deleted tour took its departures along, and nobody had booked it.
GoneInv == tour.gone => Rows = {} /\ ~tour.booked

\* A workflow handler did not read a completed tour.
WorkflowInv == \A h \in Handlers : handler[h].op \in Workflow => ~handler[h].completed

\* A form has one entry per day.
FormsInv ==
    \A h \in Handlers : handler[h].op \in {"form", "save", "commit"} =>
        IsFiniteSet(handler[h].form) /\ OnePerDay(handler[h].form)

\* A seat is free or sold.
SeatsInv == drifted \/ \A i \in Rows : departure[i].seats + departure[i].sold = departure[i].offered

\* A handler has put at most one row of a date on sale.
OnceInv ==
    \A i, j \in Rows :
        /\ departure[i].active /\ departure[j].active
        /\ departure[i].day = departure[j].day /\ departure[i].by = departure[j].by
        => i = j

\* A schedule between its read and its commit.
Planned(h) == handler[h].op \in {"save", "commit"}
InForm(h, i) == \E f \in handler[h].form : f.day = departure[i].day

\* It keeps one row at most of each of its dates.
KeptInv ==
    \A h \in Handlers : Planned(h) /\ ~tour.gone =>
        /\ handler[h].kept \subseteq Rows
        /\ \A i \in handler[h].kept : InForm(h, i)
        /\ \A i, j \in handler[h].kept : departure[i].day = departure[j].day => i = j

\* It keeps the row that its handler has on sale for a date of the form, or another
\* handler's in its place.
OwnInv ==
    \A h \in Handlers : Planned(h) /\ ~tour.gone =>
        \A i \in Rows : departure[i].active /\ departure[i].by = h /\ InForm(h, i) =>
            \E j \in handler[h].kept : departure[j].day = departure[i].day
                                       /\ (departure[j].by = h => j = i)

\* Once it is written, every row that its handler has on sale is kept or goes off sale.
CommitInv ==
    \A h \in Handlers : handler[h].op = "commit" =>
        /\ ~tour.gone
        /\ \A i \in Rows : departure[i].active /\ departure[i].by = h =>
              i \in handler[h].kept \cup handler[h].off

PlansInv == KeptInv /\ OwnInv /\ CommitInv

CatalogueInv == TypeOK /\ GoneInv /\ WorkflowInv /\ FormsInv /\ SeatsInv /\ OnceInv /\ PlansInv

-----------------------------------------------------------------------------
(* Types of the parts.                                                     *)

LEMMA TypesUnfold ==
    TypeOK <=>
        /\ tour \in TourType
        /\ departure \in Seq(Row) /\ Len(departure) <= MaxRows
        /\ today \in Days
        /\ handler \in [Handlers -> HandlerType]
        /\ night \in {"idle", "complete"}
        /\ drifted \in BOOLEAN
        /\ duty \in [Handlers -> SUBSET Kinds]
BY DEF TypeOK, TourType, HandlerType

LEMMA RowsAre ==
    ASSUME departure \in Seq(Row)
    PROVE  /\ Rows = 1..Len(departure) /\ Len(departure) \in Nat
           /\ \A i \in Rows : departure[i] \in Row
BY DEF Rows

LEMMA WorkIs ==
    ASSUME NEW op \in Ops, NEW completed \in BOOLEAN, NEW row \in 0..MaxRows
    PROVE  /\ Work(op, completed, row) \in HandlerType
           /\ Work(op, completed, row).op = op
           /\ Work(op, completed, row).completed = completed
BY DEF Work, HandlerType

LEMMA IdleType == Idle \in HandlerType /\ Idle.op = "idle"
<1>1. "idle" \in Ops /\ FALSE \in BOOLEAN /\ 0 \in 0..MaxRows
  BY NumbersAssumption DEF Ops
<1> QED
  BY <1>1, WorkIs DEF Idle

LEMMA ScheduleIs ==
    ASSUME NEW op \in Ops, NEW form \in SUBSET [day: Days, seats: Nat],
           NEW kept \in SUBSET (1..MaxRows), NEW off \in SUBSET (1..MaxRows)
    PROVE  /\ Schedule(op, form, kept, off) \in HandlerType
           /\ Schedule(op, form, kept, off).op = op
           /\ Schedule(op, form, kept, off).form = form
           /\ Schedule(op, form, kept, off).kept = kept
<1>1. Idle \in HandlerType
  BY IdleType
<1>2. Schedule(op, form, kept, off)
        = [Idle EXCEPT !.op = op, !.form = form, !.kept = kept, !.off = off]
  BY DEF Schedule
<1> QED
  BY <1>1, <1>2 DEF HandlerType

-----------------------------------------------------------------------------
(* A request is read: only its handler moves.                              *)

HandlersFine == handler \in [Handlers -> HandlerType] /\ WorkflowInv /\ FormsInv

\* No schedule is read or written.
NoPlan == \A x \in Handlers : handler'[x] = handler[x] \/ handler'[x].op \notin {"save", "commit"}

LEMMA HandlersStep ==
    ASSUME CatalogueInv, NEW h \in Handlers, NEW work \in HandlerType,
           handler' = [handler EXCEPT ![h] = work],
           work.op \in Workflow => ~work.completed,
           work.op \in {"form", "save", "commit"} => IsFiniteSet(work.form) /\ OnePerDay(work.form)
    PROVE  /\ handler' \in [Handlers -> HandlerType]
           /\ handler'[h] = work
           /\ \A x \in Handlers \ {h} : handler'[x] = handler[x]
           /\ HandlersFine'
           /\ work.op \notin {"save", "commit"} => NoPlan
<1>1. /\ handler' \in [Handlers -> HandlerType]
      /\ handler'[h] = work
      /\ \A x \in Handlers \ {h} : handler'[x] = handler[x]
  BY TypesUnfold DEF CatalogueInv
<1>2. WorkflowInv'
  BY <1>1 DEF CatalogueInv, WorkflowInv
<1>3. FormsInv'
  BY <1>1 DEF CatalogueInv, FormsInv
<1>4. work.op \notin {"save", "commit"} => NoPlan
  BY <1>1 DEF NoPlan
<1> QED
  BY <1>1, <1>2, <1>3, <1>4 DEF HandlersFine

\* Schedules on their way do not mind when rows keep their days and their handlers,
\* and none comes back on sale.
LEMMA PlansStep ==
    ASSUME CatalogueInv, NoPlan, tour'.gone = tour.gone, Rows' = Rows,
           \A i \in Rows :
              /\ departure'[i].day = departure[i].day /\ departure'[i].by = departure[i].by
              /\ departure'[i].active => departure[i].active
    PROVE  OnceInv' /\ PlansInv'
<1>1. OnceInv'
  BY DEF CatalogueInv, OnceInv
<1>2. \A h \in Handlers : Planned(h)' => Planned(h) /\ handler'[h] = handler[h]
  BY DEF NoPlan, Planned
<1>3. KeptInv'
  BY <1>2 DEF CatalogueInv, PlansInv, KeptInv, InForm
<1>4. OwnInv'
  <2> SUFFICES ASSUME NEW h \in Handlers, Planned(h)', ~tour'.gone, NEW i \in Rows,
                      departure'[i].active, departure'[i].by = h, InForm(h, i)'
               PROVE  \E j \in handler'[h].kept : departure'[j].day = departure'[i].day
                                                  /\ (departure'[j].by = h => j = i)
    BY DEF OwnInv
  <2>1. Planned(h) /\ handler'[h] = handler[h] /\ ~tour.gone
    BY <1>2
  <2>2. departure[i].active /\ departure[i].by = h /\ InForm(h, i)
    BY <2>1 DEF InForm
  <2>3. PICK j \in handler[h].kept : departure[j].day = departure[i].day
                                    /\ (departure[j].by = h => j = i)
    BY <2>1, <2>2 DEF CatalogueInv, PlansInv, OwnInv
  <2>4. j \in Rows
    BY <2>1 DEF CatalogueInv, PlansInv, KeptInv
  <2> QED
    BY <2>1, <2>3, <2>4
<1>5. CommitInv'
  BY DEF CatalogueInv, PlansInv, CommitInv, NoPlan
<1> QED
  BY <1>1, <1>3, <1>4, <1>5 DEF PlansInv

LEMMA AsksStep ==
    ASSUME CatalogueInv, NEW h \in Handlers, NEW work \in HandlerType,
           handler' = [handler EXCEPT ![h] = work],
           work.op \notin {"save", "commit"},
           work.op \in Workflow => ~work.completed,
           work.op = "form" => IsFiniteSet(work.form) /\ OnePerDay(work.form),
           UNCHANGED <<tour, departure, today, night, drifted, duty>>
    PROVE  CatalogueInv'
<1>1. HandlersFine' /\ NoPlan
  BY HandlersStep
<1>2. TypeOK'
  BY <1>1, TypesUnfold DEF CatalogueInv, HandlersFine, TypeOK, TourType, HandlerType
<1>3. OnceInv' /\ PlansInv'
  BY <1>1, PlansStep DEF Rows
<1> QED
  BY <1>1, <1>2, <1>3 DEF CatalogueInv, HandlersFine, GoneInv, SeatsInv, Rows

LEMMA StartsStep ==
    ASSUME CatalogueInv, NEW h \in Handlers, NEW op \in Kinds \ {"form"}, Starts(h, op),
           op \in Workflow => tour.status # "COMPLETED"
    PROVE  CatalogueInv'
<1> DEFINE completed == op \in Workflow /\ tour.status = "COMPLETED"
           work == Work(op, completed, 0)
<1>1. op \in Ops /\ op \notin {"save", "commit", "form"}
  BY DEF Ops, Kinds, Workflow
<1>2. work \in HandlerType /\ work.op = op /\ work.completed = completed
  <2>1. completed \in BOOLEAN /\ 0 \in 0..MaxRows
    BY NumbersAssumption
  <2> HIDE DEF completed
  <2> QED
    BY <1>1, <2>1, WorkIs
<1>3. handler' = [handler EXCEPT ![h] = work]
      /\ UNCHANGED <<tour, departure, today, night, drifted, duty>>
  BY DEF Starts
<1>4. op \in Workflow => ~completed
  OBVIOUS
<1> HIDE DEF work, completed
<1> QED
  BY <1>1, <1>2, <1>3, <1>4, AsksStep

LEMMA RequestsStep ==
    ASSUME CatalogueInv, NEW h \in Handlers,
           \/ SubmitForReview(h) \/ ReviewTour(h) \/ PublishTour(h)
           \/ Update(h) \/ PermanentDelete(h) \/ ReplacePackages(h)
    PROVE  CatalogueInv'
<1>1. CASE SubmitForReview(h)
  BY <1>1, StartsStep DEF SubmitForReview, Kinds, Workflow
<1>2. CASE ReviewTour(h)
  BY <1>2, StartsStep DEF ReviewTour, Kinds, Workflow
<1>3. CASE PublishTour(h)
  BY <1>3, StartsStep DEF PublishTour, Kinds, Workflow
<1>4. CASE Update(h)
  BY <1>4, StartsStep DEF Update, Kinds, Workflow
<1>5. CASE PermanentDelete(h)
  BY <1>5, StartsStep DEF PermanentDelete, Kinds, Workflow
<1>6. CASE ReplacePackages(h)
  BY <1>6, StartsStep DEF ReplacePackages, Kinds, Workflow
<1> QED
  BY <1>1, <1>2, <1>3, <1>4, <1>5, <1>6

LEMMA BookStep ==
    ASSUME CatalogueInv, NEW h \in Handlers, Book(h)
    PROVE  CatalogueInv'
<1>1. PICK i \in Rows : handler' = [handler EXCEPT ![h] = Work("book", FALSE, i)]
  BY DEF Book
<1>2. UNCHANGED <<tour, departure, today, night, drifted, duty>>
  BY DEF Book
<1>3. i \in 0..MaxRows
  BY TypesUnfold, RowsAre, NumbersAssumption DEF CatalogueInv
<1> DEFINE work == Work("book", FALSE, i)
<1>4. work \in HandlerType /\ work.op = "book" /\ ~work.completed
  BY <1>3, WorkIs DEF Ops, Kinds
<1>5. handler' = [handler EXCEPT ![h] = work]
  BY <1>1
<1> HIDE DEF work
<1> QED
  BY <1>2, <1>4, <1>5, AsksStep

\* A form has finitely many entries.
LEMMA OpenFormStep ==
    ASSUME CatalogueInv, NEW h \in Handlers, OpenForm(h)
    PROVE  CatalogueInv'
<1> DEFINE on == {j \in Rows : Upcoming(j)}
           entry(i) == [day |-> departure[i].day, seats |-> departure[i].seats]
           shown == {entry(i) : i \in on}
           days == (today + 1)..LastDay \ {f.day : f \in shown}
           added == {[day |-> d, seats |-> NewSeats] : d \in days}
<1>1. PICK form \in SUBSET (shown \cup added) :
        OnePerDay(form) /\ handler' = [handler EXCEPT ![h] = Schedule("form", form, {}, {})]
  BY DEF OpenForm
<1>2. /\ departure \in Seq(Row) /\ today \in Nat /\ LastDay \in Nat /\ NewSeats \in Nat
      /\ Rows = 1..Len(departure) /\ Len(departure) \in Nat
      /\ \A i \in Rows : departure[i].day \in Days /\ departure[i].seats \in Nat
  <2>1. /\ departure \in Seq(Row) /\ today \in Nat /\ LastDay \in Nat /\ NewSeats \in Nat
    BY TypesUnfold, NumbersAssumption DEF CatalogueInv, Days
  <2>2. \A i \in Rows : departure[i].day \in Days /\ departure[i].seats \in Nat
    BY <2>1, RowsAre DEF Row
  <2> QED
    BY <2>1, <2>2, RowsAre
<1>3. IsFiniteSet(shown \cup added)
  <2>1. IsFiniteSet(on)
    <3>1. IsFiniteSet(Rows)
      BY <1>2, FS_Interval
    <3> QED
      BY <3>1, FS_Subset
  <2>2. IsFiniteSet(shown)
    <3>1. [i \in on |-> entry(i)] \in Surjection(on, shown)
      BY DEF Surjection
    <3> QED
      BY <2>1, <3>1, FS_Surjection
  <2>3. IsFiniteSet(days)
    <3>1. IsFiniteSet((today + 1)..LastDay)
      BY <1>2, FS_Interval
    <3> QED
      BY <3>1, FS_Subset
  <2>4. IsFiniteSet(added)
    <3>1. [d \in days |-> [day |-> d, seats |-> NewSeats]] \in Surjection(days, added)
      BY DEF Surjection
    <3> QED
      BY <2>3, <3>1, FS_Surjection
  <2> QED
    BY <2>2, <2>4, FS_Union
<1>4. IsFiniteSet(form)
  BY <1>3, FS_Subset
<1>5. form \subseteq [day: Days, seats: Nat]
  <2>1. shown \subseteq [day: Days, seats: Nat]
    BY <1>2
  <2>2. added \subseteq [day: Days, seats: Nat]
    BY <1>2 DEF Days
  <2> QED
    BY <2>1, <2>2
<1> HIDE DEF shown, added
<1> DEFINE work == Schedule("form", form, {}, {})
<1>6. work \in HandlerType /\ work.op = "form" /\ work.form = form
  BY <1>5, ScheduleIs DEF Ops, Kinds
<1>7. handler' = [handler EXCEPT ![h] = work]
      /\ UNCHANGED <<tour, departure, today, night, drifted, duty>>
  BY <1>1 DEF OpenForm
<1> HIDE DEF work
<1>8. work.op \notin Workflow
  BY <1>6 DEF Workflow
<1> QED
  BY <1>1, <1>4, <1>6, <1>7, <1>8, AsksStep
-----------------------------------------------------------------------------
(* A request ends, or the tour row changes: departures stay.               *)

LEMMA HandlersStay ==
    ASSUME CatalogueInv, UNCHANGED handler
    PROVE  HandlersFine' /\ NoPlan
BY TypesUnfold DEF HandlersFine, CatalogueInv, WorkflowInv, FormsInv, NoPlan

LEMMA HandlerEnds ==
    ASSUME CatalogueInv, NEW h \in Handlers, handler' = [handler EXCEPT ![h] = Idle]
    PROVE  HandlersFine' /\ NoPlan
<1>1. Idle \in HandlerType /\ Idle.op \notin Workflow \cup {"form", "save", "commit"}
  BY IdleType DEF Workflow
<1> QED
  BY <1>1, HandlersStep

LEMMA TourStep ==
    ASSUME CatalogueInv, HandlersFine', NoPlan, tour' \in TourType,
           tour'.gone = tour.gone, tour'.booked = tour.booked,
           UNCHANGED <<departure, today, drifted, duty>>, night' \in {"idle", "complete"}
    PROVE  CatalogueInv'
<1>1. TypeOK'
  BY TypesUnfold DEF CatalogueInv, HandlersFine, TypeOK, TourType, HandlerType
<1>2. OnceInv' /\ PlansInv'
  BY PlansStep DEF Rows
<1> QED
  BY <1>1, <1>2 DEF CatalogueInv, HandlersFine, GoneInv, SeatsInv, Rows

LEMMA WritesStep ==
    ASSUME CatalogueInv, NEW h \in Handlers, NEW op, NEW row \in TourType, Writes(h, op, row),
           row.gone = tour.gone, row.booked = tour.booked
    PROVE  CatalogueInv'
<1>1. HandlersFine' /\ NoPlan
  BY HandlerEnds DEF Writes
<1>2. /\ tour' \in TourType
      /\ tour'.gone = tour.gone /\ tour'.booked = tour.booked
      /\ UNCHANGED <<departure, today, drifted, duty>> /\ night' \in {"idle", "complete"}
  BY TypesUnfold DEF Writes, CatalogueInv
<1> QED
  BY <1>1, <1>2, TourStep

LEMMA SetsStatusStep ==
    ASSUME CatalogueInv, NEW h \in Handlers, NEW op, NEW status \in Statuses,
           SetsStatus(h, op, status)
    PROVE  CatalogueInv'
<1> DEFINE row == [tour EXCEPT !.status = status]
<1>1. row \in TourType /\ row.gone = tour.gone /\ row.booked = tour.booked
  BY TypesUnfold DEF CatalogueInv, TourType
<1>2. Writes(h, op, row)
  BY DEF SetsStatus
<1> HIDE DEF row
<1> QED
  BY <1>1, <1>2, WritesStep

LEMMA HandlerWritesStep ==
    ASSUME CatalogueInv, NEW h \in Handlers,
           WorkflowWrite(h) \/ UpdateWrite(h) \/ CreatePackages(h) \/ DeletePackages(h) \/ Abandon(h)
    PROVE  CatalogueInv'
<1>0. tour \in TourType
  BY TypesUnfold DEF CatalogueInv
<1>1. CASE WorkflowWrite(h)
  BY <1>1, SetsStatusStep DEF WorkflowWrite, Statuses
<1>2. CASE UpdateWrite(h)
  <2>1. PICK ready \in BOOLEAN, status \in Statuses :
          Writes(h, "edit", [tour EXCEPT !.ready = ready, !.status = status])
    BY <1>2 DEF UpdateWrite
  <2> DEFINE row == [tour EXCEPT !.ready = ready, !.status = status]
  <2>2. row \in TourType /\ row.gone = tour.gone /\ row.booked = tour.booked
    BY <1>0 DEF TourType
  <2> HIDE DEF row
  <2> QED
    BY <2>1, <2>2, WritesStep DEF row
<1>3. CASE CreatePackages(h)
  <2>1. PICK ready \in BOOLEAN : Writes(h, "addPackages", [tour EXCEPT !.ready = ready])
    BY <1>3 DEF CreatePackages
  <2> DEFINE row == [tour EXCEPT !.ready = ready]
  <2>2. row \in TourType /\ row.gone = tour.gone /\ row.booked = tour.booked
    BY <1>0 DEF TourType
  <2> HIDE DEF row
  <2> QED
    BY <2>1, <2>2, WritesStep DEF row
<1>4. CASE DeletePackages(h)
  <2>1. /\ tour' \in TourType
        /\ tour'.gone = tour.gone /\ tour'.booked = tour.booked
        /\ UNCHANGED <<departure, today, drifted, duty>> /\ night' \in {"idle", "complete"}
    BY <1>0, <1>4, TypesUnfold DEF DeletePackages, TourType, CatalogueInv
  <2>2. HandlersFine' /\ NoPlan
    <3>1. CASE handler' = [handler EXCEPT ![h] = Work("addPackages", FALSE, 0)]
      <4> DEFINE work == Work("addPackages", FALSE, 0)
      <4>1. /\ work \in HandlerType
            /\ work.op \notin Workflow \cup {"form", "save", "commit"}
        <5>1. "addPackages" \in Ops /\ FALSE \in BOOLEAN /\ 0 \in 0..MaxRows
          BY NumbersAssumption DEF Ops
        <5>2. work \in HandlerType /\ work.op = "addPackages"
          BY <5>1, WorkIs
        <5> QED
          BY <5>2 DEF Workflow
      <4>2. handler' = [handler EXCEPT ![h] = work]
        BY <3>1
      <4> HIDE DEF work
      <4> QED
        BY <4>1, <4>2, HandlersStep
    <3>2. CASE handler' = [handler EXCEPT ![h] = Idle]
      BY <3>2, HandlerEnds
    <3> QED
      BY <1>4, <3>1, <3>2 DEF DeletePackages
  <2> QED
    BY <2>1, <2>2, TourStep
<1>5. CASE Abandon(h)
  <2>1. HandlersFine' /\ NoPlan
    BY <1>5, HandlerEnds DEF Abandon
  <2>2. UNCHANGED <<tour, departure, today, night, drifted, duty>> /\ night \in {"idle", "complete"}
    BY <1>5, TypesUnfold DEF Abandon, CatalogueInv
  <2> QED
    BY <1>0, <2>1, <2>2, TourStep
<1> QED
  BY <1>1, <1>2, <1>3, <1>4, <1>5

LEMMA TourChangesStep ==
    ASSUME CatalogueInv,
           RemoveTour \/ RestoreTour \/ EditPackage \/ CompleteTours \/ AbandonNight
    PROVE  CatalogueInv'
<1>1. HandlersFine' /\ NoPlan
  BY HandlersStay DEF RemoveTour, RestoreTour, EditPackage, CompleteTours, AbandonNight
<1>2. tour \in TourType /\ night \in {"idle", "complete"}
  BY TypesUnfold DEF CatalogueInv
<1>3. /\ tour' \in TourType
      /\ tour'.gone = tour.gone /\ tour'.booked = tour.booked
  BY <1>2
  DEF RemoveTour, RestoreTour, EditPackage, CompleteTours, AbandonNight, TourType, Statuses
<1>4. UNCHANGED <<departure, today, drifted, duty>> /\ night' \in {"idle", "complete"}
  BY <1>2 DEF RemoveTour, RestoreTour, EditPackage, CompleteTours, AbandonNight
<1> QED
  BY <1>1, <1>3, <1>4, TourStep
-----------------------------------------------------------------------------
(* The departures change.                                                  *)

LEMMA DestroyStep ==
    ASSUME CatalogueInv, NEW h \in Handlers, DestroyWrite(h)
    PROVE  CatalogueInv'
<1>1. HandlersFine' /\ NoPlan
  BY HandlerEnds DEF DestroyWrite
<1>2. tour \in TourType /\ night \in {"idle", "complete"}
  BY TypesUnfold DEF CatalogueInv
<1>3. UNCHANGED <<today, night, drifted, duty>>
  BY DEF DestroyWrite
<1>4. CASE tour.booked
  <2>1. UNCHANGED <<tour, departure>>
    BY <1>4 DEF DestroyWrite
  <2> QED
    BY <1>1, <1>2, <1>3, <2>1, TourStep
<1>5. CASE ~tour.booked
  <2>1. tour' = [tour EXCEPT !.gone = TRUE] /\ departure' = <<>>
    BY <1>5 DEF DestroyWrite
  <2>2. tour' \in TourType /\ ~tour'.booked
    BY <1>2, <1>5, <2>1 DEF TourType
  <2>3. departure' \in Seq(Row) /\ Len(departure') = 0 /\ Rows' = {}
    BY <2>1 DEF Rows
  <2>4. TypeOK'
    BY <1>1, <1>3, <2>2, <2>3, TypesUnfold, NumbersAssumption
    DEF CatalogueInv, HandlersFine, TypeOK, TourType, HandlerType
  <2>5. GoneInv' /\ SeatsInv' /\ OnceInv'
    BY <2>2, <2>3 DEF GoneInv, SeatsInv, OnceInv
  <2>6. \A x \in Handlers : handler'[x].op # "commit"
    BY <1>1 DEF DestroyWrite, NoPlan
  <2>7. PlansInv'
    <3>1. tour'.gone
      BY <1>2, <2>1 DEF TourType
    <3> QED
      BY <2>6, <3>1 DEF PlansInv, KeptInv, OwnInv, CommitInv
  <2> QED
    BY <1>1, <2>4, <2>5, <2>7 DEF CatalogueInv, HandlersFine
<1> QED
  BY <1>4, <1>5

\* The rows keep their days and sums, and none comes back on sale.
LEMMA RowsStep ==
    ASSUME CatalogueInv, HandlersFine', NoPlan, tour' \in TourType,
           tour'.gone = tour.gone, tour.gone => tour'.booked = tour.booked,
           departure' \in Seq(Row), Len(departure') = Len(departure),
           today' \in Days, night' \in {"idle", "complete"}, UNCHANGED <<drifted, duty>>,
           \A i \in Rows :
              /\ departure'[i].day = departure[i].day /\ departure'[i].by = departure[i].by
              /\ departure'[i].active => departure[i].active
              /\ departure'[i].seats + departure'[i].sold = departure[i].seats + departure[i].sold
              /\ departure'[i].offered = departure[i].offered
    PROVE  CatalogueInv'
<1>1. departure \in Seq(Row)
  BY TypesUnfold DEF CatalogueInv
<1>2. Rows = 1..Len(departure) /\ Rows' = Rows
  BY <1>1 DEF Rows
<1>3. TypeOK'
  BY TypesUnfold DEF CatalogueInv, HandlersFine, TypeOK, TourType, HandlerType
<1>4. GoneInv'
  BY <1>2 DEF CatalogueInv, GoneInv
<1>5. SeatsInv'
  BY <1>2 DEF CatalogueInv, SeatsInv
<1>6. OnceInv' /\ PlansInv'
  BY <1>2, PlansStep
<1> QED
  BY <1>3, <1>4, <1>5, <1>6 DEF CatalogueInv, HandlersFine

LEMMA SoldIs ==
    ASSUME NEW r \in Row, NEW n \in Int, r.seats - n \in Nat, r.sold + n \in Nat
    PROVE  /\ Sold(r, n) \in Row
           /\ Sold(r, n).day = r.day /\ Sold(r, n).active = r.active
           /\ Sold(r, n).seats + Sold(r, n).sold = r.seats + r.sold
           /\ Sold(r, n).offered = r.offered /\ Sold(r, n).by = r.by
<1>1. /\ r.day \in Days /\ r.active \in BOOLEAN /\ r.seats \in Nat /\ r.sold \in Nat
      /\ r.offered \in Nat /\ r.by \in Handlers
  BY DEF Row
<1>2. /\ DOMAIN Sold(r, n) = {"day", "active", "seats", "sold", "offered", "by"}
      /\ Sold(r, n).day = r.day /\ Sold(r, n).active = r.active
      /\ Sold(r, n).seats = r.seats - n /\ Sold(r, n).sold = r.sold + n
      /\ Sold(r, n).offered = r.offered /\ Sold(r, n).by = r.by
  BY DEF Sold, Row
<1>3. Sold(r, n) \in Row
  BY <1>1, <1>2 DEF Sold, Row
<1>4. (r.seats - n) + (r.sold + n) = r.seats + r.sold
  BY <1>1
<1> QED
  BY <1>2, <1>3, <1>4

LEMMA SeatStep ==
    ASSUME CatalogueInv, HandlersFine', NoPlan, tour' \in TourType, NEW i \in Rows, NEW r \in Row,
           r.day = departure[i].day, r.by = departure[i].by, r.active = departure[i].active,
           r.seats + r.sold = departure[i].seats + departure[i].sold,
           r.offered = departure[i].offered,
           departure' = [departure EXCEPT ![i] = r],
           tour'.gone = tour.gone, tour.gone => tour'.booked = tour.booked,
           UNCHANGED <<today, night, drifted, duty>>
    PROVE  CatalogueInv'
<1>1. /\ departure \in Seq(Row) /\ today \in Days /\ night \in {"idle", "complete"}
  BY TypesUnfold DEF CatalogueInv
<1>2. Rows = 1..Len(departure) /\ \A j \in Rows : departure[j] \in Row
  BY <1>1, RowsAre
<1>3. departure' \in Seq(Row) /\ Len(departure') = Len(departure)
  BY <1>1, <1>2
<1>4. \A j \in Rows : departure'[j] = IF j = i THEN r ELSE departure[j]
  BY <1>1, <1>2
<1>5. \A j \in Rows :
        /\ departure'[j].day = departure[j].day /\ departure'[j].by = departure[j].by
        /\ departure'[j].active => departure[j].active
        /\ departure'[j].seats + departure'[j].sold = departure[j].seats + departure[j].sold
        /\ departure'[j].offered = departure[j].offered
  BY <1>4
<1>6. today' \in Days /\ night' \in {"idle", "complete"}
  BY <1>1
<1> QED
  BY <1>3, <1>5, <1>6, RowsStep

LEMMA ReserveStep ==
    ASSUME CatalogueInv, NEW h \in Handlers, Reserve(h)
    PROVE  CatalogueInv'
<1>1. HandlersFine' /\ NoPlan /\ UNCHANGED <<today, night, drifted, duty>>
  BY HandlerEnds DEF Reserve
<1>2. tour \in TourType /\ night \in {"idle", "complete"} /\ departure \in Seq(Row)
  BY TypesUnfold DEF CatalogueInv
<1> DEFINE i == handler[h].row
<1>3. CASE i \in Rows /\ departure[i].active /\ departure[i].seats > 0
  <2>1. departure' = [departure EXCEPT ![i] = Sold(departure[i], 1)]
        /\ tour' = [tour EXCEPT !.booked = TRUE]
    BY <1>3 DEF Reserve, Sell
  <2>2. tour' \in TourType /\ ~tour.gone /\ tour'.gone = tour.gone
    BY <1>2, <1>3, <2>1 DEF TourType, CatalogueInv, GoneInv
  <2> HIDE DEF i
  <2>3. departure[i] \in Row
    BY <1>2, <1>3, RowsAre
  <2>4. departure[i].seats - 1 \in Nat /\ departure[i].sold + 1 \in Nat
    BY <1>3, <2>3 DEF Row
  <2> DEFINE r == Sold(departure[i], 1)
  <2>5. /\ r \in Row
        /\ r.day = departure[i].day /\ r.by = departure[i].by /\ r.active = departure[i].active
        /\ r.seats + r.sold = departure[i].seats + departure[i].sold
        /\ r.offered = departure[i].offered
    BY <2>3, <2>4, SoldIs
  <2> HIDE DEF r
  <2>6. departure' = [departure EXCEPT ![i] = r]
    BY <2>1 DEF r
  <2> QED
    BY <1>1, <1>3, <2>2, <2>5, <2>6, SeatStep
<1>4. CASE ~(i \in Rows /\ departure[i].active /\ departure[i].seats > 0)
  <2>1. UNCHANGED <<tour, departure>>
    BY <1>4 DEF Reserve
  <2> QED
    BY <1>1, <1>2, <2>1, TourStep
<1> QED
  BY <1>3, <1>4

LEMMA ReleaseStep ==
    ASSUME CatalogueInv, NEW i \in Rows, Release(i)
    PROVE  CatalogueInv'
<1>1. HandlersFine' /\ NoPlan /\ UNCHANGED <<tour, today, night, drifted, duty>>
  BY HandlersStay DEF Release
<1>2. tour \in TourType /\ departure \in Seq(Row)
  BY TypesUnfold DEF CatalogueInv
<1>3. departure[i] \in Row
  BY <1>2, RowsAre
<1>4. departure[i].seats - (-1) \in Nat /\ departure[i].sold + (-1) \in Nat
  BY <1>3 DEF Row, Release
<1> DEFINE r == Sold(departure[i], -1)
<1>5. /\ r \in Row
      /\ r.day = departure[i].day /\ r.by = departure[i].by /\ r.active = departure[i].active
      /\ r.seats + r.sold = departure[i].seats + departure[i].sold
      /\ r.offered = departure[i].offered
  BY <1>3, <1>4, SoldIs
<1>6. departure' = [departure EXCEPT ![i] = r]
  BY DEF Release
<1> HIDE DEF r
<1> QED
  BY <1>1, <1>2, <1>5, <1>6, SeatStep

LEMMA ExpireStep ==
    ASSUME CatalogueInv, HandleExpiredTours
    PROVE  CatalogueInv'
<1>1. HandlersFine' /\ NoPlan /\ UNCHANGED <<tour, drifted, duty>> /\ night' = "complete"
  BY HandlersStay DEF HandleExpiredTours
<1>2. tour \in TourType /\ departure \in Seq(Row)
  BY TypesUnfold DEF CatalogueInv
<1>3. PICK d \in {today, today + 1} \cap Days :
        /\ today' = d
        /\ departure' = [i \in Rows |->
              [departure[i] EXCEPT !.active = @ /\ departure[i].day > d]]
  BY DEF HandleExpiredTours
<1>4. today' \in Days
  BY <1>3
<1>5. Rows = 1..Len(departure) /\ Len(departure) \in Nat /\ \A i \in Rows : departure[i] \in Row
  BY <1>2, RowsAre
<1> DEFINE row(i) == [departure[i] EXCEPT !.active = @ /\ departure[i].day > d]
<1>6. \A i \in Rows :
        /\ row(i) \in Row
        /\ row(i).day = departure[i].day /\ row(i).by = departure[i].by
        /\ row(i).active => departure[i].active
        /\ row(i).seats + row(i).sold = departure[i].seats + departure[i].sold
        /\ row(i).offered = departure[i].offered
  <2> TAKE i \in Rows
  <2>1. departure[i] \in Row
    BY <1>5
  <2>2. /\ row(i).day = departure[i].day /\ row(i).by = departure[i].by
        /\ row(i).active => departure[i].active
        /\ row(i).seats = departure[i].seats /\ row(i).sold = departure[i].sold
        /\ row(i).offered = departure[i].offered
    BY <2>1 DEF Row
  <2>3. row(i) \in Row
    BY <2>1 DEF Row
  <2> QED
    BY <2>2, <2>3
<1>7. departure' = [i \in Rows |-> row(i)]
  BY <1>3
<1> HIDE DEF row
<1>8. departure' \in Seq(Row) /\ Len(departure') = Len(departure)
  BY <1>5, <1>6, <1>7
<1>9. \A i \in Rows : departure'[i] = row(i)
  BY <1>7
<1>10. \A i \in Rows :
        /\ departure'[i].day = departure[i].day /\ departure'[i].by = departure[i].by
        /\ departure'[i].active => departure[i].active
        /\ departure'[i].seats + departure'[i].sold = departure[i].seats + departure[i].sold
        /\ departure'[i].offered = departure[i].offered
  BY <1>6, <1>9
<1> QED
  BY <1>1, <1>2, <1>4, <1>8, <1>10, RowsStep
-----------------------------------------------------------------------------
(* A schedule is saved.                                                    *)

\* What the transaction read: one row of each date of the form that is on sale.
LEMMA BeginReplaceStep ==
    ASSUME CatalogueInv, NEW h \in Handlers, BeginReplace(h)
    PROVE  CatalogueInv'
<1>1. PICK kept \in FirstRows(Wanted(h)) :
        handler' = [handler EXCEPT ![h] = Schedule("save", Wanted(h), kept, {})]
  BY DEF BeginReplace
<1>2. handler[h].op = "form" /\ UNCHANGED <<tour, departure, today, night, drifted, duty>>
  BY DEF BeginReplace
<1> DEFINE form == Wanted(h)
           work == Schedule("save", form, kept, {})
<1>3. /\ form \subseteq [day: Days, seats: Nat] /\ IsFiniteSet(form) /\ OnePerDay(form)
      /\ \A f \in form : f.day > today
  <2>1. handler[h].form \subseteq [day: Days, seats: Nat]
    BY TypesUnfold DEF CatalogueInv, HandlerType
  <2>2. IsFiniteSet(handler[h].form) /\ OnePerDay(handler[h].form)
    BY <1>2 DEF CatalogueInv, FormsInv
  <2>3. form \subseteq handler[h].form /\ \A f \in form : f.day > today
    BY DEF Wanted
  <2> QED
    BY <2>1, <2>2, <2>3, FS_Subset DEF OnePerDay
<1> HIDE DEF form
<1>4. /\ kept \subseteq UNION {OnSale(f.day) : f \in form}
      /\ \A f \in form : OnSale(f.day) # {} => \E i \in Rows : kept \cap OnSale(f.day) = {i}
  BY DEF FirstRows, form
<1>5. \A i \in kept : i \in Rows /\ \E f \in form : f.day = departure[i].day /\ i \in OnSale(f.day)
  BY <1>4 DEF OnSale
<1>6. work \in HandlerType /\ work.op = "save" /\ work.form = form /\ work.kept = kept
  <2>1. kept \subseteq 1..MaxRows
    BY <1>5, TypesUnfold, RowsAre, NumbersAssumption DEF CatalogueInv
  <2> QED
    BY <1>3, <2>1, ScheduleIs DEF Ops
<1>7. handler' = [handler EXCEPT ![h] = work]
  BY <1>1 DEF form
<1> HIDE DEF work
<1>8. /\ HandlersFine' /\ handler'[h] = work
      /\ \A x \in Handlers \ {h} : handler'[x] = handler[x]
  BY <1>3, <1>6, <1>7, HandlersStep DEF Workflow
<1>9. TypeOK'
  BY <1>2, <1>8, TypesUnfold DEF CatalogueInv, HandlersFine, TypeOK, TourType, HandlerType
<1>10. KeptInv'
  <2>1. ASSUME NEW i \in kept, NEW j \in kept, departure[i].day = departure[j].day
        PROVE  i = j
    <3>1. PICK f \in form : f.day = departure[i].day /\ i \in OnSale(f.day)
      BY <1>5
    <3>2. j \in OnSale(f.day)
      BY <1>5, <2>1, <3>1
    <3> QED
      BY <1>4, <3>1, <3>2
  <2>2. \A i \in kept : InForm(h, i)'
    BY <1>2, <1>5, <1>6, <1>8 DEF InForm
  <2> SUFFICES ASSUME NEW x \in Handlers, Planned(x)', ~tour'.gone
               PROVE  /\ handler'[x].kept \subseteq Rows'
                      /\ \A i \in handler'[x].kept : InForm(x, i)'
                      /\ \A i, j \in handler'[x].kept : departure'[i].day = departure'[j].day => i = j
    BY DEF KeptInv
  <2>3. CASE x = h
    BY <1>2, <1>5, <1>6, <1>8, <2>1, <2>2, <2>3 DEF Rows
  <2>4. CASE x # h
    BY <1>2, <1>8, <2>4 DEF CatalogueInv, PlansInv, KeptInv, Planned, InForm, Rows
  <2> QED
    BY <2>3, <2>4
<1>11. OwnInv'
  <2> SUFFICES ASSUME NEW x \in Handlers, Planned(x)', ~tour'.gone, NEW i \in Rows',
                      departure'[i].active, departure'[i].by = x, InForm(x, i)'
               PROVE  \E j \in handler'[x].kept : departure'[j].day = departure'[i].day
                                                  /\ (departure'[j].by = x => j = i)
    BY DEF OwnInv
  <2>1. i \in Rows /\ departure[i].active /\ departure[i].by = x
    BY <1>2 DEF Rows
  <2>2. CASE x = h
    <3>1. PICK f \in form : f.day = departure[i].day
      BY <1>2, <1>6, <1>8, <2>2 DEF InForm
    <3>2. i \in OnSale(f.day)
      BY <1>3, <2>1, <3>1 DEF OnSale, Upcoming
    <3>3. PICK j \in Rows : kept \cap OnSale(f.day) = {j}
      BY <1>4, <3>2
    <3>4. j \in kept /\ departure[j].active /\ departure[j].day = departure[i].day
      BY <3>1, <3>3 DEF OnSale, Upcoming
    <3>5. departure[j].by = h => j = i
      BY <2>1, <2>2, <3>4 DEF CatalogueInv, OnceInv
    <3> QED
      BY <1>2, <1>6, <1>8, <2>2, <3>4, <3>5
  <2>3. CASE x # h
    BY <1>2, <1>8, <2>1, <2>3 DEF CatalogueInv, PlansInv, OwnInv, Planned, InForm
  <2> QED
    BY <2>2, <2>3
<1>12. CommitInv'
  <2> SUFFICES ASSUME NEW x \in Handlers, handler'[x].op = "commit"
               PROVE  /\ ~tour'.gone
                      /\ \A i \in Rows' : departure'[i].active /\ departure'[i].by = x =>
                            i \in handler'[x].kept \cup handler'[x].off
    BY DEF CommitInv
  <2>1. x # h
    BY <1>6, <1>8
  <2> QED
    BY <1>2, <1>8, <2>1 DEF CatalogueInv, PlansInv, CommitInv, Rows
<1> QED
  BY <1>2, <1>8, <1>9, <1>10, <1>11, <1>12
  DEF CatalogueInv, HandlersFine, PlansInv, GoneInv, SeatsInv, OnceInv, Rows

\* What it writes: every row on sale is kept or goes off sale.
LEMMA WriteScheduleStep ==
    ASSUME CatalogueInv, NEW h \in Handlers, WriteSchedule(h)
    PROVE  CatalogueInv'
<1> DEFINE off == {i \in Rows : departure[i].active} \ handler[h].kept
           work == [handler[h] EXCEPT !.op = "commit", !.off = off]
<1>1. /\ handler[h].op = "save" /\ ~tour.gone
      /\ UNCHANGED <<tour, departure, today, night, drifted, duty>>
  BY DEF WriteSchedule
<1>2. handler \in [Handlers -> HandlerType]
  BY TypesUnfold DEF CatalogueInv
<1>3. handler' = [handler EXCEPT ![h] = work]
  BY <1>2 DEF WriteSchedule
<1>4. off \subseteq 1..MaxRows
  BY TypesUnfold, RowsAre, NumbersAssumption DEF CatalogueInv
<1> HIDE DEF off
<1>5. /\ work \in HandlerType /\ work.op = "commit"
      /\ work.form = handler[h].form /\ work.kept = handler[h].kept /\ work.off = off
  <2>1. handler[h] \in HandlerType
    BY <1>2
  <2> QED
    BY <1>4, <2>1 DEF HandlerType, Ops
<1>6. IsFiniteSet(work.form) /\ OnePerDay(work.form)
  BY <1>1, <1>5 DEF CatalogueInv, FormsInv
<1> HIDE DEF work
<1>7. /\ HandlersFine' /\ handler'[h] = work
      /\ \A x \in Handlers \ {h} : handler'[x] = handler[x]
  BY <1>3, <1>5, <1>6, HandlersStep DEF Workflow
<1>8. TypeOK'
  BY <1>1, <1>7, TypesUnfold DEF CatalogueInv, HandlersFine, TypeOK, TourType, HandlerType
<1>9. \A x \in Handlers :
        /\ Planned(x)' => Planned(x)
        /\ handler'[x].form = handler[x].form /\ handler'[x].kept = handler[x].kept
  BY <1>1, <1>5, <1>7 DEF Planned
<1>10. KeptInv'
  BY <1>1, <1>9 DEF CatalogueInv, PlansInv, KeptInv, InForm, Rows
<1>11. OwnInv'
  BY <1>1, <1>9 DEF CatalogueInv, PlansInv, OwnInv, InForm, Rows
<1>12. CommitInv'
  <2> SUFFICES ASSUME NEW x \in Handlers, handler'[x].op = "commit"
               PROVE  /\ ~tour'.gone
                      /\ \A i \in Rows' : departure'[i].active /\ departure'[i].by = x =>
                            i \in handler'[x].kept \cup handler'[x].off
    BY DEF CommitInv
  <2>1. CASE x = h
    BY <1>1, <1>5, <1>7, <2>1 DEF off, Rows
  <2>2. CASE x # h
    BY <1>1, <1>7, <2>2 DEF CatalogueInv, PlansInv, CommitInv, Rows
  <2> QED
    BY <2>1, <2>2
<1> QED
  BY <1>1, <1>7, <1>8, <1>10, <1>11, <1>12
  DEF CatalogueInv, HandlersFine, PlansInv, GoneInv, SeatsInv, OnceInv, Rows

LEMMA NewRowsAre ==
    ASSUME NEW h \in Handlers, NEW S, IsFiniteSet(S), S \subseteq [day: Days, seats: Nat]
    PROVE  /\ NewRows(h, S) \in Seq(Row) /\ Len(NewRows(h, S)) = Cardinality(S)
           /\ \A n \in 1..Cardinality(S) : \E f \in S : NewRows(h, S)[n] = NewRow(h, f)
           /\ OnePerDay(S) =>
                 \A m, n \in 1..Cardinality(S) :
                    NewRows(h, S)[m].day = NewRows(h, S)[n].day => m = n
<1> DEFINE list == SetToSeq(S)
<1>1. Cardinality(S) \in Nat /\ \E f : f \in Bijection(1..Cardinality(S), S)
  BY FS_CardinalityType DEF ExistsBijection
<1>2. list \in [1..Cardinality(S) -> S] /\ \A m, n \in 1..Cardinality(S) : list[m] = list[n] => m = n
  <2>1. \E f \in [1..Cardinality(S) -> S] : IsInjective(f)
    BY <1>1 DEF Bijection, Injection, IsInjective
  <2>2. list \in [1..Cardinality(S) -> S] /\ IsInjective(list)
    BY <2>1 DEF SetToSeq
  <2> QED
    BY <2>2 DEF IsInjective
<1>3. NewRows(h, S) = [n \in 1..Cardinality(S) |-> NewRow(h, list[n])]
  BY <1>2 DEF NewRows
<1> HIDE DEF list
<1>4. \A f \in S : NewRow(h, f) \in Row /\ NewRow(h, f).day = f.day
  BY DEF NewRow, Row
<1>5. \A n \in 1..Cardinality(S) : list[n] \in S /\ NewRows(h, S)[n] = NewRow(h, list[n])
  BY <1>2, <1>3
<1>6. NewRows(h, S) \in Seq(Row) /\ Len(NewRows(h, S)) = Cardinality(S)
  BY <1>1, <1>2, <1>3, <1>4
<1>7. ASSUME OnePerDay(S), NEW m \in 1..Cardinality(S), NEW n \in 1..Cardinality(S),
             NewRows(h, S)[m].day = NewRows(h, S)[n].day
      PROVE  m = n
  <2>1. list[m].day = list[n].day
    BY <1>4, <1>5, <1>7
  <2>2. list[m] = list[n]
    BY <1>5, <1>7, <2>1 DEF OnePerDay
  <2> QED
    BY <1>2, <2>2
<1> QED
  BY <1>5, <1>6, <1>7

LEMMA ConcatIs ==
    ASSUME NEW S, NEW s \in Seq(S), NEW t \in Seq(S)
    PROVE  /\ s \o t \in Seq(S) /\ Len(s \o t) = Len(s) + Len(t)
           /\ \A i \in 1..Len(s) : (s \o t)[i] = s[i]
           /\ \A i \in (Len(s) + 1)..(Len(s) + Len(t)) : (s \o t)[i] = t[i - Len(s)]
OBVIOUS

\* The rows that a form rewrites, and the entries that get a row.
LEMMA ScheduleParts ==
    ASSUME CatalogueInv, NEW h \in Handlers, handler[h].op = "commit"
    PROVE  /\ OnePerDay(Added(h)) /\ IsFiniteSet(Added(h))
           /\ Added(h) \subseteq [day: Days, seats: Nat]
           /\ Rewritten(h) \in Seq(Row) /\ Len(Rewritten(h)) = Len(departure)
           /\ \A i \in Rows :
                 LET row == Rewritten(h)[i] IN
                 /\ row.day = departure[i].day
                 /\ row.sold = departure[i].sold /\ row.offered = departure[i].offered
                 /\ i \in handler[h].kept =>
                       row.active /\ row.by = h /\ row.seats = FormSeats(h, i)
                 /\ i \notin handler[h].kept =>
                       /\ row.by = departure[i].by /\ row.seats = departure[i].seats
                       /\ row.active => departure[i].active /\ i \notin handler[h].off
<1>1. /\ departure \in Seq(Row) /\ Len(departure) \in Nat
      /\ handler[h].form \subseteq [day: Days, seats: Nat]
  BY TypesUnfold DEF CatalogueInv, HandlerType
<1>2. /\ OnePerDay(Added(h)) /\ IsFiniteSet(Added(h))
      /\ Added(h) \subseteq [day: Days, seats: Nat]
  <2>1. /\ IsFiniteSet(handler[h].form) /\ OnePerDay(handler[h].form)
        /\ Added(h) \subseteq handler[h].form
    BY DEF CatalogueInv, FormsInv, Added
  <2> QED
    BY <1>1, <2>1, FS_Subset DEF OnePerDay
<1>3. Rows = 1..Len(departure) /\ \A i \in Rows : departure[i] \in Row
  BY <1>1, RowsAre
<1>4. \A i \in handler[h].kept : FormSeats(h, i) \in Nat
  <2> TAKE i \in handler[h].kept
  <2>1. \E f \in handler[h].form : f.day = departure[i].day
    BY DEF CatalogueInv, PlansInv, KeptInv, CommitInv, Planned, InForm
  <2>2. (CHOOSE f \in handler[h].form : f.day = departure[i].day) \in handler[h].form
    BY <2>1
  <2> QED
    BY <1>1, <2>2 DEF FormSeats
<1>5. ASSUME NEW i \in Rows
      PROVE  LET row == Rewritten(h)[i] IN
             /\ row \in Row
             /\ row.day = departure[i].day
             /\ row.sold = departure[i].sold /\ row.offered = departure[i].offered
             /\ i \in handler[h].kept =>
                   row.active /\ row.by = h /\ row.seats = FormSeats(h, i)
             /\ i \notin handler[h].kept =>
                   /\ row.by = departure[i].by /\ row.seats = departure[i].seats
                   /\ row.active => departure[i].active /\ i \notin handler[h].off
  <2>0. departure[i] \in Row
    BY <1>3
  <2>1. CASE i \in handler[h].kept
    <3>1. Rewritten(h)[i]
            = [departure[i] EXCEPT !.active = TRUE, !.seats = FormSeats(h, i), !.by = h]
      BY <2>1 DEF Rewritten
    <3> QED
      BY <1>4, <2>0, <2>1, <3>1 DEF Row
  <2>2. CASE i \notin handler[h].kept
    <3>1. Rewritten(h)[i] = [departure[i] EXCEPT !.active = @ /\ i \notin handler[h].off]
      BY <2>2 DEF Rewritten
    <3> QED
      BY <2>0, <2>2, <3>1 DEF Row
  <2> QED
    BY <2>1, <2>2
<1>6. Rewritten(h) \in Seq(Row) /\ Len(Rewritten(h)) = Len(departure)
  <2>1. Rewritten(h) = [i \in 1..Len(departure) |-> Rewritten(h)[i]]
    BY <1>3 DEF Rewritten
  <2>2. Rewritten(h) \in [1..Len(departure) -> Row]
    BY <1>3, <1>5, <2>1
  <2> QED
    BY <1>1, <2>2
<1> QED
  BY <1>2, <1>5, <1>6

\* The rows after a commit: those before, rewritten, and one new row for each entry
\* that met none.
LEMMA CommitRows ==
    ASSUME CatalogueInv, NEW h \in Handlers, CommitReplace(h)
    PROVE  /\ departure' \in Seq(Row) /\ Rows \subseteq Rows'
           /\ \A i \in Rows : departure'[i] = Rewritten(h)[i]
           /\ \A i \in Rows' \ Rows : \E f \in Added(h) : departure'[i] = NewRow(h, f)
           /\ \A i, j \in Rows' \ Rows : departure'[i].day = departure'[j].day => i = j
           /\ Len(departure') <= MaxRows
<1>1. /\ handler[h].op = "commit"
      /\ Len(departure) + Cardinality(Added(h)) <= MaxRows
      /\ departure' = Rewritten(h) \o NewRows(h, Added(h))
  BY DEF CommitReplace
<1>2. departure \in Seq(Row) /\ Len(departure) \in Nat
  BY TypesUnfold DEF CatalogueInv
<1>3. Rows = 1..Len(departure)
  BY <1>2, RowsAre
<1> DEFINE added == Added(h)
           old == Rewritten(h)
           new == NewRows(h, added)
           size == Cardinality(added)
<1>4. old \in Seq(Row) /\ Len(old) = Len(departure)
  BY <1>1, ScheduleParts
<1>5. /\ new \in Seq(Row) /\ Len(new) = size /\ size \in Nat
      /\ \A n \in 1..size : \E f \in added : new[n] = NewRow(h, f)
      /\ \A m, n \in 1..size : new[m].day = new[n].day => m = n
  <2>1. OnePerDay(added) /\ IsFiniteSet(added) /\ added \subseteq [day: Days, seats: Nat]
    BY <1>1, ScheduleParts
  <2> HIDE DEF added
  <2> QED
    BY <2>1, NewRowsAre, FS_CardinalityType
<1>6. departure' = old \o new /\ Len(departure) + size <= MaxRows
  BY <1>1
<1> HIDE DEF old, new, size, added
<1>7. /\ departure' \in Seq(Row) /\ Len(departure') = Len(departure) + size
      /\ \A i \in 1..Len(departure) : departure'[i] = old[i]
      /\ \A i \in (Len(departure) + 1)..(Len(departure) + size) :
            departure'[i] = new[i - Len(departure)]
  <2>1. /\ old \o new \in Seq(Row) /\ Len(old \o new) = Len(old) + Len(new)
        /\ \A i \in 1..Len(old) : (old \o new)[i] = old[i]
        /\ \A i \in (Len(old) + 1)..(Len(old) + Len(new)) : (old \o new)[i] = new[i - Len(old)]
    <3>1. old \in Seq(Row) /\ new \in Seq(Row)
      BY <1>4, <1>5
    <3> QED
      BY <3>1, ConcatIs
  <2> QED
    BY <1>4, <1>5, <1>6, <2>1, Zenon
<1>8. Rows' = 1..(Len(departure) + size) /\ Rows \subseteq Rows'
  BY <1>2, <1>3, <1>5, <1>7 DEF Rows
<1>9. \A i \in Rows' \ Rows :
        /\ i - Len(departure) \in 1..size
        /\ departure'[i] = new[i - Len(departure)]
        /\ \E f \in added : departure'[i] = NewRow(h, f)
  <2> TAKE i \in Rows' \ Rows
  <2>1. i \in (Len(departure) + 1)..(Len(departure) + size) /\ i - Len(departure) \in 1..size
    BY <1>2, <1>3, <1>5, <1>8
  <2> QED
    BY <1>5, <1>7, <2>1
<1>10. ASSUME NEW i \in Rows' \ Rows, NEW j \in Rows' \ Rows, departure'[i].day = departure'[j].day
       PROVE  i = j
  <2>1. i - Len(departure) = j - Len(departure)
    BY <1>5, <1>9, <1>10
  <2> QED
    BY <1>2, <1>5, <1>8, <2>1
<1> QED
  BY <1>3, <1>6, <1>7, <1>8, <1>9, <1>10 DEF old, added

\* The rows that a handler has on sale after its commit are those it kept and those
\* it added.
LEMMA CommitReplaceStep ==
    ASSUME CatalogueInv, NEW h \in Handlers, CommitReplace(h)
    PROVE  CatalogueInv'
<1>1. /\ HandlersFine' /\ NoPlan /\ handler[h].op = "commit" /\ ~tour.gone
      /\ UNCHANGED <<tour, today, night, duty>>
  <2>1. HandlersFine' /\ NoPlan
    BY HandlerEnds DEF CommitReplace
  <2>2. handler[h].op = "commit" /\ UNCHANGED <<tour, today, night, duty>>
    BY DEF CommitReplace
  <2> QED
    BY <2>1, <2>2 DEF CatalogueInv, PlansInv, CommitInv
<1>2. drifted' = (drifted \/ \E i \in handler[h].kept : departure[i].seats # FormSeats(h, i))
  BY DEF CommitReplace
<1>3. /\ departure' \in Seq(Row) /\ Rows \subseteq Rows'
      /\ \A i \in Rows' \ Rows : \E f \in Added(h) : departure'[i] = NewRow(h, f)
      /\ \A i, j \in Rows' \ Rows : departure'[i].day = departure'[j].day => i = j
      /\ Len(departure') <= MaxRows
  BY CommitRows
<1>4. \A i \in Rows :
        /\ departure'[i].day = departure[i].day
        /\ departure'[i].sold = departure[i].sold /\ departure'[i].offered = departure[i].offered
        /\ i \in handler[h].kept =>
              departure'[i].active /\ departure'[i].by = h /\ departure'[i].seats = FormSeats(h, i)
        /\ i \notin handler[h].kept =>
              /\ departure'[i].by = departure[i].by /\ departure'[i].seats = departure[i].seats
              /\ departure'[i].active => departure[i].active /\ i \notin handler[h].off
  BY <1>1, CommitRows, ScheduleParts
<1>5. \A i \in Rows' \ Rows :
        /\ departure'[i].by = h
        /\ departure'[i].seats + departure'[i].sold = departure'[i].offered
        /\ \A j \in handler[h].kept : departure'[i].day # departure[j].day
  <2> TAKE i \in Rows' \ Rows
  <2>1. PICK f \in Added(h) : departure'[i] = NewRow(h, f)
    BY <1>3
  <2>2. f.seats \in Nat
    BY <1>1, ScheduleParts
  <2>3. \A j \in handler[h].kept : departure[j].day # f.day
    BY DEF Added
  <2> QED
    BY <2>1, <2>2, <2>3 DEF NewRow
<1>6. handler[h].kept \subseteq Rows
      /\ \A i, j \in handler[h].kept : departure[i].day = departure[j].day => i = j
  BY <1>1 DEF CatalogueInv, PlansInv, KeptInv, Planned
<1>7. \A i \in Rows : departure'[i].active /\ departure'[i].by = h => i \in handler[h].kept
  BY <1>1, <1>4 DEF CatalogueInv, PlansInv, CommitInv
<1>8. TypeOK'
  <2>1. drifted' \in BOOLEAN
    BY <1>2, TypesUnfold DEF CatalogueInv
  <2> QED
    BY <1>1, <1>3, <2>1, TypesUnfold DEF CatalogueInv, HandlersFine, TypeOK, TourType, HandlerType
<1>9. SeatsInv'
  <2> SUFFICES ASSUME ~drifted', NEW i \in Rows'
               PROVE  departure'[i].seats + departure'[i].sold = departure'[i].offered
    BY DEF SeatsInv
  <2>1. CASE i \in Rows
    <3>1. departure'[i].seats = departure[i].seats
      BY <1>2, <1>4, <2>1
    <3> QED
      BY <1>2, <1>4, <2>1, <3>1 DEF CatalogueInv, SeatsInv
  <2>2. CASE i \notin Rows
    BY <1>5, <2>2
  <2> QED
    BY <2>1, <2>2
<1>10. OnceInv'
  <2> SUFFICES ASSUME NEW i \in Rows', NEW j \in Rows', departure'[i].active, departure'[j].active,
                      departure'[i].day = departure'[j].day, departure'[i].by = departure'[j].by
               PROVE  i = j
    BY DEF OnceInv
  <2>1. CASE i \in Rows /\ j \in Rows /\ departure'[i].by = h
    <3>1. i \in handler[h].kept /\ j \in handler[h].kept
      BY <1>7, <2>1
    <3>2. departure[i].day = departure[j].day
      BY <1>4, <2>1
    <3> QED
      BY <1>6, <3>1, <3>2
  <2>2. CASE i \in Rows /\ j \in Rows /\ departure'[i].by # h
    <3>1. i \notin handler[h].kept /\ j \notin handler[h].kept
      BY <1>4, <2>2
    <3> QED
      BY <1>4, <2>2, <3>1 DEF CatalogueInv, OnceInv
  <2>3. CASE i \in Rows /\ j \notin Rows
    BY <1>4, <1>5, <1>7, <2>3
  <2>4. CASE i \notin Rows /\ j \in Rows
    BY <1>4, <1>5, <1>7, <2>4
  <2>5. CASE i \notin Rows /\ j \notin Rows
    BY <1>3, <2>5
  <2> QED
    BY <2>1, <2>2, <2>3, <2>4, <2>5
<1>11. \A x \in Handlers :
         handler'[x].op \in {"save", "commit"} => handler'[x] = handler[x] /\ x # h
  <2>1. handler'[h] = Idle
    BY TypesUnfold DEF CatalogueInv, CommitReplace
  <2> QED
    BY <1>1, <2>1, IdleType DEF NoPlan
\* The rows of another handler are those it had.
<1>12. ASSUME NEW x \in Handlers, x # h, NEW i \in Rows', departure'[i].by = x
       PROVE  /\ i \in Rows /\ i \notin handler[h].kept
              /\ departure[i].by = x /\ departure[i].day = departure'[i].day
              /\ departure'[i].active => departure[i].active
  BY <1>4, <1>5, <1>12
<1>13. KeptInv'
  <2> SUFFICES ASSUME NEW x \in Handlers, Planned(x)', ~tour'.gone
               PROVE  /\ handler'[x].kept \subseteq Rows'
                      /\ \A i \in handler'[x].kept : InForm(x, i)'
                      /\ \A i, j \in handler'[x].kept : departure'[i].day = departure'[j].day => i = j
    BY DEF KeptInv
  <2>1. handler'[x] = handler[x] /\ Planned(x)
    BY <1>11 DEF Planned
  <2>2. /\ handler[x].kept \subseteq Rows
        /\ \A i \in handler[x].kept : InForm(x, i)
        /\ \A i, j \in handler[x].kept : departure[i].day = departure[j].day => i = j
    BY <1>1, <2>1 DEF CatalogueInv, PlansInv, KeptInv
  <2>3. \A i \in handler[x].kept : departure'[i].day = departure[i].day
    BY <1>4, <2>2
  <2> QED
    BY <1>3, <2>1, <2>2, <2>3 DEF InForm
<1>14. OwnInv'
  <2> SUFFICES ASSUME NEW x \in Handlers, Planned(x)', ~tour'.gone, NEW i \in Rows',
                      departure'[i].active, departure'[i].by = x, InForm(x, i)'
               PROVE  \E j \in handler'[x].kept : departure'[j].day = departure'[i].day
                                                  /\ (departure'[j].by = x => j = i)
    BY DEF OwnInv
  <2>1. handler'[x] = handler[x] /\ Planned(x) /\ x # h
    BY <1>11 DEF Planned
  <2>2. i \in Rows /\ departure[i].active /\ departure[i].by = x /\ departure[i].day = departure'[i].day
    BY <1>12, <2>1
  <2>3. InForm(x, i)
    BY <2>1, <2>2 DEF InForm
  <2>4. PICK j \in handler[x].kept : departure[j].day = departure[i].day
                                    /\ (departure[j].by = x => j = i)
    BY <1>1, <2>1, <2>2, <2>3 DEF CatalogueInv, PlansInv, OwnInv
  <2>5. j \in Rows
    BY <1>1, <2>1 DEF CatalogueInv, PlansInv, KeptInv
  <2>6. departure'[j].by = x => departure[j].by = x
    BY <1>3, <1>12, <2>1, <2>5
  <2> QED
    BY <1>4, <2>1, <2>2, <2>4, <2>5, <2>6
<1>15. CommitInv'
  <2> SUFFICES ASSUME NEW x \in Handlers, handler'[x].op = "commit"
               PROVE  /\ ~tour'.gone
                      /\ \A i \in Rows' : departure'[i].active /\ departure'[i].by = x =>
                            i \in handler'[x].kept \cup handler'[x].off
    BY DEF CommitInv
  <2>1. handler'[x] = handler[x] /\ x # h
    BY <1>11
  <2> QED
    BY <1>1, <1>12, <2>1 DEF CatalogueInv, PlansInv, CommitInv
<1>16. GoneInv'
  BY <1>1 DEF GoneInv
<1> QED
  BY <1>1, <1>8, <1>9, <1>10, <1>13, <1>14, <1>15, <1>16 DEF CatalogueInv, HandlersFine, PlansInv
-----------------------------------------------------------------------------
(* The invariant, and the invariants the run checks.                       *)

LEMMA InitInv == Init => CatalogueInv
<1> SUFFICES ASSUME Init PROVE CatalogueInv
  OBVIOUS
<1>1. departure \in Seq(Row) /\ Len(departure) = 0 /\ Rows = {}
  BY DEF Init, Rows
<1>2. \A h \in Handlers : handler[h] = Idle
  BY DEF Init
<1>3. handler \in [Handlers -> HandlerType]
  BY IdleType DEF Init
<1>4. /\ tour \in TourType /\ ~tour.gone
      /\ today \in Days /\ night \in {"idle", "complete"} /\ drifted \in BOOLEAN
      /\ duty \in [Handlers -> SUBSET Kinds]
  <2>1. PICK new \in Beginnings :
          /\ tour = [status |-> new.status, ready |-> new.ready,
                     trashed |-> FALSE, booked |-> FALSE, gone |-> FALSE]
          /\ today = new.day
          /\ duty = new.duty
    BY DEF Init
  <2>2. new \in [status: Statuses, ready: BOOLEAN, day: Days, duty: [Handlers -> SUBSET Kinds]]
    BY BeginningsAssumption
  <2> QED
    BY <2>1, <2>2 DEF Init, TourType
<1>5. TypeOK
  BY <1>1, <1>3, <1>4, NumbersAssumption, TypesUnfold
<1>6. WorkflowInv /\ FormsInv
  BY <1>2, IdleType DEF WorkflowInv, FormsInv, Workflow
<1>7. GoneInv /\ SeatsInv /\ OnceInv
  BY <1>1, <1>4 DEF GoneInv, SeatsInv, OnceInv
<1>8. PlansInv
  BY <1>2, IdleType DEF PlansInv, KeptInv, OwnInv, CommitInv, Planned
<1> QED
  BY <1>5, <1>6, <1>7, <1>8 DEF CatalogueInv

LEMMA NextInv == CatalogueInv /\ [Next]_vars => CatalogueInv'
<1> SUFFICES ASSUME CatalogueInv, [Next]_vars PROVE CatalogueInv'
  OBVIOUS
<1>1. CASE UNCHANGED vars
  <2>1. HandlersFine' /\ NoPlan
    BY <1>1, HandlersStay DEF vars
  <2>2. tour \in TourType /\ night \in {"idle", "complete"}
    BY TypesUnfold DEF CatalogueInv
  <2>3. UNCHANGED <<tour, departure, today, night, drifted, duty>>
    BY <1>1 DEF vars
  <2> QED
    BY <2>1, <2>2, <2>3, TourStep
<1>2. ASSUME NEW h \in Handlers, Reads(h)
      PROVE  CatalogueInv'
  BY <1>2, RequestsStep, OpenFormStep, BookStep DEF Reads
<1>3. ASSUME NEW h \in Handlers, Proceeds(h) \/ Abandon(h)
      PROVE  CatalogueInv'
  BY <1>3, HandlerWritesStep, DestroyStep, BeginReplaceStep, WriteScheduleStep, CommitReplaceStep,
     ReserveStep DEF Proceeds
<1>4. CASE RemoveTour \/ RestoreTour \/ EditPackage \/ CompleteTours \/ AbandonNight
  BY <1>4, TourChangesStep
<1>5. ASSUME NEW i \in Rows, Release(i)
      PROVE  CatalogueInv'
  BY <1>5, ReleaseStep
<1>6. CASE HandleExpiredTours
  BY <1>6, ExpireStep
<1> QED
  BY <1>1, <1>2, <1>3, <1>4, <1>5, <1>6 DEF Next

\* The rows of the catalogue, its forms and its seats stay what their invariants say,
\* whichever handlers overlap (tour.service, tour-departure.service, tour.cron).
THEOREM CatalogueInvariant == Spec => []CatalogueInv
BY InitInv, NextInv, PTL DEF Spec

\* The rows keep their types, and no departure falls below zero seats.
THEOREM CatalogueTypes == Spec => []TypeOK
<1>1. CatalogueInv => TypeOK
  BY DEF CatalogueInv
<1> QED
  BY <1>1, CatalogueInvariant, PTL

\* No departure is sold beyond its offer while no form out of date was saved
\* (bulkReplace writes availableSeats from the form).
THEOREM CatalogueSellsItsOffer == Spec => []NeverOversold
<1>1. CatalogueInv => NeverOversold
  <2> SUFFICES ASSUME CatalogueInv, ~drifted, NEW i \in Rows
               PROVE  departure[i].sold <= departure[i].offered
    BY DEF NeverOversold
  <2>1. departure[i] \in Row
    BY TypesUnfold, RowsAre DEF CatalogueInv
  <2>2. departure[i].seats + departure[i].sold = departure[i].offered
    BY DEF CatalogueInv, SeatsInv
  <2> QED
    BY <2>1, <2>2 DEF Row
<1> QED
  BY <1>1, CatalogueInvariant, PTL

\* However replacements overlap, a handler never has a date on sale twice: a save ends
\* what its handler had on sale and does not keep (the updateMany that closes the
\* transaction of bulkReplace).
THEOREM CatalogueSellsDatesOncePerHandler == Spec => []DateOnSaleOncePerHandler
<1>1. CatalogueInv => DateOnSaleOncePerHandler
  BY DEF CatalogueInv, OnceInv, DateOnSaleOncePerHandler, Upcoming
<1> QED
  BY <1>1, CatalogueInvariant, PTL

\* A tour that has a booking is not deleted (permanentDelete, the foreign key of
\* Booking.tour).
THEOREM CatalogueKeepsBookedTours == Spec => []BookedTourIsKept
<1>1. CatalogueInv => BookedTourIsKept
  BY DEF CatalogueInv, GoneInv, BookedTourIsKept
<1> QED
  BY <1>1, CatalogueInvariant, PTL

-----------------------------------------------------------------------------
(* What a step may not do.                                                 *)

\* The steps that write no status, or no other than COMPLETED.
LEMMA OthersKeepCompleted ==
    ASSUME CatalogueInv, tour.status = "COMPLETED",
           \/ \E h \in Handlers :
                 \/ Reads(h) \/ Abandon(h) \/ DestroyWrite(h) \/ DeletePackages(h)
                 \/ CreatePackages(h) \/ Reserve(h)
                 \/ BeginReplace(h) \/ WriteSchedule(h) \/ CommitReplace(h)
           \/ RemoveTour \/ RestoreTour \/ EditPackage
           \/ \E i \in Rows : Release(i)
           \/ HandleExpiredTours \/ CompleteTours \/ AbandonNight
    PROVE  tour'.status = "COMPLETED"
<1>1. tour \in TourType
  BY TypesUnfold DEF CatalogueInv
<1>2. ASSUME NEW h \in Handlers, Reads(h)
      PROVE  tour' = tour
  BY <1>2
  DEF Reads, SubmitForReview, ReviewTour, PublishTour, Update, PermanentDelete, ReplacePackages,
      Starts, OpenForm, Book
<1>3. ASSUME NEW h \in Handlers,
             DestroyWrite(h) \/ DeletePackages(h) \/ CreatePackages(h) \/ Reserve(h)
      PROVE  tour'.status = tour.status
  <2>1. CASE DestroyWrite(h)
    BY <1>1, <2>1 DEF DestroyWrite, TourType
  <2>2. CASE DeletePackages(h)
    BY <1>1, <2>2 DEF DeletePackages, TourType
  <2>3. CASE CreatePackages(h)
    BY <1>1, <2>3 DEF CreatePackages, Writes, TourType
  <2>4. CASE Reserve(h)
    BY <1>1, <2>4 DEF Reserve, TourType
  <2> QED
    BY <1>3, <2>1, <2>2, <2>3, <2>4
<1>4. ASSUME NEW h \in Handlers,
             Abandon(h) \/ BeginReplace(h) \/ WriteSchedule(h) \/ CommitReplace(h)
      PROVE  tour' = tour
  BY <1>4 DEF Abandon, BeginReplace, WriteSchedule, CommitReplace
<1>5. RemoveTour \/ RestoreTour \/ EditPackage => tour'.status = tour.status
  BY <1>1 DEF RemoveTour, RestoreTour, EditPackage, TourType
<1>6. HandleExpiredTours \/ AbandonNight \/ (\E i \in Rows : Release(i)) => tour' = tour
  BY DEF HandleExpiredTours, AbandonNight, Release
<1>7. CompleteTours => tour'.status = "COMPLETED"
  BY <1>1 DEF CompleteTours, TourType
<1> QED
  BY <1>2, <1>3, <1>4, <1>5, <1>6, <1>7

\* A completed tour is reopened by an admin's edit or by a workflow handler that read
\* it before it was completed (reviewTour, publishTour, handleExpiredTours).
THEOREM CatalogueReopensByStaleWriteOnly == Spec => CompletedLeftByStaleWriteOnly
<1> DEFINE Left == tour.status = "COMPLETED" /\ tour'.status # "COMPLETED" =>
              \E h \in Handlers :
                 /\ handler'[h] # handler[h]
                 /\ \/ handler[h].op = "edit"
                    \/ handler[h].op \in {"submit", "approve", "reject", "publish"}
                       /\ ~handler[h].completed
<1>1. ASSUME CatalogueInv, [Next]_vars
      PROVE  [Left]_vars
  <2> SUFFICES ASSUME Next, tour.status = "COMPLETED", tour'.status # "COMPLETED"
               PROVE  \E h \in Handlers :
                         /\ handler'[h] # handler[h]
                         /\ \/ handler[h].op = "edit"
                            \/ handler[h].op \in {"submit", "approve", "reject", "publish"}
                               /\ ~handler[h].completed
    BY <1>1
  <2>1. PICK h \in Handlers : WorkflowWrite(h) \/ UpdateWrite(h)
    BY <1>1, OthersKeepCompleted DEF Next, Proceeds
  <2>2. /\ handler[h].op \in Workflow \cup {"edit"}
        /\ handler' = [handler EXCEPT ![h] = Idle]
    BY <2>1 DEF WorkflowWrite, UpdateWrite, SetsStatus, Writes, Workflow
  <2>3. handler'[h] = Idle /\ Idle.op = "idle"
    BY <1>1, <2>2, TypesUnfold, IdleType DEF CatalogueInv
  <2>4. handler'[h] # handler[h]
    BY <2>2, <2>3 DEF Workflow
  <2>5. handler[h].op \in Workflow => ~handler[h].completed
    BY <1>1 DEF CatalogueInv, WorkflowInv
  <2> QED
    BY <2>2, <2>4, <2>5 DEF Workflow
<1> QED
  BY <1>1, CatalogueInvariant, PTL DEF Spec, CompletedLeftByStaleWriteOnly

\* A save does not end the sale of a row that its handler put on sale while the row's
\* date stays in the form, but for a row of that date which another handler put on sale
\* (bulkReplace: the first row of each date that it read, and the rows it does not keep).
THEOREM CatalogueKeepsOwnRows == Spec => OwnRowsStayOnSale
<1> DEFINE Keeps == \A h \in Handlers, i \in Rows :
              /\ handler[h].op = "commit" /\ handler'[h].op = "idle" /\ departure' # departure
              /\ departure[i].active /\ departure[i].by = h
              /\ \E f \in handler[h].form : f.day = departure[i].day
              => \/ departure'[i].active
                 \/ \E j \in Rows : /\ departure[j].by # h /\ departure'[j].active
                                    /\ departure[j].day = departure[i].day
<1>1. ASSUME CatalogueInv, [Next]_vars
      PROVE  [Keeps]_vars
  <2> SUFFICES ASSUME Next, NEW h \in Handlers, NEW i \in Rows,
                      handler[h].op = "commit", handler'[h].op = "idle", departure' # departure,
                      departure[i].active, departure[i].by = h, InForm(h, i)
               PROVE  \/ departure'[i].active
                      \/ \E j \in Rows : /\ departure[j].by # h /\ departure'[j].active
                                         /\ departure[j].day = departure[i].day
    BY <1>1 DEF InForm
  <2>1. handler' # handler /\ handler \in [Handlers -> HandlerType]
    BY <1>1, TypesUnfold DEF CatalogueInv
  <2>2. ~HandleExpiredTours /\ ~(\E j \in Rows : Release(j))
    BY <2>1 DEF HandleExpiredTours, Release
  <2>3. \A g \in Handlers : ~Reads(g) /\ ~Abandon(g)
    BY DEF Reads, SubmitForReview, ReviewTour, PublishTour, Update, PermanentDelete,
           ReplacePackages, Starts, OpenForm, Book, Abandon
  <2>4. \A g \in Handlers :
          /\ ~WorkflowWrite(g) /\ ~UpdateWrite(g) /\ ~DeletePackages(g) /\ ~CreatePackages(g)
          /\ ~BeginReplace(g) /\ ~WriteSchedule(g)
    BY DEF WorkflowWrite, UpdateWrite, SetsStatus, Writes, DeletePackages, CreatePackages,
           BeginReplace, WriteSchedule
  <2>5. ~(RemoveTour \/ RestoreTour \/ EditPackage \/ CompleteTours \/ AbandonNight)
    BY DEF RemoveTour, RestoreTour, EditPackage, CompleteTours, AbandonNight
  <2>6. PICK g \in Handlers : DestroyWrite(g) \/ Reserve(g) \/ CommitReplace(g)
    BY <2>2, <2>3, <2>4, <2>5 DEF Next, Proceeds
  <2>7. handler' = [handler EXCEPT ![g] = Idle]
    BY <2>6 DEF DestroyWrite, Reserve, CommitReplace
  <2>8. g = h
    BY <2>1, <2>7
  <2>9. CommitReplace(h)
    BY <2>6, <2>8 DEF DestroyWrite, Reserve
  <2>10. \A j \in handler[h].kept : j \in Rows /\ departure'[j].active
    <3>1. handler[h].kept \subseteq Rows
      BY <1>1 DEF CatalogueInv, PlansInv, KeptInv, CommitInv, Planned
    <3> QED
      BY <1>1, <2>9, <3>1, CommitRows, ScheduleParts
  <2>11. PICK j \in handler[h].kept : departure[j].day = departure[i].day
                                     /\ (departure[j].by = h => j = i)
    BY <1>1 DEF CatalogueInv, PlansInv, OwnInv, CommitInv, Planned
  <2> QED
    BY <2>10, <2>11
<1> QED
  BY <1>1, CatalogueInvariant, PTL DEF Spec, OwnRowsStayOnSale
=============================================================================
