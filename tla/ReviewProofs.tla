---------------------------- MODULE ReviewProofs ----------------------------
(***************************************************************************)
(* The average a tour shows is true whenever no recalculation is due and   *)
(* none was disturbed, for any number of guests, reviews and handlers.     *)
(* The proof never looks into AverageOf: it holds for any function of the  *)
(* rows, as _recalcTourRating only copies what it read.                    *)
(***************************************************************************)
EXTENDS Review, FiniteSetTheorems, TLAPS

\* A handler that will still read the average.
Pending(x) == Doing(x, "average") \/ (Doing(x, "find") /\ call[x].ids \cap Written # {})

AnyPending == \E x \in Calls : Pending(x)

Shape ==
    /\ call = [x \in Calls |-> call[x]]
    /\ reviews = [i \in Ids |-> reviews[i]]

\* A bulk deletion that found no tour to recalculate deletes nothing.
ErasesNothing(x) == \A i \in call[x].ids : i \in Ids /\ reviews[i] = Deleted
EraseInv == \A x \in Calls : Doing(x, "erase") /\ ~call[x].found => ErasesNothing(x)

\* An average that nothing disturbed is the only one about to be stored ...
AloneInv ==
    \A x, y \in Calls : Saving(x) /\ call[x].alone /\ Saving(y) => x = y

\* ... and is true, unless another one is about to be read.
FreshInv ==
    \A x \in Calls : Saving(x) /\ call[x].alone => call[x].average = Average \/ AnyPending

RatingInv ==
    unsettled \/ rating = Average \/ AnyPending \/ \E x \in Calls : Saving(x)

ReviewInv ==
    Shape /\ EraseInv /\ AloneInv /\ FreshInv /\ RatingInv /\ unsettled \in BOOLEAN

-----------------------------------------------------------------------------
(* What the steps have in common.                                          *)

\* Only handler c moves, from one step that does not save to another.
Moves(c, work) ==
    /\ call' = [call EXCEPT ![c] = work]
    /\ ~Saving(c) /\ work.op # "save"

LEMMA MovesOnlyOne ==
    ASSUME ReviewInv, NEW c \in Calls, NEW work, Moves(c, work)
    PROVE  /\ call' = [x \in Calls |-> call'[x]]
           /\ call'[c] = work
           /\ \A x \in Calls \ {c} : call'[x] = call[x]
           /\ \A x \in Calls : Saving(x)' <=> Saving(x)
           /\ \A x \in Calls : Saving(x)' => x # c /\ call'[x] = call[x]
BY DEF ReviewInv, Shape, Moves, Saving, Doing

\* A handler that leaves the reviews alone, and had no recalculation to make.
LEMMA QuietStep ==
    ASSUME ReviewInv, NEW c \in Calls, NEW work, Moves(c, work), ~Pending(c),
           UNCHANGED <<reviews, rating, unsettled>>,
           work.op = "erase" /\ ~work.found => \A i \in work.ids : i \in Ids /\ reviews[i] = Deleted
    PROVE  ReviewInv'
<1>1. Average' = Average /\ Written' = Written
  BY DEF Average, Written, Issued
<1>2. \A x \in Calls : Pending(x) => Pending(x)'
  BY <1>1, MovesOnlyOne DEF Pending, Doing
<1>3. Shape'
  BY MovesOnlyOne DEF ReviewInv, Shape
<1>4. EraseInv'
  BY MovesOnlyOne DEF ReviewInv, EraseInv, ErasesNothing, Doing
<1>5. AloneInv'
  BY MovesOnlyOne DEF ReviewInv, AloneInv
<1>6. FreshInv'
  BY <1>1, <1>2, MovesOnlyOne DEF ReviewInv, FreshInv, AnyPending
<1>7. RatingInv'
  BY <1>1, <1>2, MovesOnlyOne DEF ReviewInv, RatingInv, AnyPending
<1> QED
  BY <1>3, <1>4, <1>5, <1>6, <1>7 DEF ReviewInv

\* A handler that changes the reviews has a recalculation to make; rows that are
\* gone stay gone.
LEMMA ChangingStep ==
    ASSUME ReviewInv, NEW c \in Calls, NEW work, Moves(c, work), Pending(c)',
           work.op # "erase",
           reviews' = [i \in Ids |-> reviews'[i]],
           \A i \in Ids : reviews[i] = Deleted => reviews'[i] = Deleted,
           unsettled' = unsettled
    PROVE  ReviewInv'
<1>1. AnyPending'
  BY DEF AnyPending
<1>2. Shape'
  BY MovesOnlyOne DEF ReviewInv, Shape
<1>3. EraseInv'
  BY MovesOnlyOne DEF ReviewInv, EraseInv, ErasesNothing, Doing
<1>4. AloneInv'
  BY MovesOnlyOne DEF ReviewInv, AloneInv
<1>5. FreshInv' /\ RatingInv'
  BY <1>1 DEF FreshInv, RatingInv
<1> QED
  BY <1>2, <1>3, <1>4, <1>5 DEF ReviewInv

\* A row shown or hidden is a row.
LEMMA ShownIsWritten ==
    ASSUME NEW i, NEW hidden
    PROVE  Shown(i, hidden) \notin {NoReview, Deleted}
BY DEF Shown, NoReview, Deleted

\* Erasing rows none of which is left changes nothing.
LEMMA ErasedAlready ==
    ASSUME Shape, NEW ids, Erase(ids), ids \cap Written = {}
    PROVE  reviews' = reviews
BY DEF Shape, Erase

LEMMA EraseKeepsDeleted ==
    ASSUME Shape, NEW ids, Erase(ids)
    PROVE  /\ reviews' = [i \in Ids |-> reviews'[i]]
           /\ \A i \in Ids : reviews[i] = Deleted => reviews'[i] = Deleted
BY DEF Erase

-----------------------------------------------------------------------------
(* One lemma for the recalculation, one for the rest, and the theorem.     *)

\* The average is read, and every other one waiting to be stored is disturbed.
LEMMA DisturbMarks ==
    ASSUME NEW x, call'[x] = Disturb(x)
    PROVE  /\ Saving(x)' <=> Saving(x)
           /\ Saving(x)' => ~call'[x].alone
           /\ ~Saving(x) => call'[x] = call[x]
<1>1. CASE Saving(x)
  <2>1. call'[x] = [op |-> "save", average |-> call[x].average, alone |-> FALSE]
    BY <1>1 DEF Disturb
  <2> QED
    BY <1>1, <2>1 DEF Saving, Doing
<1>2. CASE ~Saving(x)
  BY <1>2 DEF Disturb, Saving, Doing
<1> QED
  BY <1>1, <1>2

LEMMA AverageReadStep ==
    ASSUME ReviewInv, NEW c \in Calls, AverageRead(c)
    PROVE  ReviewInv'
<1> DEFINE other == \E y \in Calls : Saving(y)
<1>1. Average' = Average /\ UNCHANGED <<reviews, rating, unsettled>>
  BY DEF AverageRead, Average, reviewVars
<1>2. ~Saving(c)
  BY DEF AverageRead, Saving, Doing
<1>3. Saving(c)' /\ call'[c].average = Average /\ (call'[c].alone <=> ~other)
  <2>1. call'[c] = [op |-> "save", average |-> Average, alone |-> \A y \in Calls : ~Saving(y)]
    BY DEF AverageRead
  <2> QED
    BY <2>1 DEF Saving, Doing
<1>4. ASSUME NEW x \in Calls \ {c}
      PROVE  /\ Saving(x)' <=> Saving(x)
             /\ Saving(x)' => ~call'[x].alone
             /\ ~Saving(x) => call'[x] = call[x]
  BY DisturbMarks DEF AverageRead
<1> HIDE DEF other
<1>5. Shape'
  BY <1>1 DEF ReviewInv, Shape, AverageRead
<1>6. EraseInv'
  <2>1. \A x \in Calls : Doing(x, "erase")' => call'[x] = call[x]
    BY <1>3, <1>4 DEF Doing, Saving
  <2> QED
    BY <1>1, <2>1 DEF ReviewInv, EraseInv, ErasesNothing, Doing
<1>7. \A x \in Calls : Saving(x)' /\ call'[x].alone => x = c /\ ~other
  BY <1>3, <1>4
<1>8. AloneInv'
  <2>1. \A y \in Calls : Saving(y)' /\ ~other => y = c
    BY <1>4 DEF other
  <2> QED
    BY <1>7, <2>1 DEF AloneInv
<1>9. FreshInv'
  BY <1>1, <1>3, <1>7 DEF FreshInv
<1>10. RatingInv'
  BY <1>3 DEF RatingInv
<1> QED
  BY <1>1, <1>5, <1>6, <1>8, <1>9, <1>10 DEF ReviewInv

LEMMA SaveAverageStep ==
    ASSUME ReviewInv, NEW c \in Calls, SaveAverage(c)
    PROVE  ReviewInv'
<1>1. Average' = Average /\ Written' = Written /\ reviews' = reviews
  BY DEF SaveAverage, Average, Written, Issued
<1>2. /\ call' = [x \in Calls |-> call'[x]]
      /\ call'[c] = Idle
      /\ \A x \in Calls \ {c} : call'[x] = call[x]
  BY DEF ReviewInv, Shape, SaveAverage, Finish
<1>3. ~Saving(c)' /\ \A x \in Calls \ {c} : Saving(x)' <=> Saving(x)
  BY <1>2 DEF Saving, Doing, Idle
<1>4. ~Pending(c)
  BY DEF SaveAverage, Saving, Pending, Doing
<1>5. AnyPending => AnyPending'
  BY <1>1, <1>2, <1>4 DEF AnyPending, Pending, Doing
<1>6. Shape'
  BY <1>1, <1>2, <1>3 DEF ReviewInv, Shape
<1>7. EraseInv'
  BY <1>1, <1>2 DEF ReviewInv, EraseInv, ErasesNothing, Doing, Idle
<1>8. AloneInv'
  BY <1>2, <1>3 DEF ReviewInv, AloneInv
<1>9. FreshInv'
  BY <1>1, <1>2, <1>3, <1>5 DEF ReviewInv, FreshInv
<1>10. RatingInv' /\ unsettled' \in BOOLEAN
  <2>1. call[c].alone => call[c].average = Average \/ AnyPending
    BY DEF ReviewInv, FreshInv, SaveAverage
  <2>2. rating' = call[c].average /\ unsettled' = ~call[c].alone
    BY DEF SaveAverage
  <2> QED
    BY <1>1, <1>5, <2>1, <2>2 DEF RatingInv
<1> QED
  BY <1>6, <1>7, <1>8, <1>9, <1>10 DEF ReviewInv

LEMMA ReviewFailsStep ==
    ASSUME ReviewInv, NEW c \in Calls, ReviewFails(c)
    PROVE  ReviewInv'
<1>1. unsettled' = TRUE /\ reviews' = reviews
  BY DEF ReviewFails
<1>2. call'[c].op = "idle"
  BY DEF ReviewFails, Idle
<1>3. ASSUME NEW x \in Calls \ {c}
      PROVE  /\ Saving(x)' <=> Saving(x)
             /\ Saving(x)' => ~call'[x].alone
             /\ ~Saving(x) => call'[x] = call[x]
  BY DisturbMarks DEF ReviewFails
<1>4. \A x \in Calls : Saving(x)' => ~call'[x].alone
  BY <1>2, <1>3 DEF Saving, Doing
<1>5. Shape'
  BY <1>1 DEF ReviewInv, Shape, ReviewFails
<1>6. EraseInv'
  <2>1. \A x \in Calls : Doing(x, "erase")' => call'[x] = call[x]
    BY <1>2, <1>3 DEF Doing, Saving
  <2> QED
    BY <1>1, <2>1 DEF ReviewInv, EraseInv, ErasesNothing, Doing
<1>7. AloneInv' /\ FreshInv' /\ RatingInv'
  BY <1>1, <1>4 DEF AloneInv, FreshInv, RatingInv
<1> QED
  BY <1>1, <1>5, <1>6, <1>7 DEF ReviewInv

\* The first half of a request: it was idle and changes nothing, or hides in bulk.
LEMMA RequestStep ==
    ASSUME ReviewInv, NEW c \in Calls,
           \/ \E g \in Guests : CreateReviewRead(c, g)
           \/ \E i \in Ids : ToggleVisibilityRead(c, i) \/ DeleteReviewRead(c, i)
           \/ \E ids \in (SUBSET Issued) \ {{}} : BulkDeleteRead(c, ids) \/ BulkToggleVisibility(c, ids)
    PROVE  ReviewInv'
<1>0. ASSUME NEW work, Start(c, work), work.op # "save"
      PROVE  Moves(c, work) /\ ~Pending(c)
  BY <1>0 DEF Start, Moves, Saving, Pending, Doing, Idle
<1>1. ASSUME NEW g \in Guests, CreateReviewRead(c, g) PROVE ReviewInv'
  <2>1. PICK stars \in Stars : Start(c, [op |-> "write", guest |-> g, stars |-> stars])
    BY <1>1 DEF CreateReviewRead
  <2> QED
    BY <1>0, <1>1, <2>1, QuietStep DEF CreateReviewRead, reviewVars
<1>2. ASSUME NEW i \in Ids, ToggleVisibilityRead(c, i) PROVE ReviewInv'
  BY <1>0, <1>2, QuietStep DEF ToggleVisibilityRead, reviewVars
<1>3. ASSUME NEW i \in Ids, DeleteReviewRead(c, i) PROVE ReviewInv'
  BY <1>0, <1>3, QuietStep DEF DeleteReviewRead, reviewVars
<1>4. ASSUME NEW ids \in (SUBSET Issued) \ {{}}, BulkDeleteRead(c, ids) PROVE ReviewInv'
  <2> DEFINE work == [op |-> "erase", ids |-> ids, found |-> ids \cap Written # {}]
  <2>1. ids \cap Written = {} => \A i \in ids : i \in Ids /\ reviews[i] = Deleted
    BY DEF Issued, Written
  <2>2. Moves(c, work) /\ ~Pending(c)
    BY <1>0, <1>4 DEF BulkDeleteRead
  <2>3. UNCHANGED <<reviews, rating, unsettled>>
    BY <1>4 DEF BulkDeleteRead, reviewVars
  <2>4. work.op = "erase" /\ ~work.found => \A i \in work.ids : i \in Ids /\ reviews[i] = Deleted
    BY <2>1
  <2> QED
    BY <2>2, <2>3, <2>4, QuietStep
<1>5. ASSUME NEW ids \in (SUBSET Issued) \ {{}}, BulkToggleVisibility(c, ids) PROVE ReviewInv'
  <2> DEFINE work == [op |-> "find", ids |-> ids]
  <2>1. Moves(c, work) /\ ~Pending(c) /\ call'[c] = work
    BY <1>0, <1>5, MovesOnlyOne DEF BulkToggleVisibility
  <2>2. PICK hidden \in BOOLEAN :
            reviews' = [i \in Ids |-> IF i \in ids \cap Written THEN Shown(i, hidden) ELSE reviews[i]]
    BY <1>5 DEF BulkToggleVisibility
  <2>3. \A i \in Ids : reviews[i] = Deleted => reviews'[i] = Deleted
    BY <2>2 DEF Written
  <2>4. UNCHANGED <<rating, unsettled>>
    BY <1>5 DEF BulkToggleVisibility
  <2>5. CASE ids \cap Written = {}
    <3>1. reviews' = reviews
      BY <2>2, <2>5 DEF ReviewInv, Shape
    <3> QED
      BY <2>1, <2>4, <3>1, QuietStep
  <2>6. CASE ids \cap Written # {}
    <3>1. PICK i \in ids : i \in Written
      BY <2>6
    <3>2. i \in Ids /\ reviews'[i] = Shown(i, hidden)
      BY <2>2, <3>1 DEF Written, Issued
    <3>3. i \in Written'
      BY <3>2, ShownIsWritten DEF Written, Issued
    <3>4. Pending(c)'
      BY <2>1, <3>1, <3>3 DEF Pending, Doing
    <3>5. reviews' = [k \in Ids |-> reviews'[k]]
      BY <2>2
    <3> QED
      BY <2>1, <2>3, <2>4, <3>4, <3>5, ChangingStep
  <2> QED
    BY <2>5, <2>6
<1> QED
  BY <1>1, <1>2, <1>3, <1>4, <1>5

\* The second half of a request: the reviews change and a recalculation is due, or
\* the row is gone and nothing happens.
LEMMA WriteStep ==
    ASSUME ReviewInv, NEW c \in Calls,
           \/ CreateReviewWrite(c) \/ ToggleVisibilityWrite(c) \/ DeleteReviewWrite(c)
           \/ BulkDeleteWrite(c) \/ BulkFind(c)
    PROVE  ReviewInv'
<1>1. ASSUME Goto(c, Recalculate), ~Saving(c)
      PROVE  Moves(c, Recalculate) /\ Pending(c)' /\ Recalculate.op = "average"
  <2>1. Recalculate.op = "average" /\ Moves(c, Recalculate)
    BY <1>1 DEF Goto, Moves, Recalculate
  <2> QED
    BY <2>1, MovesOnlyOne DEF Pending, Doing
<1>2. ASSUME Finish(c), ~Saving(c)
      PROVE  Moves(c, Idle) /\ Idle.op = "idle"
  BY <1>2 DEF Finish, Moves, Idle
<1>3. CASE CreateReviewWrite(c)
  <2>1. Goto(c, Recalculate) /\ ~Saving(c) /\ unsettled' = unsettled
    BY <1>3 DEF CreateReviewWrite, Saving, Doing
  <2>2. PICK i \in Ids \ Issued : reviews' = [reviews EXCEPT ![i] =
            [guest |-> call[c].guest, stars |-> call[c].stars, hidden |-> FALSE]]
    BY <1>3 DEF CreateReviewWrite
  <2>3. reviews[i] # Deleted
    BY <2>2 DEF Issued, NoReview, Deleted
  <2>4. /\ reviews' = [k \in Ids |-> reviews'[k]]
        /\ \A k \in Ids : reviews[k] = Deleted => reviews'[k] = Deleted
    BY <2>2, <2>3 DEF ReviewInv, Shape
  <2> QED
    BY <1>1, <2>1, <2>4, ChangingStep
<1>4. CASE ToggleVisibilityWrite(c)
  <2> DEFINE i == call[c].id
  <2>0. ~Saving(c) /\ ~Pending(c) /\ UNCHANGED <<rating, unsettled>>
    BY <1>4 DEF ToggleVisibilityWrite, Saving, Pending, Doing
  <2>1. CASE i \in Written
    <3>1. reviews' = [reviews EXCEPT ![i] = Shown(i, call[c].hidden)] /\ Goto(c, Recalculate)
      BY <1>4, <2>1 DEF ToggleVisibilityWrite
    <3>2. /\ reviews' = [k \in Ids |-> reviews'[k]]
          /\ \A k \in Ids : reviews[k] = Deleted => reviews'[k] = Deleted
      BY <2>1, <3>1 DEF ReviewInv, Shape, Written
    <3> QED
      BY <1>1, <2>0, <3>1, <3>2, ChangingStep
  <2>2. CASE i \notin Written
    <3>1. Finish(c) /\ UNCHANGED reviews
      BY <1>4, <2>2 DEF ToggleVisibilityWrite
    <3> QED
      BY <1>2, <2>0, <3>1, QuietStep
  <2> QED
    BY <2>1, <2>2
<1>5. CASE DeleteReviewWrite(c)
  <2> DEFINE i == call[c].id
  <2>0. ~Saving(c) /\ ~Pending(c) /\ UNCHANGED <<rating, unsettled>> /\ Erase({i})
    BY <1>5 DEF DeleteReviewWrite, Saving, Pending, Doing
  <2>1. CASE i \in Written
    <3>1. Goto(c, Recalculate)
      BY <1>5, <2>1 DEF DeleteReviewWrite
    <3> QED
      BY <1>1, <2>0, <3>1, EraseKeepsDeleted, ChangingStep DEF ReviewInv
  <2>2. CASE i \notin Written
    <3>1. Finish(c) /\ reviews' = reviews
      BY <1>5, <2>0, <2>2, ErasedAlready DEF DeleteReviewWrite, ReviewInv
    <3> QED
      BY <1>2, <2>0, <3>1, QuietStep
  <2> QED
    BY <2>1, <2>2
<1>6. CASE BulkDeleteWrite(c)
  <2> DEFINE ids == call[c].ids
  <2>0. ~Saving(c) /\ ~Pending(c) /\ UNCHANGED <<rating, unsettled>> /\ Erase(ids)
    BY <1>6 DEF BulkDeleteWrite, Saving, Pending, Doing
  <2>1. CASE call[c].found
    <3>1. Goto(c, Recalculate)
      BY <1>6, <2>1 DEF BulkDeleteWrite
    <3> QED
      BY <1>1, <2>0, <3>1, EraseKeepsDeleted, ChangingStep DEF ReviewInv
  <2>2. CASE ~call[c].found
    <3>1. ErasesNothing(c)
      BY <1>6, <2>2 DEF BulkDeleteWrite, ReviewInv, EraseInv
    <3>2. ids \cap Written = {}
      BY <3>1 DEF ErasesNothing, Written
    <3>3. Finish(c) /\ reviews' = reviews
      BY <1>6, <2>0, <2>2, <3>2, ErasedAlready DEF BulkDeleteWrite, ReviewInv
    <3> QED
      BY <1>2, <2>0, <3>3, QuietStep
  <2> QED
    BY <2>1, <2>2
<1>7. CASE BulkFind(c)
  <2>0. ~Saving(c) /\ UNCHANGED <<reviews, rating, unsettled>>
    BY <1>7 DEF BulkFind, Saving, Doing, reviewVars
  <2>1. CASE call[c].ids \cap Written # {}
    <3>1. Goto(c, Recalculate)
      BY <1>7, <2>1 DEF BulkFind
    <3> QED
      BY <1>1, <2>0, <3>1, ChangingStep DEF ReviewInv, Shape
  <2>2. CASE call[c].ids \cap Written = {}
    <3>1. Finish(c) /\ ~Pending(c)
      BY <1>7, <2>2 DEF BulkFind, Pending, Doing
    <3> QED
      BY <1>2, <2>0, <3>1, QuietStep
  <2> QED
    BY <2>1, <2>2
<1> QED
  BY <1>3, <1>4, <1>5, <1>6, <1>7

LEMMA UnchangedStep ==
    ASSUME ReviewInv, UNCHANGED <<call, reviews, rating, unsettled>>
    PROVE  ReviewInv'
BY DEF ReviewInv, Shape, EraseInv, ErasesNothing, AloneInv, FreshInv, RatingInv, AnyPending,
       Pending, Saving, Doing, Average, Written, Issued

LEMMA ReviewInitially ==
    ASSUME ReviewInit, call = [c \in Calls |-> Idle]
    PROVE  ReviewInv
<1>1. \A x \in Calls : call[x].op = "idle"
  BY DEF Idle
<1>2. Shape
  BY DEF ReviewInit, Shape
<1>3. EraseInv /\ AloneInv /\ FreshInv
  BY <1>1 DEF EraseInv, AloneInv, FreshInv, Saving, Doing
<1>4. rating = Average
  <2> DEFINE seen == {i \in Ids : reviews[i] \notin {NoReview, Deleted} /\ ~reviews[i].hidden}
  <2>1. seen = {}
    BY DEF ReviewInit
  <2>2. Cardinality(seen) = 0
    BY <2>1, FS_EmptySet
  <2> QED
    BY <2>2 DEF ReviewInit, Average, AverageOf
<1> QED
  BY <1>2, <1>3, <1>4 DEF ReviewInv, RatingInv, ReviewInit

LEMMA ReviewStep ==
    ASSUME ReviewInv, [ReviewNext]_<<call, reviewVars>>
    PROVE  ReviewInv'
<1>1. CASE \E g \in Guests : TripCompletes(g)
  BY <1>1, UnchangedStep DEF TripCompletes
<1>2. ASSUME NEW c \in Calls,
             \/ \E g \in Guests : CreateReviewRead(c, g)
             \/ \E i \in Ids : ToggleVisibilityRead(c, i) \/ DeleteReviewRead(c, i)
             \/ \E ids \in (SUBSET Issued) \ {{}} :
                  BulkDeleteRead(c, ids) \/ BulkToggleVisibility(c, ids)
      PROVE  ReviewInv'
  BY <1>2, RequestStep
<1>3. ASSUME NEW c \in Calls,
             \/ CreateReviewWrite(c) \/ ToggleVisibilityWrite(c) \/ DeleteReviewWrite(c)
             \/ BulkDeleteWrite(c) \/ BulkFind(c)
      PROVE  ReviewInv'
  BY <1>3, WriteStep
<1>4. ASSUME NEW c \in Calls, AverageRead(c) \/ SaveAverage(c) \/ ReviewFails(c)
      PROVE  ReviewInv'
  BY <1>4, AverageReadStep, SaveAverageStep, ReviewFailsStep
<1>5. CASE UNCHANGED <<call, reviewVars>>
  BY <1>5, UnchangedStep DEF reviewVars
<1> QED
  BY <1>1, <1>2, <1>3, <1>4, <1>5 DEF ReviewNext

\* The average a tour shows, once no recalculation is due (_recalcTourRating).
THEOREM RatingFollowsReviews == ReviewSpec => []RatingIsTheAverage
<1>1. ReviewInit /\ call = [c \in Calls |-> Idle] => ReviewInv
  BY ReviewInitially
<1>2. ReviewInv /\ [ReviewNext]_<<call, reviewVars>> => ReviewInv'
  BY ReviewStep
<1>3. ReviewInv => RatingIsTheAverage
  BY DEF ReviewInv, RatingInv, RatingIsTheAverage, AnyPending, Pending, Saving, Doing
<1> QED
  BY <1>1, <1>2, <1>3, PTL DEF ReviewSpec

-----------------------------------------------------------------------------
(* One review per guest.                                                   *)

HasReview(g) == \E i \in Written : reviews[i].guest = g
Writing(x, g) == Doing(x, "write") /\ call[x].guest = g

\* A guest none of whose reviews overlapped has one at most, and none while one is
\* being written.
GuestInv ==
    \A g \in Guests \ twice :
        /\ \A i, j \in Written : reviews[i].guest = g /\ reviews[j].guest = g => i = j
        /\ \A x \in Calls : Writing(x, g) => ~HasReview(g)

OneReviewInv ==
    /\ call = [x \in Calls |-> call[x]]
    /\ reviews = [i \in Ids |-> reviews[i]]
    /\ GuestInv

\* Nobody's review appears, and a guest starts to write one only without having one.
NoNewReview ==
    /\ call' = [x \in Calls |-> call'[x]]
    /\ reviews' = [i \in Ids |-> reviews'[i]]
    /\ twice' = twice
    /\ \A i \in Written' : i \in Written /\ reviews'[i].guest = reviews[i].guest
    /\ \A x \in Calls, g \in Guests : Writing(x, g)' => Writing(x, g) \/ ~HasReview(g)

LEMMA NoNewReviewStep ==
    ASSUME OneReviewInv, NoNewReview
    PROVE  OneReviewInv'
<1>1. \A g : HasReview(g)' => HasReview(g)
  BY DEF NoNewReview, HasReview
<1>2. ASSUME NEW g \in Guests \ twice'
      PROVE  /\ \A i, j \in Written' : reviews'[i].guest = g /\ reviews'[j].guest = g => i = j
             /\ \A x \in Calls : Writing(x, g)' => ~HasReview(g)'
  BY <1>1 DEF OneReviewInv, GuestInv, NoNewReview
<1> QED
  BY <1>2 DEF OneReviewInv, GuestInv, NoNewReview

\* A handler that writes nothing for a guest moves, and the rows stay or go.
LEMMA RowsStay ==
    ASSUME OneReviewInv, NEW c \in Calls, NEW work, call' = [call EXCEPT ![c] = work],
           work.op = "write" => \A i \in Written : reviews[i].guest # work.guest,
           twice' = twice, reviews' = [i \in Ids |-> reviews'[i]],
           \A i \in Written' : i \in Written /\ reviews'[i].guest = reviews[i].guest
    PROVE  OneReviewInv'
<1>1. \A x \in Calls : call'[x] = IF x = c THEN work ELSE call[x]
  BY DEF OneReviewInv
<1>2. call' = [x \in Calls |-> call'[x]]
  BY DEF OneReviewInv
<1>3. \A x \in Calls, g \in Guests : Writing(x, g)' => Writing(x, g) \/ ~HasReview(g)
  BY <1>1 DEF Writing, HasReview, Doing
<1> QED
  BY <1>2, <1>3, NoNewReviewStep DEF NoNewReview

LEMMA CreateReviewWriteOnce ==
    ASSUME OneReviewInv, NEW c \in Calls, CreateReviewWrite(c)
    PROVE  OneReviewInv'
<1> DEFINE who == call[c].guest
<1>1. PICK n \in Ids \ Issued : reviews' = [reviews EXCEPT ![n] =
            [guest |-> who, stars |-> call[c].stars, hidden |-> FALSE]]
  BY DEF CreateReviewWrite
<1>2. Writing(c, who) /\ Goto(c, Recalculate)
  BY DEF CreateReviewWrite, Writing
<1>3. /\ call' = [x \in Calls |-> call'[x]]
      /\ call'[c].op = "average"
      /\ \A x \in Calls \ {c} : call'[x] = call[x]
  BY <1>2 DEF OneReviewInv, Goto, Recalculate
<1>4. /\ reviews' = [i \in Ids |-> reviews'[i]]
      /\ reviews'[n].guest = who
      /\ \A i \in Ids \ {n} : reviews'[i] = reviews[i]
  BY <1>1 DEF OneReviewInv
<1>5. \A i \in Written' : i = n \/ (i \in Written /\ reviews'[i] = reviews[i])
  BY <1>4 DEF Written, Issued
<1>6. ASSUME NEW g \in Guests \ twice'
      PROVE  /\ \A i, j \in Written' : reviews'[i].guest = g /\ reviews'[j].guest = g => i = j
             /\ \A x \in Calls : Writing(x, g)' => ~HasReview(g)'
  <2>1. g \notin twice /\ (g = who => \A x \in Calls \ {c} : ~Writing(x, g))
    BY <1>6 DEF CreateReviewWrite, Writing
  <2>2. \A x \in Calls : Writing(x, g)' => x # c /\ Writing(x, g)
    BY <1>3 DEF Writing, Doing
  <2>3. CASE g = who
    <3>1. \A x \in Calls : ~Writing(x, g)'
      BY <2>1, <2>2, <2>3
    <3>2. ~HasReview(g)
      BY <1>2, <2>1, <2>3 DEF OneReviewInv, GuestInv
    <3>3. \A i \in Written' : reviews'[i].guest = g => i = n
      BY <1>5, <3>2 DEF HasReview
    <3> QED
      BY <3>1, <3>3
  <2>4. CASE g # who
    <3>1. \A i \in Written' : reviews'[i].guest = g => i \in Written /\ reviews[i].guest = g
      BY <1>4, <1>5, <2>4
    <3>2. /\ \A i, j \in Written : reviews[i].guest = g /\ reviews[j].guest = g => i = j
          /\ \A x \in Calls : Writing(x, g) => ~HasReview(g)
      BY <2>1 DEF OneReviewInv, GuestInv
    <3>3. HasReview(g)' => HasReview(g)
      BY <3>1 DEF HasReview
    <3> QED
      BY <2>2, <3>1, <3>2, <3>3
  <2> QED
    BY <2>3, <2>4
<1> QED
  BY <1>3, <1>4, <1>6 DEF OneReviewInv, GuestInv

LEMMA OneReviewStep ==
    ASSUME OneReviewInv, [ReviewNext]_<<call, reviewVars>>
    PROVE  OneReviewInv'
<1>0. /\ Idle.op = "idle" /\ Recalculate.op = "average"
      /\ reviews = [i \in Ids |-> reviews[i]]
  BY DEF Idle, Recalculate, OneReviewInv
<1>1. ASSUME NEW g \in Guests, TripCompletes(g) PROVE OneReviewInv'
  BY <1>1 DEF TripCompletes, OneReviewInv, GuestInv, HasReview, Writing, Doing, Written, Issued
<1>2. ASSUME NEW c \in Calls, NEW g \in Guests, CreateReviewRead(c, g) PROVE OneReviewInv'
  <2>1. PICK stars \in Stars : Start(c, [op |-> "write", guest |-> g, stars |-> stars])
    BY <1>2 DEF CreateReviewRead
  <2>2. UNCHANGED <<reviews, twice>> /\ Written' = Written /\ \A i \in Written : reviews[i].guest # g
    BY <1>2 DEF CreateReviewRead, reviewVars, Written, Issued
  <2> QED
    BY <1>0, <2>1, <2>2, RowsStay DEF Start
<1>3. ASSUME NEW c \in Calls, NEW i \in Ids, ToggleVisibilityRead(c, i) \/ DeleteReviewRead(c, i)
      PROVE  OneReviewInv'
  <2>1. UNCHANGED <<reviews, twice>> /\ Written' = Written
    BY <1>3 DEF ToggleVisibilityRead, DeleteReviewRead, reviewVars, Written, Issued
  <2>2. CASE ToggleVisibilityRead(c, i)
    <3> DEFINE work == [op |-> "hide", id |-> i, hidden |-> ~reviews[i].hidden]
    <3>1. call' = [call EXCEPT ![c] = work] /\ work.op # "write"
      BY <2>2 DEF ToggleVisibilityRead, Start
    <3> QED
      BY <1>0, <2>1, <3>1, RowsStay
  <2>3. CASE DeleteReviewRead(c, i)
    <3> DEFINE work == [op |-> "delete", id |-> i]
    <3>1. call' = [call EXCEPT ![c] = work] /\ work.op # "write"
      BY <2>3 DEF DeleteReviewRead, Start
    <3> QED
      BY <1>0, <2>1, <3>1, RowsStay
  <2> QED
    BY <1>3, <2>2, <2>3
<1>4. ASSUME NEW c \in Calls, NEW ids \in (SUBSET Issued) \ {{}},
             BulkDeleteRead(c, ids) \/ BulkToggleVisibility(c, ids)
      PROVE  OneReviewInv'
  <2>2. CASE BulkDeleteRead(c, ids)
    <3> DEFINE work == [op |-> "erase", ids |-> ids, found |-> ids \cap Written # {}]
    <3>0. call' = [call EXCEPT ![c] = work] /\ work.op # "write"
      BY <2>2 DEF BulkDeleteRead, Start
    <3>1. UNCHANGED <<reviews, twice>> /\ Written' = Written
      BY <2>2 DEF BulkDeleteRead, reviewVars, Written, Issued
    <3> QED
      BY <1>0, <3>0, <3>1, RowsStay
  <2>3. CASE BulkToggleVisibility(c, ids)
    <3> DEFINE work == [op |-> "find", ids |-> ids]
    <3>0. call' = [call EXCEPT ![c] = work] /\ work.op # "write"
      BY <2>3 DEF BulkToggleVisibility, Start
    <3>1. PICK hidden \in BOOLEAN :
            reviews' = [i \in Ids |-> IF i \in ids \cap Written THEN Shown(i, hidden) ELSE reviews[i]]
      BY <2>3 DEF BulkToggleVisibility
    <3>2. \A i \in Written' : i \in Written /\ reviews'[i].guest = reviews[i].guest
      BY <3>1 DEF Written, Issued, Shown
    <3>3. twice' = twice /\ reviews' = [i \in Ids |-> reviews'[i]]
      BY <2>3, <3>1 DEF BulkToggleVisibility
    <3> QED
      BY <3>0, <3>2, <3>3, RowsStay
  <2> QED
    BY <1>4, <2>2, <2>3
<1>5. ASSUME NEW c \in Calls, ToggleVisibilityWrite(c) PROVE OneReviewInv'
  <2>1. twice' = twice /\ (Goto(c, Recalculate) \/ Finish(c))
    BY <1>5 DEF ToggleVisibilityWrite
  <2>2. \/ reviews' = reviews
        \/ /\ call[c].id \in Written
           /\ reviews' = [reviews EXCEPT ![call[c].id] = Shown(call[c].id, call[c].hidden)]
    BY <1>5 DEF ToggleVisibilityWrite
  <2>3. /\ reviews' = [i \in Ids |-> reviews'[i]]
        /\ \A i \in Written' : i \in Written /\ reviews'[i].guest = reviews[i].guest
    BY <1>0, <2>2 DEF Written, Issued, Shown
  <2> QED
    BY <1>0, <2>1, <2>3, RowsStay DEF Goto, Finish
<1>6. ASSUME NEW c \in Calls, DeleteReviewWrite(c) \/ BulkDeleteWrite(c) PROVE OneReviewInv'
  <2>1. twice' = twice /\ (Goto(c, Recalculate) \/ Finish(c)) /\ \E ids : Erase(ids)
    BY <1>6 DEF DeleteReviewWrite, BulkDeleteWrite
  <2>2. /\ reviews' = [i \in Ids |-> reviews'[i]]
        /\ \A i \in Written' : i \in Written /\ reviews'[i].guest = reviews[i].guest
    BY <2>1 DEF Erase, Written, Issued
  <2> QED
    BY <1>0, <2>1, <2>2, RowsStay DEF Goto, Finish
<1>7. ASSUME NEW c \in Calls, BulkFind(c) \/ SaveAverage(c) PROVE OneReviewInv'
  <2>1. UNCHANGED <<reviews, twice>> /\ Written' = Written /\ (Goto(c, Recalculate) \/ Finish(c))
    BY <1>7 DEF BulkFind, SaveAverage, reviewVars, Written, Issued
  <2> QED
    BY <1>0, <2>1, RowsStay DEF Goto, Finish
<1>8. ASSUME NEW c \in Calls, AverageRead(c) \/ ReviewFails(c) PROVE OneReviewInv'
  <2>1. UNCHANGED <<reviews, twice>> /\ Written' = Written
    BY <1>8 DEF AverageRead, ReviewFails, reviewVars, Written, Issued
  <2>2. call' = [x \in Calls |-> call'[x]] /\ \A x \in Calls \ {c} : call'[x] = Disturb(x)
    BY <1>8 DEF AverageRead, ReviewFails
  <2>3. call'[c].op # "write"
    BY <1>8 DEF AverageRead, ReviewFails, Idle
  <2>4. \A x \in Calls : Doing(x, "write")' => call'[x] = call[x]
    BY <2>2, <2>3, DisturbMarks DEF Saving, Doing
  <2>5. \A x \in Calls, g \in Guests : Writing(x, g)' => Writing(x, g)
    BY <2>4 DEF Writing, Doing
  <2> QED
    BY <1>0, <2>1, <2>2, <2>5, NoNewReviewStep DEF NoNewReview
<1>9. CASE UNCHANGED <<call, reviewVars>>
  BY <1>9 DEF reviewVars, OneReviewInv, GuestInv, HasReview, Writing, Doing, Written, Issued
<1> QED
  BY <1>1, <1>2, <1>3, <1>4, <1>5, <1>6, <1>7, <1>8, <1>9, CreateReviewWriteOnce DEF ReviewNext

LEMMA OneReviewInitially ==
    ASSUME ReviewInit, call = [c \in Calls |-> Idle]
    PROVE  OneReviewInv
<1>1. Written = {} /\ \A x \in Calls : call[x].op = "idle"
  BY DEF ReviewInit, Written, Issued, Idle
<1> QED
  BY <1>1 DEF ReviewInit, OneReviewInv, GuestInv, Writing, Doing

LEMMA OneReviewCount ==
    ASSUME OneReviewInv
    PROVE  OneReviewPerGuest
<1> SUFFICES ASSUME NEW g \in Guests \ twice
             PROVE  Cardinality({i \in Written : reviews[i].guest = g}) <= 1
  BY DEF OneReviewPerGuest
<1> DEFINE rows == {i \in Written : reviews[i].guest = g}
<1>1. \A i, j \in rows : i = j
  BY DEF OneReviewInv, GuestInv
<1>2. CASE rows = {}
  <2>1. Cardinality(rows) = 0
    BY <1>2, FS_EmptySet
  <2> QED
    BY <2>1
<1>3. ASSUME NEW i \in rows PROVE Cardinality(rows) <= 1
  <2>1. rows = {i}
    BY <1>1, <1>3
  <2>2. Cardinality({i}) = 1
    BY FS_Singleton
  <2>3. Cardinality(rows) = 1
    BY <2>1, <2>2
  <2> QED
    BY <2>3
<1> QED
  BY <1>2, <1>3

\* A guest has one review of the tour (createReview).
THEOREM OneReviewEach == ReviewSpec => []OneReviewPerGuest
<1>1. ReviewInit /\ call = [c \in Calls |-> Idle] => OneReviewInv
  BY OneReviewInitially
<1>2. OneReviewInv /\ [ReviewNext]_<<call, reviewVars>> => OneReviewInv'
  BY OneReviewStep
<1>3. OneReviewInv => OneReviewPerGuest
  BY OneReviewCount
<1> QED
  BY <1>1, <1>2, <1>3, PTL DEF ReviewSpec
=============================================================================
