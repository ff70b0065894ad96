------------------------------- MODULE Review -------------------------------
(***************************************************************************)
(* Reviews of one tour and the average that the tour's row stores          *)
(* (review.service).  Every change of the reviews is followed by           *)
(* _recalcTourRating, which reads the average in one statement and writes  *)
(* it in another; nothing keeps two recalculations apart.                  *)
(***************************************************************************)
EXTENDS Handlers, Counting

CONSTANTS
    Guests,         \* customers with a confirmed and paid booking of the tour
    Stars,          \* ratings a guest may give
    MaxReviews,     \* bound: reviews written
    MaxFailures     \* bound: handlers that fail half-way

ASSUME StarsAssumption == Stars \subseteq 1..5 /\ MaxReviews \in Nat /\ MaxFailures \in Nat

VARIABLES
    reviews,    \* the Review rows by id, and the marks NoReview and Deleted
    rating,     \* Tour.averageRating, in tenths
    home,       \* the guests whose trip is completed
    twice,      \* history: guests two of whose reviews were being written at once
    unsettled,  \* history: an average was overwritten or left unwritten since the
                \* last recalculation that nothing disturbed
    failures    \* history: handlers that failed half-way

reviewVars == <<reviews, rating, home, twice, unsettled, failures>>

Ids == 1..MaxReviews
NoReview == [guest |-> "nobody"]        \* an id not given yet
Deleted == [guest |-> "anybody"]        \* an id whose row is gone

ReviewWork ==
    [op: {"write"}, guest: Guests, stars: Stars]
        \cup [op: {"hide"}, id: Ids, hidden: BOOLEAN]
        \cup [op: {"delete"}, id: Ids]
        \cup [op: {"erase"}, ids: SUBSET Ids, found: BOOLEAN]
        \cup [op: {"find"}, ids: SUBSET Ids]
        \cup [op: {"average"}]
        \cup [op: {"save"}, average: Nat, alone: BOOLEAN]

ReviewTypeOK ==
    /\ reviews \in [Ids -> [guest: Guests, stars: Stars, hidden: BOOLEAN] \cup {NoReview, Deleted}]
    /\ rating \in 0..50
    /\ home \subseteq Guests /\ twice \subseteq Guests
    /\ unsettled \in BOOLEAN
    /\ failures \in 0..MaxFailures

ReviewInit ==
    /\ reviews = [i \in Ids |-> NoReview]
    /\ rating = 0
    /\ home = {} /\ twice = {}
    /\ unsettled = FALSE
    /\ failures = 0

Issued == {i \in Ids : reviews[i] # NoReview}
Written == {i \in Issued : reviews[i] # Deleted}

\* The average of the visible rows to one decimal, 0 if there is none.
AverageOf(rows) ==
    LET seen == {i \in Ids : rows[i] \notin {NoReview, Deleted} /\ ~rows[i].hidden}
        n == Cardinality(seen)
        sum == Total([i \in seen |-> rows[i].stars])
    IN IF n = 0 THEN 0 ELSE (20 * sum + n) \div (2 * n)

Average == AverageOf(reviews)

Goto(c, work) == call' = [call EXCEPT ![c] = work]
Recalculate == [op |-> "average"]

-----------------------------------------------------------------------------
(* createReview.                                                           *)

TripCompletes(g) ==
    /\ home' = home \cup {g}
    /\ UNCHANGED <<call, reviews, rating, twice, unsettled, failures>>

\* Mutant: the guest's earlier review is not looked for.
CreateReviewReadAgain(c, g) ==
    /\ g \in home
    /\ \E stars \in Stars : Start(c, [op |-> "write", guest |-> g, stars |-> stars])
    /\ UNCHANGED reviewVars

CreateReviewRead(c, g) ==
    /\ g \in home
    /\ \A i \in Written : reviews[i].guest # g
    /\ \E stars \in Stars : Start(c, [op |-> "write", guest |-> g, stars |-> stars])
    /\ UNCHANGED reviewVars

CreateReviewWrite(c) ==
    /\ Doing(c, "write")
    /\ \E i \in Ids \ Issued :
        /\ 1..(i - 1) = Issued
        /\ reviews' = [reviews EXCEPT ![i] =
                         [guest |-> call[c].guest, stars |-> call[c].stars, hidden |-> FALSE]]
    /\ twice' = IF \E x \in Calls \ {c} : Doing(x, "write") /\ call[x].guest = call[c].guest
                THEN twice \cup {call[c].guest} ELSE twice
    /\ Goto(c, Recalculate)
    /\ UNCHANGED <<rating, home, unsettled, failures>>

-----------------------------------------------------------------------------
(* Moderation.                                                             *)

Shown(i, hidden) == [guest |-> reviews[i].guest, stars |-> reviews[i].stars, hidden |-> hidden]

ToggleVisibilityRead(c, i) ==
    /\ i \in Written
    /\ Start(c, [op |-> "hide", id |-> i, hidden |-> ~reviews[i].hidden])
    /\ UNCHANGED reviewVars

\* Fails when the review was deleted since.
ToggleVisibilityWrite(c) ==
    /\ Doing(c, "hide")
    /\ IF call[c].id \in Written
       THEN /\ reviews' = [reviews EXCEPT ![call[c].id] = Shown(call[c].id, call[c].hidden)]
            /\ Goto(c, Recalculate)
       ELSE Finish(c) /\ UNCHANGED reviews
    /\ UNCHANGED <<rating, home, twice, unsettled, failures>>

Erase(ids) == reviews' = [i \in Ids |-> IF i \in ids \cap Written THEN Deleted ELSE reviews[i]]

DeleteReviewRead(c, i) ==
    /\ i \in Written
    /\ Start(c, [op |-> "delete", id |-> i])
    /\ UNCHANGED reviewVars

\* Fails when the review was deleted since.
DeleteReviewWrite(c) ==
    /\ Doing(c, "delete")
    /\ Erase({call[c].id})
    /\ IF call[c].id \in Written THEN Goto(c, Recalculate) ELSE Finish(c)
    /\ UNCHANGED <<rating, home, twice, unsettled, failures>>

\* bulkDelete reads which tours to recalculate ...
BulkDeleteRead(c, ids) ==
    /\ Start(c, [op |-> "erase", ids |-> ids, found |-> ids \cap Written # {}])
    /\ UNCHANGED reviewVars

\* ... and deletes.
BulkDeleteWrite(c) ==
    /\ Doing(c, "erase")
    /\ Erase(call[c].ids)
    /\ IF call[c].found THEN Goto(c, Recalculate) ELSE Finish(c)
    /\ UNCHANGED <<rating, home, twice, unsettled, failures>>

\* bulkToggleVisibility ...
BulkToggleVisibility(c, ids) ==
    /\ \E hidden \in BOOLEAN :
        reviews' = [i \in Ids |-> IF i \in ids \cap Written THEN Shown(i, hidden) ELSE reviews[i]]
    /\ Start(c, [op |-> "find", ids |-> ids])
    /\ UNCHANGED <<rating, home, twice, unsettled, failures>>

\* ... which reads the tours to recalculate afterwards.
BulkFind(c) ==
    /\ Doing(c, "find")
    /\ IF call[c].ids \cap Written # {} THEN Goto(c, Recalculate) ELSE Finish(c)
    /\ UNCHANGED reviewVars

-----------------------------------------------------------------------------
(* _recalcTourRating.                                                      *)

Saving(x) == Doing(x, "save")

\* No average read so far is still undisturbed.
Disturb(x) ==
    IF Saving(x) THEN [op |-> "save", average |-> call[x].average, alone |-> FALSE] ELSE call[x]

AverageRead(c) ==
    /\ Doing(c, "average")
    /\ call' = [x \in Calls |-> IF x = c
                                THEN [op |-> "save", average |-> Average,
                                      alone |-> \A y \in Calls : ~Saving(y)]
                                ELSE Disturb(x)]
    /\ UNCHANGED reviewVars

\* Mutant: no average of nothing is stored.
SaveAverageUnlessNone(c) ==
    /\ Saving(c)
    /\ rating' = IF call[c].average = 0 THEN rating ELSE call[c].average
    /\ unsettled' = ~call[c].alone
    /\ Finish(c)
    /\ UNCHANGED <<reviews, home, twice, failures>>

SaveAverage(c) ==
    /\ Saving(c)
    /\ rating' = call[c].average
    /\ unsettled' = ~call[c].alone
    /\ Finish(c)
    /\ UNCHANGED <<reviews, home, twice, failures>>

\* A statement of the handler fails, or the process stops, after the reviews changed.
ReviewFails(c) ==
    /\ call[c].op \in {"find", "average", "save"}
    /\ failures < MaxFailures
    /\ failures' = failures + 1
    /\ unsettled' = TRUE
    /\ call' = [x \in Calls |-> IF x = c THEN Idle ELSE Disturb(x)]
    /\ UNCHANGED <<reviews, rating, home, twice>>

ReviewNext ==
    \/ \E g \in Guests : TripCompletes(g)
    \/ \E c \in Calls, g \in Guests : CreateReviewRead(c, g)
    \/ \E c \in Calls, i \in Ids : ToggleVisibilityRead(c, i) \/ DeleteReviewRead(c, i)
    \/ \E c \in Calls, ids \in (SUBSET Issued) \ {{}} :
        BulkDeleteRead(c, ids) \/ BulkToggleVisibility(c, ids)
    \/ \E c \in Calls :
        \/ CreateReviewWrite(c) \/ ToggleVisibilityWrite(c) \/ DeleteReviewWrite(c)
        \/ BulkDeleteWrite(c) \/ BulkFind(c)
        \/ AverageRead(c) \/ SaveAverage(c) \/ ReviewFails(c)

ReviewSpec ==
    /\ ReviewInit /\ call = [c \in Calls |-> Idle]
    /\ [][ReviewNext]_<<call, reviewVars>>

-----------------------------------------------------------------------------
\* When no recalculation is due, the tour shows the average of its visible reviews,
\* unless two recalculations overlapped or a handler failed half-way since the last
\* one that nothing disturbed (_recalcTourRating).
RatingIsTheAverage ==
    (\A c \in Calls : call[c].op \notin {"find", "average", "save"}) /\ ~unsettled
        => rating = Average

\* A guest has one review of the tour, unless two were being written at once
\* (createReview).
OneReviewPerGuest ==
    \A g \in Guests \ twice : Cardinality({i \in Written : reviews[i].guest = g}) <= 1
=============================================================================
