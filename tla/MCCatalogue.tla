---------------------------- MODULE MCCatalogue ----------------------------
(* Values for the constants of Catalogue.                                  *)
EXTENDS Catalogue, TLC

CONSTANTS h1, h2

PublishedOn(day, duty1, duty2) ==
    [status |-> "PUBLISHED", ready |-> TRUE, day |-> day, duty |-> (h1 :> duty1) @@ (h2 :> duty2)]

\* Two days ahead: one handler serves every request, the other one publishes;
\* or one saves schedules, the other one deletes the tour, and both book.  One day ahead: both
\* handlers save schedules and book.  An admin's edit gives the tour every other status.
ThreeBeginnings ==
    {PublishedOn(0, Kinds, {"publish"}),
     PublishedOn(0, {"form", "book"}, {"trash", "destroy", "book"}),
     PublishedOn(1, {"form", "book"}, {"form", "book"})}
=============================================================================
