----------------------------- MODULE MCCampaign -----------------------------
(* Values for the constants of Campaign.                                   *)
EXTENDS Campaign

\* Everybody, or everybody but the subscriber in the middle.
AllOrSome == {Subscribers, Subscribers \ {2}}
=============================================================================
