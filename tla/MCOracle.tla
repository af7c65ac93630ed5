------------------------------ MODULE MCOracle ------------------------------
(* Instances of Broadcaster for TLC. *)
EXTENDS Broadcaster, TLC

CONSTANTS wsteth, source1, source2

(* From 10 to 11 is past the threshold of 950 basis points, from 11 to 10 is  *)
(* within it, and only a refresh sends it.                                    *)
MCInitialRate == source1 :> 10 @@ source2 :> 11
MCInitialFeeds == wsteth :> source1
MCFeeds == <<wsteth>>
=============================================================================
