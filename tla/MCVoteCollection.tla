-------------------------- MODULE MCVoteCollection --------------------------
(* Instances of VoteCollection for TLC.                                    *)
EXTENDS VoteCollection, TLC

CONSTANTS v1, v2, v3, v4, b0, b1

\* Three validators, total power 7, quorum 5: {v1, v2} and {v1, v3}.
PowerUneven == (v1 :> 3) @@ (v2 :> 2) @@ (v3 :> 2)

\* Four validators of equal power, quorum 3.
PowerEqual == (v1 :> 1) @@ (v2 :> 1) @@ (v3 :> 1) @@ (v4 :> 1)

\* Two blocks of one height, proposed in different rounds.
TwoRounds == (b0 :> 0) @@ (b1 :> 1)

OneRound == (b0 :> 0)
=============================================================================
