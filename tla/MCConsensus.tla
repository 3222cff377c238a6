---------------------------- MODULE MCConsensus -----------------------------
(* Instances of Consensus for TLC.                                         *)
EXTENDS Consensus, TLC

Weighted(w) == [S \in SUBSET Validators |-> MapThenSumSet(LAMBDA v : w[v], S)]

\* Three validators of power 3, 2, 2: a quorum is validator 0 and another.
StakeUneven == Weighted((0 :> 3) @@ (1 :> 2) @@ (2 :> 2))

\* Three validators of power 2, 3, 2: a quorum is validator 1 and another.
StakeMiddle == Weighted((0 :> 2) @@ (1 :> 3) @@ (2 :> 2))

\* Two validators of power 1 and 3: validator 1 is a quorum of its own.
StakeHeavy == Weighted((0 :> 1) @@ (1 :> 3))

\* Four validators of equal power: any three are a quorum.
StakeEqual == Weighted([v \in Validators |-> 1])
=============================================================================
