--------------------------- MODULE VoteCollection ---------------------------
(***************************************************************************)
(* Vote collection at one validator (bft/src/vote_set.rs and the vote      *)
(* handlers of bft/src/state.rs): votes for the blocks of one height are   *)
(* buffered unverified, handed to the crypto pool in one batch once a      *)
(* quorum is possible, and come back either as a quorum certificate or as  *)
(* the list of votes whose signature was good.                             *)
(*                                                                         *)
(* Everything between the hand-over and the answer may happen: more votes, *)
(* the header, a round timeout that drops the vote set, the commit of the  *)
(* height.                                                                 *)
(***************************************************************************)
EXTENDS Integers, FiniteSets, FiniteSetsExt

CONSTANTS
    Validators,     \* the committee
    Self,           \* the validator whose state is modelled
    Power,          \* voting power of each validator (topology.rs)
    Blocks,         \* competing blocks of one height
    Round,          \* the round in each block's header
    MaxView,        \* bound: timeouts stop at this view
    MaxBad,         \* bound: votes that arrive with a bad signature
    None            \* absence of a vote set or of a recorded vote

ASSUME VoteAssumption ==
    /\ Self \in Validators
    /\ Power \in [Validators -> Nat \ {0}]
    /\ Round \in [Blocks -> Nat]
    /\ MaxView \in Nat
    /\ MaxBad \in Nat
    /\ None \notin Blocks
    /\ IsFiniteSet(Validators)

VARIABLES
    view,           \* self.view
    committed,      \* whether the height of Blocks is committed
    headers,        \* blocks whose header is in pending_blocks
    voteSets,       \* self.vote_sets
    received,       \* self.received_votes_by_height, for this height
    batches,        \* VerifyAndBuildQuorumCertificate actions being executed
    qcs,            \* history: certificates built
    bad             \* history: <<block, voter>> of the bad signatures buffered

vars == <<view, committed, headers, voteSets, received, batches, qcs,
          bad>>

-----------------------------------------------------------------------------
(* Voting power.  Verified votes are a list in the code, and the same      *)
(* validator may occur in it more than once: a multiplicity function.      *)

Vote == [voter : Validators, valid : BOOLEAN]

NoVotes == [w \in Validators |-> 0]

ListPower(f) == MapThenSumSet(LAMBDA w : f[w] * Power[w], Validators)

SetPower(W) == MapThenSumSet(LAMBDA w : Power[w], W)

TotalPower == SetPower(Validators)

HasQuorum(voted) == voted * 3 > TotalPower * 2

Voters(S) == {x.voter : x \in S}

\* Adds one entry for each validator of W.
Plus(f, W) == [w \in Validators |-> f[w] + (IF w \in W THEN 1 ELSE 0)]

EmptySet == [verified |-> NoVotes, unverified |-> {}, seen |-> {},
             pending |-> FALSE, qcBuilt |-> FALSE]

Init ==
    /\ view = 0
    /\ committed = FALSE
    /\ headers = {}
    /\ voteSets = [b \in Blocks |-> None]
    /\ received = [w \in Validators |-> None]
    /\ batches = {}
    /\ qcs = {}
    /\ bad = {}

-----------------------------------------------------------------------------
\* VoteSet::should_trigger_verification.  A vote set knows the parent hash
\* exactly when the header is known: it is created from the pending block's
\* header, and on_block_header fills it in for the ones created before.
ShouldTrigger(b, s, hdrs) ==
    /\ ~s.pending
    /\ ~s.qcBuilt
    /\ s.unverified # {}
    /\ b \in hdrs
    /\ HasQuorum(ListPower(s.verified) + SetPower(Voters(s.unverified)))

\* Two batches in flight may carry the same votes: a number tells them apart.
FreshId == CHOOSE i \in 0..Cardinality(batches) :
               \A batch \in batches : batch.id # i

\* Stores vote set s of block b and hands out a batch when it is worthwhile
\* (maybe_trigger_vote_verification with take_unverified_votes).
MaybeTrigger(b, s, hdrs, inFlight) ==
    \/ /\ ShouldTrigger(b, s, hdrs)
       /\ voteSets' = [voteSets EXCEPT
                        ![b] = [s EXCEPT !.pending = TRUE, !.unverified = {}]]
       /\ batches' = inFlight \cup
                       {[id |-> FreshId, block |-> b,
                         verified |-> s.verified, toVerify |-> s.unverified]}
    \/ /\ ~ShouldTrigger(b, s, hdrs)
       /\ voteSets' = [voteSets EXCEPT ![b] = s]
       /\ batches' = inFlight

SetOf(b) == IF voteSets[b] = None THEN EmptySet ELSE voteSets[b]

\* VoteSet::buffer_unverified_vote, for a voter not seen before.
BufferUnverifiedVote(s, vote) ==
    [s EXCEPT !.seen = @ \cup {vote.voter}, !.unverified = @ \cup {vote}]

\* VoteSet::add_verified_vote, for a voter not seen before.
AddVerifiedVote(s, w) ==
    [s EXCEPT !.seen = @ \cup {w}, !.verified = Plus(@, {w})]

\* Mutations of OnVotesVerified: the flag is not reset; the votes are lost.
OnVotesVerifiedKeepPending(s, f) ==
    [s EXCEPT !.verified = [w \in Validators |-> @[w] + f[w]]]

OnVotesVerifiedDrop(s, f) == [s EXCEPT !.pending = FALSE]

\* VoteSet::on_votes_verified: the returned votes are appended to the list.
OnVotesVerified(s, f) ==
    [s EXCEPT !.pending = FALSE,
              !.verified = [w \in Validators |-> @[w] + f[w]]]

-----------------------------------------------------------------------------
(* Handlers.                                                               *)

\* A vote of another validator arrives; its signature is not looked at.
OnBlockVote(b, vote) ==
    /\ ~committed
    /\ vote.voter # Self
    /\ vote.voter \notin SetOf(b).seen
    /\ vote.valid \/ Cardinality(bad) < MaxBad
    /\ MaybeTrigger(b, BufferUnverifiedVote(SetOf(b), vote), headers, batches)
    /\ bad' = IF vote.valid THEN bad ELSE bad \cup {<<b, vote.voter>>}
    /\ UNCHANGED <<view, committed, headers, received, qcs>>

\* Mutation of OnOwnVote: no look at seen_validators.
OnOwnVoteAgain(b) ==
    /\ ~committed
    /\ b \in headers
    /\ MaybeTrigger(b, AddVerifiedVote(SetOf(b), Self), headers, batches)
    /\ UNCHANGED <<view, committed, headers, received, qcs, bad>>

\* create_vote hands the validator's own vote over as verified.
OnOwnVote(b) ==
    /\ ~committed
    /\ b \in headers
    /\ Self \notin SetOf(b).seen
    /\ MaybeTrigger(b, AddVerifiedVote(SetOf(b), Self), headers, batches)
    /\ UNCHANGED <<view, committed, headers, received, qcs, bad>>

\* Mutation of OnBlockHeader: the votes that came first stay where they are.
OnBlockHeaderNoTrigger(b) ==
    /\ ~committed
    /\ b \notin headers
    /\ headers' = headers \cup {b}
    /\ view' = IF Round[b] > view THEN Round[b] ELSE view
    /\ UNCHANGED <<committed, voteSets, batches, received, qcs, bad>>

\* The header arrives (on_block_header, as far as votes are concerned): the
\* view catches up with the header's round and buffered votes may go out.
OnBlockHeader(b) ==
    /\ ~committed
    /\ b \notin headers
    /\ headers' = headers \cup {b}
    /\ view' = IF Round[b] > view THEN Round[b] ELSE view
    /\ \/ /\ voteSets[b] = None
          /\ UNCHANGED <<voteSets, batches>>
       \/ /\ voteSets[b] # None
          /\ MaybeTrigger(b, voteSets[b], headers', batches)
    /\ UNCHANGED <<committed, received, qcs, bad>>

\* What the crypto pool finds: the votes already verified and the new ones
\* whose signature is good, in one list.
AllVerified(batch) ==
    Plus(batch.verified, {x.voter : x \in {y \in batch.toVerify : y.valid}})

Signers(f) == {w \in Validators : f[w] > 0}

\* on_qc_result with a certificate.
OnQcBuilt(batch) ==
    LET all == AllVerified(batch)
        b   == batch.block
    IN  /\ HasQuorum(ListPower(all))
        /\ qcs' = qcs \cup {[block |-> b, signers |-> Signers(all),
                             power |-> ListPower(all)]}
        /\ batches' = batches \ {batch}
        /\ voteSets' = IF voteSets[b] = None THEN voteSets
                       ELSE [voteSets EXCEPT ![b].qcBuilt = TRUE,
                                             ![b].pending = FALSE]
        /\ UNCHANGED <<view, committed, headers, received, bad>>

\* The equivocation record of on_qc_result: a verified vote replaces the
\* voter's record unless that holds another block of the same round.
Record(rec, W, b) ==
    [w \in Validators |->
        IF w \in W /\ ~(/\ rec[w] # None
                        /\ rec[w] # b
                        /\ Round[rec[w]] = Round[b])
        THEN b ELSE rec[w]]

\* on_qc_result without a certificate: view synchronisation, equivocation
\* record, and the returned votes go back into the vote set, if it is still
\* there.  (A failing aggregation of a verified quorum would answer the same
\* way; signatures that were each verified do aggregate.)
OnQcNotBuilt(batch) ==
    LET all == AllVerified(batch)
        b   == batch.block
    IN  /\ ~HasQuorum(ListPower(all))
        /\ view' = IF Signers(all) # {} /\ Round[b] > view
                   THEN Round[b] ELSE view
        /\ received' = Record(received, Signers(all), b)
        /\ \/ /\ voteSets[b] = None
              /\ batches' = batches \ {batch}
              /\ voteSets' = voteSets
           \/ /\ voteSets[b] # None
              /\ MaybeTrigger(b, OnVotesVerified(voteSets[b], all), headers,
                              batches \ {batch})
        /\ UNCHANGED <<committed, headers, qcs, bad>>

\* advance_round with clear_vote_tracking_for_height: the records of the
\* height go, and with them the vote sets of earlier rounds.
AdvanceRound ==
    /\ ~committed
    /\ view < MaxView
    /\ view' = view + 1
    /\ received' = [w \in Validators |-> None]
    /\ voteSets' = [b \in Blocks |->
                      IF Round[b] < view + 1 THEN None ELSE voteSets[b]]
    /\ UNCHANGED <<committed, headers, batches, qcs, bad>>

\* cleanup_old_state once the height is committed.
CommitHeight ==
    /\ ~committed
    /\ committed' = TRUE
    /\ headers' = {}
    /\ voteSets' = [b \in Blocks |-> None]
    /\ received' = [w \in Validators |-> None]
    /\ UNCHANGED <<view, batches, qcs, bad>>

Next ==
    \/ \E b \in Blocks, vote \in Vote : OnBlockVote(b, vote)
    \/ \E b \in Blocks : OnOwnVote(b)
    \/ \E b \in Blocks : OnBlockHeader(b)
    \/ \E batch \in batches : OnQcBuilt(batch)
    \/ \E batch \in batches : OnQcNotBuilt(batch)
    \/ AdvanceRound
    \/ CommitHeight

Spec == Init /\ [][Next]_vars

\* The crypto pool answers every batch it was handed.
Fairness ==
    /\ WF_vars(\E batch \in batches : OnQcBuilt(batch))
    /\ WF_vars(\E batch \in batches : OnQcNotBuilt(batch))

FairSpec == Spec /\ Fairness

-----------------------------------------------------------------------------
(* Properties.                                                             *)

VoteSetState == [verified : [Validators -> Nat], unverified : SUBSET Vote,
                 seen : SUBSET Validators, pending : BOOLEAN,
                 qcBuilt : BOOLEAN]

\* Every variable keeps its type.
TypeOK ==
    /\ view \in Nat
    /\ committed \in BOOLEAN
    /\ headers \subseteq Blocks
    /\ \A b \in Blocks : voteSets[b] = None \/ voteSets[b] \in VoteSetState
    /\ DOMAIN voteSets = Blocks
    /\ received \in [Validators -> Blocks \cup {None}]
    /\ \A batch \in batches : /\ batch.block \in Blocks
                               /\ batch.verified \in [Validators -> Nat]
                               /\ batch.toVerify \subseteq Vote
    /\ \A qc \in qcs : qc.block \in Blocks /\ qc.signers \subseteq Validators
    /\ bad \subseteq Blocks \X Validators

InFlight(b) == {batch \in batches : batch.block = b}

\* A vote set that waits for the crypto pool has an answer on its way: were
\* pending_verification left set without one, maybe_trigger_vote_verification
\* would never hand out a batch for the block again.
PendingHasBatch ==
    \A b \in Blocks :
        voteSets[b] # None /\ voteSets[b].pending => InFlight(b) # {}

\* Whatever the order in which votes, header and answers arrive, no vote set
\* is left in a state in which should_trigger_verification holds: each handler
\* that can complete a possible quorum hands out the batch itself.
NoMissedTrigger ==
    \A b \in Blocks :
        voteSets[b] # None => ~ShouldTrigger(b, voteSets[b], headers)

\* A well-signed vote that was accepted is never lost: until the certificate
\* is built it is buffered, being verified, or verified.
SeenVotesAccounted ==
    \A b \in Blocks : \A w \in Validators :
        /\ voteSets[b] # None
        /\ w \in voteSets[b].seen
        /\ <<b, w>> \notin bad
        => \/ voteSets[b].qcBuilt
           \/ w \in Voters(voteSets[b].unverified)
           \/ voteSets[b].verified[w] > 0
           \/ \E batch \in InFlight(b) : w \in Voters(batch.toVerify)

\* As long as every signature is good, a certificate's distinct signers have
\* a quorum of the voting power, across timeouts that drop vote sets while
\* their batches are being verified.
QcSoundWhenVotesValid ==
    bad = {} => \A qc \in qcs : HasQuorum(SetPower(qc.signers))

QuorumVoted(b) ==
    /\ voteSets[b] # None
    /\ b \in headers
    /\ voteSets[b].seen # {Self}
    /\ HasQuorum(SetPower(voteSets[b].seen))

\* Once the header is known and a quorum has voted with good signatures, a
\* certificate is built, even if a timeout drops the vote set meanwhile.
QuorumLeadsToQc ==
    \A b \in Blocks :
        QuorumVoted(b) ~> (bad # {} \/ \E qc \in qcs : qc.block = b)

\* quorum_certificate.rs: voting_power is the "Total voting power represented
\* by this QC", the power of the validators in its signers bitfield.
QcPowerOfSigners == \A qc \in qcs : qc.power = SetPower(qc.signers)

\* maybe_trigger_vote_verification: "verified votes alone would have
\* triggered earlier", so verified votes never form a quorum without a batch
\* in flight or a certificate built.
VerifiedQuorumTriggered ==
    \A b \in Blocks :
        /\ voteSets[b] # None
        /\ b \in headers
        /\ HasQuorum(SetPower(Signers(voteSets[b].verified)))
        => voteSets[b].pending \/ voteSets[b].qcBuilt
=============================================================================
