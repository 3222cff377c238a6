------------------------------ MODULE Consensus -----------------------------
(***************************************************************************)
(* The shard's consensus (bft/src/state.rs): rotating proposers, votes     *)
(* locked per height, rounds advanced on timeout, commit of a block when   *)
(* its child is certified, catch-up from certified blocks of peers.        *)
(*                                                                         *)
(* Every validator follows the code.  The network is what was sent: a      *)
(* header or vote, once sent, may be handled by anyone at any time, again  *)
(* and in any order, or never.  A block is its chain: the sequence of its  *)
(* ancestors' entries with its own last, so that its height is its length, *)
(* its parent its front, and genesis the empty sequence; the certificate   *)
(* in its header is the one of its parent.                                 *)
(***************************************************************************)
EXTENDS Integers, Sequences, FiniteSets, FiniteSetsExt

CONSTANTS
    N,              \* number of validators
    Stake,          \* voting power of each set of validators
    Payloads,       \* contents of a block that has transactions
    Live,           \* validators that do not stop (for liveness only)
    MaxHeight,      \* bound: no block is built above this height
    MaxView         \* bound: no timeout beyond this round

Validators == 0..(N - 1)

\* Voting power is additive over the validators.
ASSUME ConsensusAssumption ==
    /\ N \in Nat \ {0}
    /\ Stake \in [SUBSET Validators -> Nat]
    /\ Stake[{}] = 0
    /\ \A S, T \in SUBSET Validators :
          Stake[S \cup T] + Stake[S \cap T] = Stake[S] + Stake[T]
    /\ Payloads \cap {"empty", "fallback", "sync"} = {}
    /\ Live \subseteq Validators
    /\ MaxHeight \in Nat
    /\ MaxView \in Nat

VARIABLE node       \* the state of each validator

-----------------------------------------------------------------------------
(* Blocks.                                                                 *)

Contents == Payloads \cup {"empty", "fallback", "sync"}

Entry == [round : 0..MaxView, content : Contents]

Chain == Seq(Entry)

Genesis == << >>

Block == Chain \ {Genesis}

Height(b) == Len(b)

Parent(b) == SubSeq(b, 1, Len(b) - 1)

RoundOf(b) == b[Len(b)].round

ContentOf(b) == b[Len(b)].content

Child(p, r, c) == Append(p, [round |-> r, content |-> c])

Proposer(h, r) == (h + r) % N

-----------------------------------------------------------------------------
(* What was sent.                                                          *)

Headers == UNION {node[v].proposed : v \in Validators}

Voters(b) == {v \in Validators : b \in node[v].signed}

\* VotePower::has_quorum.
Quorum(S) == Stake[S] * 3 > Stake[Validators] * 2

Certified(b) == Quorum(Voters(b))

-----------------------------------------------------------------------------
(* The state of a validator (BftState), in the part this module needs.     *)

NoProposal == << >>

InitNode ==
    [view       |-> 0,          \* self.view
     locks      |-> {},         \* self.voted_heights
     latestQc   |-> Genesis,    \* self.latest_qc: the block it certifies
     log        |-> << >>,      \* the blocks committed, in order
     known      |-> {},         \* complete blocks above the committed height
     qcChecks   |-> {},         \* self.pending_qc_verifications
     qcOk       |-> {},         \* self.verified_qcs
     rootChecks |-> {},         \* transaction roots being verified
     proposal   |-> NoProposal, \* self.pending_proposal
     builds     |-> {},         \* BuildProposal actions being executed
     formed     |-> {},         \* blocks whose vote set built its certificate
     ready      |-> {},         \* BlockReadyToCommit events enqueued
     waiting    |-> {},         \* self.pending_commits
     syncing    |-> FALSE,      \* self.syncing
     target     |-> 0,          \* SyncManager.sync_target; 0: None
     proposed   |-> {},         \* headers broadcast
     signed     |-> {}]         \* votes broadcast

Init == node = [v \in Validators |-> InitNode]

CommittedHeight(n) == Len(n.log)

NextHeight(n) == IF n.latestQc # Genesis THEN Height(n.latestQc) + 1
                 ELSE CommittedHeight(n) + 1

\* The block to build on: the one of the latest certificate, or the last
\* committed one with the genesis certificate.
Tip(n) == IF n.latestQc = Genesis /\ n.log # << >> THEN n.log[Len(n.log)]
          ELSE n.latestQc

LockedAt(n, h) == \E b \in n.locks : Height(b) = h

Larger(x, y) == IF x > y THEN x ELSE y

HasCompleteBlockAt(n, h) ==
    h <= CommittedHeight(n) \/ \E b \in n.known : Height(b) = h

-----------------------------------------------------------------------------
(* Steps that the handlers share.                                          *)

\* Mutation of UnlockForQc: the view moves past the certificate's round.
UnlockForQcNextRound(n, qc) ==
    [n EXCEPT !.view  = Larger(@, RoundOf(qc) + 1),
              !.locks = {b \in @ : Height(b) > Height(qc)}]

\* maybe_unlock_for_qc.
UnlockForQc(n, qc) ==
    [n EXCEPT !.view  = Larger(@, RoundOf(qc)),
              !.locks = {b \in @ : Height(b) > Height(qc)}]

\* A certificate replaces latest_qc when it is higher.
AdoptQc(n, qc) ==
    IF Height(qc) > Height(n.latestQc)
    THEN UnlockForQc([n EXCEPT !.latestQc = qc], qc)
    ELSE n

CreateVote(n, b) ==
    [n EXCEPT !.locks  = {x \in @ : Height(x) # Height(b)} \cup {b},
              !.signed = @ \cup {b}]

\* A proposer stores its block, broadcasts the header and votes for it.
Announce(n, b) ==
    CreateVote([n EXCEPT !.known    = @ \cup {b},
                         !.proposed = @ \cup {b}], b)

\* try_vote_on_block: a locked height is left alone, a block with
\* transactions is voted on when its root has been verified.
TryVoteOnBlock(n, b) ==
    IF LockedAt(n, Height(b)) THEN n
    ELSE IF ContentOf(b) \in Payloads /\ b \notin n.rootChecks
         THEN [n EXCEPT !.rootChecks = @ \cup {b}]
         ELSE CreateVote(n, b)

TriggerQcVerificationOrVote(n, b) ==
    IF Parent(b) = Genesis \/ Parent(b) \in n.qcOk THEN TryVoteOnBlock(n, b)
    ELSE [n EXCEPT !.qcChecks = @ \cup {b}]

\* Mutation of ShouldPropose: no look at the vote lock.
ShouldProposeAgain(n, v) ==
    /\ Proposer(NextHeight(n), n.view) = v
    /\ NextHeight(n) <= MaxHeight

ShouldPropose(n, v) ==
    /\ Proposer(NextHeight(n), n.view) = v
    /\ ~LockedAt(n, NextHeight(n))
    /\ NextHeight(n) <= MaxHeight

\* on_proposal_timer past its guards: a sync block at once, or a proposal
\* with content c handed to the runner for building.
Propose(n, c) ==
    IF n.syncing
    THEN Announce(n, Child(Tip(n), n.view, "sync"))
    ELSE [n EXCEPT !.proposal = <<NextHeight(n), n.view>>,
                   !.builds   = @ \cup {Child(Tip(n), n.view, c)}]

\* The buffered commits reach from height h to k, where the gap is.
DrainsTo(n, h, k) ==
    /\ \A i \in h + 1..k : \E b \in n.waiting : Height(b) = i
    /\ \A b \in n.waiting : Height(b) # k + 1

\* Commits block b of the next height and the buffered ones up to height k
\* (commit_block_and_buffered, drain_pending_commits), with
\* cleanup_old_state for each and the end of the sync that reached its
\* target (SyncManager::set_committed_height, on_sync_complete).  Without a
\* target there is no sync to end, and the flag stays as it is.
Commit(n, b, k) ==
    LET buffered == [i \in 1..k - Height(b) |->
                       CHOOSE x \in n.waiting : Height(x) = Height(b) + i]
        Above(S) == {x \in S : Height(x) > k}
    IN  [n EXCEPT !.log        = Append(@, b) \o buffered,
                  !.known      = Above(@),
                  !.locks      = Above(@),
                  !.formed     = Above(@),
                  !.qcChecks   = Above(@),
                  !.rootChecks = Above(@),
                  !.qcOk       = {x \in @ : Height(x) > k - 2},
                  !.waiting    = Above(@),
                  !.syncing    = IF n.target \in 1..k THEN FALSE ELSE @,
                  !.target     = IF k >= @ THEN 0 ELSE @]

-----------------------------------------------------------------------------
(* Handlers.                                                               *)

\* The proposal timer fires at a proposer (on_proposal_timer).
OnProposalTimer(v, c) ==
    /\ ShouldPropose(node[v], v)
    /\ node' = [node EXCEPT ![v] = Propose(node[v], c)]

\* The runner hands a built block over (on_proposal_built).  It is dropped
\* when the proposal it was built for is no longer the pending one.
OnProposalBuilt(v, b) ==
    LET n == [node[v] EXCEPT !.builds = @ \ {b}]
    IN  /\ b \in node[v].builds
        /\ node' = [node EXCEPT ![v] =
              IF n.proposal = <<Height(b), RoundOf(b)>>
              THEN Announce([n EXCEPT !.proposal = NoProposal], b)
              ELSE n]

\* Mutation of OnRoundTimeout: the round is not advanced.
OnRoundTimeoutSameRound(v) ==
    LET h == NextHeight(node[v])
    IN  /\ node[v].view < MaxView
        /\ h <= MaxHeight
        /\ node' = [node EXCEPT ![v].locks = {b \in @ : Height(b) # h}]

\* The leader timed out (check_round_timeout, advance_round): next round,
\* vote lock of the height dropped, fallback block from the new proposer.  The
\* vote sets that clear_vote_tracking_for_height drops are no state of this
\* module, which forms certificates from all votes sent; VoteCollection has them.
OnRoundTimeout(v) ==
    LET h == NextHeight(node[v])
        r == node[v].view + 1
        n == [node[v] EXCEPT !.view  = r,
                             !.locks = {b \in @ : Height(b) # h}]
    IN  /\ r <= MaxView
        /\ h <= MaxHeight
        /\ node' = [node EXCEPT ![v] =
              IF Proposer(h, r) = v
              THEN Announce(n, Child(Tip(n), r, "fallback"))
              ELSE n]

\* Mutation of HeaderQc: the header's block is taken for the certified one.
HeaderQcOfBlock(n, b) == AdoptQc(n, b)

\* The parent certificate of an arriving header: the validator turns to
\* syncing when no block of the parent's height is there (start_sync), else
\* the certificate may be adopted.
HeaderQc(n, b) ==
    LET p == Parent(b)
    IN  IF p = Genesis THEN n
        ELSE IF ~HasCompleteBlockAt(n, Height(p))
             THEN [n EXCEPT !.syncing = TRUE]
             ELSE AdoptQc(n, p)

\* What on_block_header has done when it comes to validate the header.
HeaderSeen(n, b) == [HeaderQc(n, b) EXCEPT !.view = Larger(@, RoundOf(b))]

\* validate_header, for the headers that proposers send: the timestamp is
\* `timely` or not, and not looked at in a fallback block.
ValidHeader(n, b, timely) ==
    /\ Height(b) > CommittedHeight(n)
    /\ Parent(b) = Genesis => Height(b) = CommittedHeight(n) + 1
    /\ timely \/ ContentOf(b) = "fallback"

\* The StartSync action, which the runner gets for the header that made the
\* validator turn to syncing.
StartSync(n, b, started) ==
    IF started THEN [n EXCEPT !.target = Height(Parent(b))] ELSE n

\* A header arrives (on_block_header), with all of its transactions at hand.
\* One that is rejected or known returns no action: the flag may be set and
\* the StartSync that belongs to it dropped.
OnBlockHeader(v, b, timely) ==
    LET n == HeaderSeen(node[v], b)
        started == n.syncing /\ ~node[v].syncing
    IN  /\ b \in Headers \ node[v].proposed
        /\ node' = [node EXCEPT ![v] =
              IF ValidHeader(n, b, timely) /\ b \notin n.known
              THEN TriggerQcVerificationOrVote(
                       StartSync([n EXCEPT !.known = @ \cup {b}], b, started), b)
              ELSE n]

\* The crypto pool found the parent certificate of b good
\* (on_qc_signature_verified).
OnQcSignatureVerified(v, b) ==
    LET n == [node[v] EXCEPT !.qcChecks = @ \ {b},
                             !.qcOk     = @ \cup {Parent(b)}]
    IN  /\ b \in node[v].qcChecks
        /\ node' = [node EXCEPT ![v] = TryVoteOnBlock(n, b)]

\* The transaction root of b was verified (on_transaction_root_verified): the
\* vote follows without another look at the locks.
OnTransactionRootVerified(v, b) ==
    LET n == [node[v] EXCEPT !.rootChecks = @ \ {b}]
    IN  /\ b \in node[v].rootChecks
        /\ node' = [node EXCEPT ![v] = CreateVote(n, b)]

\* Validator v has collected a certificate for b (on_qc_formed).  The parent
\* becomes ready to commit, and a proposer that has content c, or is syncing,
\* may go on at once.
QcFormed(n, b) ==
    LET p == Parent(b)
        m == [AdoptQc(n, b) EXCEPT !.formed = @ \cup {b}]
    IN  IF p # Genesis /\ Height(p) > CommittedHeight(n)
        THEN [m EXCEPT !.ready = @ \cup {p}]
        ELSE m

\* Mutation of OnQcFormed: the quorum is not awaited.
OnQcFormedEarly(v, b) ==
    /\ b \in node[v].known \ node[v].formed
    /\ node' = [node EXCEPT ![v] = QcFormed(@, b)]

OnQcFormed(v, b) ==
    /\ b \in node[v].known \ node[v].formed
    /\ Certified(b)
    /\ node' = [node EXCEPT ![v] = QcFormed(@, b)]

OnQcFormedAndPropose(v, b, c) ==
    LET n == QcFormed(node[v], b)
    IN  /\ b \in node[v].known \ node[v].formed
        /\ Certified(b)
        /\ c \in Payloads \/ n.syncing
        /\ ShouldPropose(n, v)
        /\ node' = [node EXCEPT ![v] = Propose(n, c)]

\* Mutation of OnBlockReadyToCommit: what comes early is committed at once.
OnBlockReadyToCommitAtOnce(v, b) ==
    LET n == [node[v] EXCEPT !.ready = @ \ {b}]
    IN  /\ b \in node[v].ready
        /\ b \in n.known
        /\ Height(b) > CommittedHeight(n)
        /\ node' = [node EXCEPT ![v] = Commit(n, b, Height(b))]

\* The enqueued BlockReadyToCommit event (on_block_ready_to_commit): commit
\* in height order, buffer what comes early, drop what is unknown or old.
OnBlockReadyToCommit(v, b) ==
    LET n    == [node[v] EXCEPT !.ready = @ \ {b}]
        next == CommittedHeight(n) + 1
    IN  /\ b \in node[v].ready
        /\ \/ /\ b \notin n.known \/ Height(b) < next
              /\ node' = [node EXCEPT ![v] = n]
           \/ /\ b \in n.known
              /\ Height(b) = next
              /\ \E k \in next..MaxHeight :
                    /\ DrainsTo(n, next, k)
                    /\ node' = [node EXCEPT ![v] = Commit(n, b, k)]
           \/ /\ b \in n.known
              /\ Height(b) > next
              /\ node' = [node EXCEPT ![v] = [n EXCEPT !.waiting =
                            {x \in @ : Height(x) # Height(b)} \cup {b}]]

\* Mutation of OnSyncedBlock: the delivered certificate is not verified.
OnSyncedBlockUnverified(v, b) ==
    LET n == node[v]
    IN  /\ Height(b) = CommittedHeight(n) + 1
        /\ Height(b) <= n.target
        /\ \E k \in Height(b)..MaxHeight :
              /\ DrainsTo(n, Height(b), k)
              /\ node' = [node EXCEPT ![v] = Commit(AdoptQc(n, b), b, k)]

\* A running sync delivers the next block, certified, from some peer
\* (on_synced_block_ready, apply_synced_block).  The code checks the aggregate
\* signature of the signers named, not their power; a certificate a peer has
\* stored was built from a quorum or checked the same way, so it has one.
OnSyncedBlock(v, b) ==
    LET n == node[v]
    IN  /\ Height(b) = CommittedHeight(n) + 1
        /\ Height(b) <= n.target
        /\ Certified(b)
        /\ \E k \in Height(b)..MaxHeight :
              /\ DrainsTo(n, Height(b), k)
              /\ node' = [node EXCEPT ![v] = Commit(AdoptQc(n, b), b, k)]

\* Everything but the round timeout and a header out of time.
Handle(v) ==
    \/ \E c \in Payloads \cup {"empty"} : OnProposalTimer(v, c)
    \/ \E b \in node[v].builds : OnProposalBuilt(v, b)
    \/ \E b \in Headers : OnBlockHeader(v, b, TRUE)
    \/ \E b \in node[v].qcChecks : OnQcSignatureVerified(v, b)
    \/ \E b \in node[v].rootChecks : OnTransactionRootVerified(v, b)
    \/ \E b \in node[v].known : OnQcFormed(v, b)
    \/ \E b \in node[v].known, c \in Payloads \cup {"empty"} :
           OnQcFormedAndPropose(v, b, c)
    \/ \E b \in node[v].ready : OnBlockReadyToCommit(v, b)
    \/ \E b \in Headers : OnSyncedBlock(v, b)

\* A header whose timestamp is too old or too far ahead for v's clock.
OnUntimelyHeader(v) == \E b \in Headers : OnBlockHeader(v, b, FALSE)

Next == \E v \in Validators : Handle(v) \/ OnUntimelyHeader(v) \/ OnRoundTimeout(v)

Spec == Init /\ [][Next]_node

\* A stable network with the validators Live up.  The view change timeout is
\* longer than it takes to handle what was sent, and about the same
\* everywhere: a round ends at v only when nothing else is left to do and no
\* other validator is rounds behind.  Clocks agree well enough that no header
\* is out of time.
StableTimeout(v) ==
    /\ \A w \in Live : ~ENABLED <<Handle(w)>>_node
    /\ \A w \in Live : node[v].view <= node[w].view
    /\ OnRoundTimeout(v)

StableSpec ==
    /\ Init
    /\ [][\E v \in Live : Handle(v) \/ StableTimeout(v)]_node
    /\ \A v \in Live : WF_node(Handle(v)) /\ WF_node(StableTimeout(v))

-----------------------------------------------------------------------------
(* Properties.                                                             *)

NodeState ==
    [view : 0..MaxView, locks : SUBSET Block, latestQc : Chain,
     log : Seq(Block), known : SUBSET Block, qcChecks : SUBSET Block,
     qcOk : SUBSET Chain, rootChecks : SUBSET Block,
     proposal : {NoProposal} \cup Nat \X Nat, builds : SUBSET Block,
     formed : SUBSET Block, ready : SUBSET Block, waiting : SUBSET Block,
     syncing : BOOLEAN, target : Nat, proposed : SUBSET Block, signed : SUBSET Block]

\* Every validator's state keeps its type, and rounds stay within the bound.
TypeOK == node \in [Validators -> NodeState]

CertifiedBlocks == {b \in Headers : Certified(b)}

AncestorsIn(b, C) == \A h \in 1..Height(b) - 1 : SubSeq(b, 1, h) \in C

Sound(n, H, C) ==
    /\ n.latestQc \in C \cup {Genesis}
    /\ n.ready \cup n.waiting \subseteq C
    /\ UNION {n.known, n.qcChecks, n.rootChecks, n.signed} \subseteq H
    /\ \A b \in n.builds \cup n.proposed : AncestorsIn(b, C)
    /\ \A h \in 1..Len(n.log) : n.log[h] \in C /\ Height(n.log[h]) = h

\* The inductive invariant behind the safety properties: whatever a validator
\* adopts as its latest certificate, buffers or commits is certified, whatever
\* it stores, verifies or votes for was proposed, and a proposal in the making
\* or sent has only certified ancestors.
CertifiedChains ==
    \A v \in Validators : Sound(node[v], Headers, CertifiedBlocks)

DoubleVoted(h) ==
    \E v \in Validators : \E b1, b2 \in node[v].signed :
        b1 # b2 /\ Height(b1) = h /\ Height(b2) = h

\* Two validators commit different blocks at a height, or one commits a block
\* that does not extend its previous one, only if some validator voted for
\* two blocks of one height: commit_block_and_buffered and apply_synced_block,
\* which compare heights and never parents, add no way of their own to fork.
ForkNeedsDoubleVote ==
    \A u, v \in Validators :
        /\ \A h \in 1..Len(node[u].log) :
              h <= Len(node[v].log) /\ node[u].log[h] # node[v].log[h]
              => DoubleVoted(h)
        /\ \A h \in 2..Len(node[v].log) :
              Parent(node[v].log[h]) # node[v].log[h - 1]
              => DoubleVoted(h - 1)

\* A block that anyone votes for has only certified ancestors, although
\* on_proposal_built votes for a block built on an older latest_qc and
\* on_transaction_root_verified votes long after the header was validated.
VotedAncestorsCertified ==
    \A v \in Validators : \A b \in node[v].signed :
        \A h \in 1..Height(b) - 1 : Certified(SubSeq(b, 1, h))

\* Commits happen once per height and without a gap, whatever the order of
\* certificates, buffered commits and synced blocks.
CommitsInOrder ==
    \A v \in Validators : \A h \in 1..Len(node[v].log) :
        /\ Height(node[v].log[h]) = h
        /\ Certified(node[v].log[h])

\* A validator votes for two blocks of one height and round only when one of
\* them is a sync block: the vote locks, the one proposer of a round and the
\* single pending proposal keep the others apart.
RoundVoteUniqueUnlessSync ==
    \A v \in Validators : \A b1, b2 \in node[v].signed :
        Height(b1) = Height(b2) /\ RoundOf(b1) = RoundOf(b2)
        => b1 = b2 \/ "sync" \in {ContentOf(b1), ContentOf(b2)}

\* With timeouts longer than the message delays, every validator commits, also
\* those that fell behind and have to sync.
EventuallyCommitted ==
    <>(\A v \in Live : Len(node[v].log) >= MaxHeight - 1)

\* on_qc_result: "Voting for different blocks at different rounds is allowed
\* (HotStuff-2 unlock), but same round is Byzantine behavior."
RoundVoteUnique ==
    \A v \in Validators : \A b1, b2 \in node[v].signed :
        Height(b1) = Height(b2) /\ RoundOf(b1) = RoundOf(b2) => b1 = b2

\* maybe_unlock_for_qc: "once a QC exists for block B at height H, no
\* conflicting block at height H can ever get a QC (quorum intersection)."
OneQcPerHeight ==
    \A b1, b2 \in Headers :
        Certified(b1) /\ Certified(b2) /\ Height(b1) = Height(b2) => b1 = b2

\* Validators commit the same block at each height.
Agreement ==
    \A u, v \in Validators :
        \A h \in 1..Len(node[u].log) :
            h <= Len(node[v].log) => node[u].log[h] = node[v].log[h]
=============================================================================
