------------------------------- MODULE CatchUp -------------------------------
(***************************************************************************)
(* How one validator catches up with its shard: the sync half of           *)
(* `BftState` (bft/src/state.rs), which verifies and applies fetched       *)
(* blocks and commits blocks of its own, the `SyncManager`                 *)
(* (production/src/sync.rs), which fetches them, and the arms of the       *)
(* runner that connect the two.                                            *)
(*                                                                         *)
(* The chain to catch up with is fixed: there is one certified block per   *)
(* height 1..Tip, named by its height.  A fetched block comes with a       *)
(* certificate that is "good" or "bad" (its signature does not verify);    *)
(* the block's hash does not cover it.                                     *)
(***************************************************************************)
EXTENDS Integers, FiniteSets

CONSTANTS
    Tip,              \* the highest certified height of the shard
    WindowSize,       \* SyncConfig.sync_window_size
    MaxSpawned,       \* SyncConfig.max_spawned_fetches
    MaxParallel,      \* MAX_PARALLEL_SYNC_VERIFICATIONS
    SmallGap,         \* check_sync_health waits below this gap, with a block
    LargeGap,         \* ... and below this one with a pending commit as well
    Proposals,        \* heights whose header this validator may be sent
    MaxFailures,      \* bound: fetches that fail and are queued again
    MaxBad,           \* bound: responses with a bad certificate
    MaxRestarts       \* bound: restarts of the process

Heights == 1..Tip
Quality == {"good", "bad"}
Fetched == Heights \X Quality
NoBlocks == [h \in Heights |-> "none"]
Nothing == [x \in Fetched |-> 0]

\* Multisets of fetched blocks.
More(count, xs) == [x \in Fetched |-> IF x \in xs THEN count[x] + 1 ELSE count[x]]
Less(count, y) == [count EXCEPT ![y] = @ - 1]

ASSUME ConstantsAssumption ==
    /\ Tip \in Nat \ {0}
    /\ WindowSize \in Nat
    /\ MaxSpawned \in Nat \ {0}
    /\ MaxParallel \in Nat \ {0}
    /\ SmallGap \in Nat /\ LargeGap \in Nat
    /\ Proposals \subseteq Heights
    /\ MaxFailures \in Nat /\ MaxBad \in Nat /\ MaxRestarts \in Nat

VARIABLES
    (* BftState *)
    committed,  \* committed_height
    syncing,    \* the syncing flag
    latestQc,   \* height of latest_qc, 0 for none
    blocks,     \* pending_blocks and certified_blocks: none, incomplete, complete
    commits,    \* pending_commits: heights above the next one
    awaiting,   \* pending_commits_awaiting_data
    buffered,   \* buffered_synced_blocks: quality of the certificate, or none
    pending,    \* pending_synced_block_verifications, likewise
    verified,   \* ... those whose `verified` flag is set
    (* the crypto pool *)
    jobs,       \* how often VerifyQcSignature is outstanding for each
    (* SyncManager *)
    target,     \* sync_target, 0 for None
    queued,     \* heights_queued
    inFlight,   \* heights_in_flight
    mgrHeight,  \* SyncManager.committed_height
    tasks,      \* spawned fetch tasks that have not reported yet
    (* the runner *)
    responses,  \* how often SyncBlockReadyToApply is in the event channel
    persisted,  \* heights PersistBlock was told, one of which is the stored one
    timer,      \* whether the cleanup timer is armed
    (* bookkeeping *)
    failures, bads, restarts,
    syncsDone   \* a sync completed since the last restart

bftVars == <<committed, latestQc, persisted, blocks, commits, awaiting, buffered, pending, verified>>
mgrVars == <<target, queued, inFlight, mgrHeight, tasks>>
bounds == <<failures, bads, restarts>>
vars == <<bftVars, mgrVars, syncing, jobs, responses, timer, bounds, syncsDone>>

Init ==
    /\ committed = 0 /\ syncing = FALSE /\ latestQc = 0 /\ persisted = {0}
    /\ blocks = NoBlocks /\ commits = {} /\ awaiting = {}
    /\ buffered = NoBlocks /\ pending = NoBlocks /\ verified = {}
    /\ jobs = Nothing
    /\ target = 0 /\ queued = {} /\ inFlight = {} /\ mgrHeight = 0 /\ tasks = {}
    /\ responses = Nothing /\ timer = TRUE
    /\ failures = 0 /\ bads = 0 /\ restarts = 0
    /\ syncsDone = FALSE

-----------------------------------------------------------------------------
(* SyncManager                                                             *)

Smaller(a, b) == IF a <= b THEN a ELSE b
Larger(a, b) == IF a >= b THEN a ELSE b

\* Mutant: the window is not cut at the target.
WindowPastTarget(height, goal) == (height + 1)..(height + WindowSize)

\* Mutant: the window size is ignored.
WindowWhole(height, goal) == (height + 1)..goal

\* The heights queue_heights_in_window offers to the queue.
Window(height, goal) ==
    (height + 1)..(IF WindowSize = 0 THEN goal ELSE Smaller(height + WindowSize, goal))

\* spawn_pending_fetches: with a peer to ask, the lowest queued heights start,
\* up to the limit.
Spawned(queue, flying, S) ==
    /\ S \subseteq queue
    /\ \A s \in S, q \in queue \ S : s < q
    /\ S # {} => Cardinality(flying) + Cardinality(S) <= MaxSpawned
    /\ S # queue => Cardinality(flying) + Cardinality(S) >= MaxSpawned

\* Action::StartSync: SyncManager::start_sync (nothing starts without a peer).
StartSync(goal) ==
    IF target >= goal
    THEN UNCHANGED mgrVars
    ELSE LET queue == queued \cup (Window(mgrHeight, goal) \ inFlight)
         IN  \E S \in SUBSET queue :
                /\ S = {} \/ Spawned(queue, inFlight, S)
                /\ target' = goal
                /\ queued' = queue \ S
                /\ inFlight' = inFlight \cup S
                /\ tasks' = tasks \cup S
                /\ UNCHANGED mgrHeight

\* Mutant: a commit does not move the window.
SetCommittedHeightNoWindow(last) ==
    /\ mgrHeight' = last
    /\ inFlight' = {h \in inFlight : h > last}
    /\ IF target # 0 /\ last >= target
       THEN target' = 0 /\ queued' = {}
       ELSE target' = target /\ queued' = {h \in queued : h > last}
    /\ UNCHANGED tasks

\* Mutant: the target itself does not end the sync.
SetCommittedHeightPastTarget(last) ==
    /\ mgrHeight' = last
    /\ inFlight' = {h \in inFlight : h > last}
    /\ IF target # 0 /\ last > target
       THEN target' = 0 /\ queued' = {}
       ELSE /\ target' = target
            /\ queued' = {h \in queued : h > last} \cup
                  (IF target = 0 THEN {} ELSE Window(last, target) \ inFlight')
    /\ UNCHANGED tasks

\* SyncManager::set_committed_height, for every height up to `last`.
SetCommittedHeight(last) ==
    /\ mgrHeight' = last
    /\ inFlight' = {h \in inFlight : h > last}
    /\ IF target # 0 /\ last >= target
       THEN target' = 0 /\ queued' = {}
       ELSE /\ target' = target
            /\ queued' = {h \in queued : h > last} \cup
                  (IF target = 0 THEN {} ELSE Window(last, target) \ inFlight')
    /\ UNCHANGED tasks

\* The runner on Action::EmitCommittedBlock, for every height up to `last`:
\* the manager hears of it, and when that ends the sync the state machine is
\* given SyncComplete, whose actions (a timer, fetches) are dropped.
EmitCommitted(last) ==
    /\ SetCommittedHeight(last)
    /\ IF target # 0 /\ last >= target
       THEN syncing' = FALSE /\ syncsDone' = TRUE
       ELSE UNCHANGED <<syncing, syncsDone>>
    /\ UNCHANGED timer

\* handle_block_response and on_block_received: the blocks that are passed on,
\* those of the requested height whose certificate names them.
Delivered(D, out) == {x \in Fetched : x[1] \in D /\ out[x[1]] = x[2]}

\* SyncManager::tick: the tasks D have reported `out`; blocks are handed to
\* the state machine, failures queued again, and more fetches started if
\* `peers`, that is, a peer is connected.
Tick(D, out, peers) ==
    LET queue == queued \cup {h \in D : out[h] = "failed"}
        flying == inFlight \ D
        Of(q) == {h \in D : out[h] = q}
    IN  \E S \in SUBSET queue :
            /\ IF target = 0 \/ ~peers THEN S = {} ELSE Spawned(queue, flying, S)
            /\ failures + Cardinality(Of("failed")) <= MaxFailures
            /\ bads + Cardinality(Of("bad")) <= MaxBad
            /\ queued' = queue \ S
            /\ inFlight' = flying \cup S
            /\ tasks' = (tasks \ D) \cup S
            /\ responses' = More(responses, Delivered(D, out))
            /\ failures' = failures + Cardinality(Of("failed"))
            /\ bads' = bads + Cardinality(Of("bad"))
            /\ UNCHANGED <<bftVars, syncing, jobs, target, mgrHeight, timer,
                           restarts, syncsDone>>

-----------------------------------------------------------------------------
(* Committing and applying blocks                                          *)

\* cleanup_old_state: nothing at or below the committed height is kept.
Above(f, height) == [h \in Heights |-> IF h > height THEN f[h] ELSE "none"]
PendingHeights(pend) == {h \in Heights : pend[h] # "none"}

\* Mutant: no limit on parallel verifications.
DrainsNoLimit(height, buf, pend, top, end) ==
    LET slots == Tip
    IN  /\ height <= top /\ top <= end
        /\ \A h \in PendingHeights(pend) : h <= top
        /\ top = height \/ top \in PendingHeights(pend)
        /\ \A h \in (top + 1)..end : buf[h] # "none"
        /\ end > top => end - top <= slots
        /\ end < Tip /\ end - top < slots => buf[end + 1] = "none"

\* try_drain_buffered_synced_blocks: the heights above `top`, the highest one
\* pending (or committed), go to verification up to `end`, in sequence, as
\* long as they are buffered and slots are free.
Drains(height, buf, pend, top, end) ==
    LET slots == MaxParallel - Cardinality(PendingHeights(pend))
    IN  /\ height <= top /\ top <= end
        /\ \A h \in PendingHeights(pend) : h <= top
        /\ top = height \/ top \in PendingHeights(pend)
        /\ \A h \in (top + 1)..end : buf[h] # "none"
        /\ end > top => end - top <= slots
        /\ end < Tip /\ end - top < slots => buf[end + 1] = "none"

\* Commit every height up to `last` (none when last = committed), with the
\* cleanup_old_state of each, then drain the buffer.
CommitAndDrain(last, coms, buf, pend, ver, work) ==
    LET buf0 == Above(buf, last)
        pend0 == Above(pend, last)
    IN  \E top, end \in last..Tip :
            LET drained == (top + 1)..end
            IN  /\ Drains(last, buf0, pend0, top, end)
                /\ committed' = last
                /\ commits' = coms
                /\ blocks' = Above(blocks, last)
                /\ awaiting' = {h \in awaiting : h > last}
                /\ verified' = {h \in ver : h > last}
                /\ pending' = [h \in Heights |-> IF h \in drained THEN buf0[h] ELSE pend0[h]]
                /\ buffered' = [h \in Heights |-> IF h \in drained THEN "none" ELSE buf0[h]]
                /\ jobs' = More(work, {<<h, buf0[h]>> : h \in drained})
                /\ IF last > committed
                   THEN EmitCommitted(last)
                   ELSE UNCHANGED <<mgrVars, syncing, syncsDone, timer>>

\* The heights that have a buffered commit and a constructed block.
Committable == {h \in commits : blocks[h] = "complete"}

\* `last` is the end of the run of members of S that starts at `first`.
EndOfRun(first, S, last) ==
    /\ first <= last
    /\ (first + 1)..last \subseteq S
    /\ last + 1 \notin S

\* Mutant: an early commit is buffered before the block is looked at.
BlockReadyToCommitIncomplete(h) ==
    \/ /\ blocks[h] = "incomplete" /\ h = committed + 1
       /\ awaiting' = awaiting \cup {h}
       /\ UNCHANGED <<committed, blocks, commits, buffered, pending, verified,
                      mgrVars, syncing, syncsDone, timer, jobs>>
    \/ /\ blocks[h] # "none" /\ h # committed + 1
       /\ commits' = commits \cup {h}
       /\ UNCHANGED <<committed, blocks, awaiting, buffered, pending, verified,
                      mgrVars, syncing, syncsDone, timer, jobs>>
    \/ /\ blocks[h] = "complete" /\ h = committed + 1
       /\ \E last \in h..Tip :
             /\ EndOfRun(h, Committable, last)
             /\ CommitAndDrain(last, commits \ ((h + 1)..(last + 1)),
                               buffered, pending, verified, jobs)

\* on_block_ready_to_commit, with commit_block_and_buffered, for a block that
\* this validator holds and has not committed.
BlockReadyToCommit(h) ==
    \/ /\ blocks[h] = "incomplete"
       /\ awaiting' = awaiting \cup {h}
       /\ UNCHANGED <<committed, blocks, commits, buffered, pending, verified,
                      mgrVars, syncing, syncsDone, timer, jobs>>
    \/ /\ blocks[h] = "complete" /\ h # committed + 1
       /\ commits' = commits \cup {h}
       /\ UNCHANGED <<committed, blocks, awaiting, buffered, pending, verified,
                      mgrVars, syncing, syncsDone, timer, jobs>>
    \/ /\ blocks[h] = "complete" /\ h = committed + 1
       /\ \E last \in h..Tip :
             /\ EndOfRun(h, Committable, last)
             /\ CommitAndDrain(last, commits \ ((h + 1)..(last + 1)),
                               buffered, pending, verified, jobs)

\* The event BlockReadyToCommit, which on_qc_formed enqueues for height h
\* when the block of height h + 1 is certified.
OnBlockReadyToCommit(h) ==
    /\ h < latestQc
    /\ BlockReadyToCommit(h)
    /\ UNCHANGED <<latestQc, persisted, responses, bounds>>

\* A missing transaction or certificate arrives and completes the block;
\* try_commit_pending_data then retries a commit that waited for it.
BlockCompleted(h) ==
    /\ blocks[h] = "incomplete"
    /\ IF h \notin awaiting
       THEN /\ blocks' = [blocks EXCEPT ![h] = "complete"]
            /\ UNCHANGED <<committed, commits, awaiting, buffered, pending, verified,
                           mgrVars, syncing, syncsDone, timer, jobs>>
       ELSE IF h # committed + 1
       THEN /\ blocks' = [blocks EXCEPT ![h] = "complete"]
            /\ awaiting' = awaiting \ {h}
            /\ commits' = commits \cup {h}
            /\ UNCHANGED <<committed, buffered, pending, verified,
                           mgrVars, syncing, syncsDone, timer, jobs>>
       ELSE \E last \in h..Tip :
             /\ EndOfRun(h, Committable, last)
             /\ CommitAndDrain(last, commits \ ((h + 1)..(last + 1)),
                               buffered, pending, verified, jobs)
    /\ UNCHANGED <<latestQc, persisted, responses, bounds>>

-----------------------------------------------------------------------------
(* Synced blocks                                                           *)

\* Event::SyncBlockReadyToApply: on_synced_block_ready.  A block that is
\* committed, pending or buffered is filtered; the next one is submitted; a
\* later one is buffered and the buffer drained.  (The committee is fixed, so
\* collect_qc_signer_keys finds the key of every signer.)
OnSyncedBlockReady(h, q) ==
    /\ responses[<<h, q>>] > 0
    /\ responses' = Less(responses, <<h, q>>)
    /\ IF h <= committed \/ pending[h] # "none" \/ buffered[h] # "none"
       THEN UNCHANGED <<bftVars, mgrVars, syncing, syncsDone, timer, jobs>>
       ELSE IF h = committed + 1
       THEN /\ pending' = [pending EXCEPT ![h] = q]
            /\ jobs' = More(jobs, {<<h, q>>})
            /\ UNCHANGED <<committed, latestQc, persisted, blocks, commits, awaiting, buffered,
                           verified, mgrVars, syncing, syncsDone, timer>>
       ELSE /\ CommitAndDrain(committed, commits, [buffered EXCEPT ![h] = q],
                              pending, verified, jobs)
            /\ UNCHANGED <<latestQc, persisted>>
    /\ UNCHANGED <<bounds>>

\* try_apply_verified_synced_blocks: from the next height on, verified blocks
\* are applied and buffered commits drained, until neither is left.
ApplyVerified(ver, work) ==
    IF committed + 1 \notin ver
    THEN /\ CommitAndDrain(committed, commits, buffered, pending, ver, work)
         /\ UNCHANGED <<latestQc, persisted>>
    ELSE \E last \in (committed + 1)..Tip :
         /\ EndOfRun(committed + 1, ver \cup Committable, last)
         /\ CommitAndDrain(last, commits \ ((committed + 2)..(last + 1)),
                           buffered, pending, ver, work)
         /\ latestQc' = Larger(latestQc, last)
         /\ persisted' = persisted \cup {committed + 1}
                                   \cup (((committed + 2)..last) \ Committable)

\* Mutant: a failed verification leaves the blocks pending.
OnQcSignatureVerifiedKeep(h, q) ==
    /\ jobs[<<h, q>>] > 0
    /\ LET work == Less(jobs, <<h, q>>) IN
       \/ /\ pending[h] = "none"
          /\ jobs' = work
          /\ UNCHANGED <<bftVars, mgrVars, syncing, syncsDone, timer>>
       \/ /\ pending[h] # "none" /\ q = "bad"
          /\ jobs' = work
          /\ pending' = pending
          /\ verified' = {}
          /\ UNCHANGED <<committed, latestQc, persisted, blocks, commits, awaiting, buffered,
                         mgrVars, syncing, syncsDone, timer>>
       \/ /\ pending[h] # "none" /\ q = "good"
          /\ ApplyVerified(verified \cup {h}, work)
    /\ UNCHANGED <<responses, bounds>>

\* Event::QcSignatureVerified: on_qc_signature_verified, for a synced block.
\* The answer names the block, not the certificate that was checked.  The jobs
\* a consensus header starts for its parent certificate, which answer under
\* the header's hash, are left out, and so is an answer of theirs that would
\* be taken for that of a synced block of the same hash.
OnQcSignatureVerified(h, q) ==
    /\ jobs[<<h, q>>] > 0
    /\ LET work == Less(jobs, <<h, q>>) IN
       \/ /\ pending[h] = "none"
          /\ jobs' = work
          /\ UNCHANGED <<bftVars, mgrVars, syncing, syncsDone, timer>>
       \/ /\ pending[h] # "none" /\ q = "bad"
          /\ jobs' = work
          /\ pending' = NoBlocks
          /\ verified' = {}
          /\ UNCHANGED <<committed, latestQc, persisted, blocks, commits, awaiting, buffered,
                         mgrVars, syncing, syncsDone, timer>>
       \/ /\ pending[h] # "none" /\ q = "good"
          /\ ApplyVerified(verified \cup {h}, work)
    /\ UNCHANGED <<responses, bounds>>

-----------------------------------------------------------------------------
(* Finding out that blocks are missing                                     *)

\* has_complete_block_at_height
HasCompleteBlock(h) ==
    \/ h <= committed
    \/ blocks[h] = "complete"
    \/ pending[h] # "none"
    \/ buffered[h] # "none"

\* on_block_header: the header of height h carries the certificate of h - 1.
\* Sync starts if that block is missing, but a header that is rejected (`late`:
\* its timestamp is too old) or already known returns without the StartSync.
OnBlockHeader(h, data, late) ==
    LET missing == h > 1 /\ ~HasCompleteBlock(h - 1)
        returns == h <= committed \/ late \/ blocks[h] # "none"
    IN  /\ syncing' = (syncing \/ missing)
        /\ latestQc' = IF h > 1 /\ ~missing THEN Larger(latestQc, h - 1) ELSE latestQc
        /\ blocks' = IF returns THEN blocks ELSE [blocks EXCEPT ![h] = data]
        /\ IF missing /\ ~syncing /\ ~returns
           THEN StartSync(h - 1)
           ELSE UNCHANGED mgrVars
        /\ UNCHANGED <<committed, persisted, commits, awaiting, buffered, pending, verified,
                       jobs, responses, timer, bounds, syncsDone>>

\* on_qc_formed: the block of height h, whose header is known, is certified;
\* PersistBlock stores it, if it is complete, and its height as committed.
OnQcFormed(h) ==
    /\ blocks[h] # "none"
    /\ latestQc' = Larger(latestQc, h)
    /\ persisted' = IF blocks[h] = "complete" THEN persisted \cup {h} ELSE persisted
    /\ UNCHANGED <<committed, blocks, commits, awaiting, buffered, pending, verified,
                   mgrVars, syncing, jobs, responses, timer, bounds, syncsDone>>

\* check_sync_health, called by the cleanup timer.
CheckSyncHealth ==
    LET next == committed + 1
        gap == latestQc - committed
    IN  /\ timer /\ committed < latestQc /\ ~syncing
        /\ HasCompleteBlock(next) => gap > (IF next \in commits THEN LargeGap ELSE SmallGap)
        /\ syncing' = TRUE
        /\ StartSync(latestQc)
        /\ UNCHANGED <<bftVars, jobs, responses, timer, bounds, syncsDone>>

-----------------------------------------------------------------------------
(* The process stops and starts again.  Only the stored height is          *)
(* recovered: PersistBlock writes it in a task of its own, so any height   *)
(* it was told may have been written last.  SyncManager::new starts from   *)
(* 0, and the timers are only armed when the stored height is 0.           *)
Restart ==
    /\ restarts < MaxRestarts
    /\ restarts' = restarts + 1
    /\ committed' \in persisted /\ persisted' = {committed'}
    /\ syncing' = FALSE /\ latestQc' = 0
    /\ blocks' = NoBlocks /\ commits' = {} /\ awaiting' = {}
    /\ buffered' = NoBlocks /\ pending' = NoBlocks /\ verified' = {}
    /\ jobs' = Nothing
    /\ target' = 0 /\ queued' = {} /\ inFlight' = {} /\ mgrHeight' = 0 /\ tasks' = {}
    /\ responses' = Nothing /\ timer' = (committed' = 0) /\ syncsDone' = FALSE
    /\ UNCHANGED <<failures, bads>>

TickReporting(least, peers) ==
    \E D \in SUBSET tasks : \E out \in [D -> Quality \cup {"failed"}] :
        least \subseteq D /\ Tick(D, out, peers)

Next ==
    \/ \E peers \in BOOLEAN : TickReporting({}, peers)
    \/ \E h \in Heights, q \in Quality : OnSyncedBlockReady(h, q)
    \/ \E h \in Heights, q \in Quality : OnQcSignatureVerified(h, q)
    \/ \E h \in Proposals, data \in {"incomplete", "complete"}, late \in BOOLEAN :
          OnBlockHeader(h, data, late)
    \/ \E h \in Heights : OnQcFormed(h)
    \/ \E h \in Heights : OnBlockReadyToCommit(h)
    \/ \E h \in Heights : BlockCompleted(h)
    \/ CheckSyncHealth
    \/ Restart

Spec == Init /\ [][Next]_vars

(* The sync tick recurs, again and again with a peer connected, and every  *)
(* fetch task reports, since RequestManager bounds its retries; the runner *)
(* empties its channels and the crypto pool answers every job.  Nothing is *)
(* assumed of headers, certificates and commits.                           *)
Fairness ==
    /\ WF_vars(TickReporting({}, TRUE))
    /\ \A h \in Heights : WF_vars(TickReporting({h}, TRUE))
    /\ \A h \in Heights, q \in Quality : WF_vars(OnSyncedBlockReady(h, q))
    /\ \A h \in Heights, q \in Quality : WF_vars(OnQcSignatureVerified(h, q))

FairSpec == Spec /\ Fairness

-----------------------------------------------------------------------------
(* Properties                                                              *)

\* Types of all variables.
TypeOK ==
    /\ committed \in 0..Tip /\ latestQc \in 0..Tip /\ persisted \subseteq 0..Tip
    /\ blocks \in [Heights -> {"none", "incomplete", "complete"}]
    /\ commits \subseteq Heights /\ awaiting \subseteq Heights
    /\ buffered \in [Heights -> Quality \cup {"none"}]
    /\ pending \in [Heights -> Quality \cup {"none"}]
    /\ verified \subseteq Heights
    /\ jobs \in [Fetched -> Nat] /\ responses \in [Fetched -> Nat]
    /\ target \in 0..Tip /\ mgrHeight \in 0..Tip
    /\ queued \subseteq Heights /\ inFlight \subseteq Heights /\ tasks \subseteq Heights
    /\ syncing \in BOOLEAN /\ timer \in BOOLEAN /\ syncsDone \in BOOLEAN
    /\ failures \in Nat /\ bads \in Nat /\ restarts \in Nat

\* While a sync runs and every certificate fetched so far was good, no height
\* of the window gets lost on its way: each one that is not committed is
\* queued, being fetched, in the event channel, buffered or being verified.
\* (queue_height, remove_heights_at_or_below, on_synced_block_ready and
\* cleanup_old_state drop heights independently of one another.)
NoHeightLost ==
    bads = 0 /\ target # 0 =>
        \A h \in Window(mgrHeight, target) :
            \/ h <= committed
            \/ h \in queued \cup (inFlight \cap tasks)
            \/ \E q \in Quality : responses[<<h, q>>] > 0
            \/ buffered[h] # "none"
            \/ pending[h] # "none"

\* The blocks being verified are the next ones to commit, without a gap, and
\* never more than MAX_PARALLEL_SYNC_VERIFICATIONS: on_synced_block_ready
\* submits the next block without looking at the limit.
VerificationInSequence ==
    LET n == Cardinality(PendingHeights(pending))
    IN  n <= MaxParallel /\ PendingHeights(pending) = (committed + 1)..(committed + n)

\* A synced block whose certificate is not verified yet has a verification
\* outstanding, whatever was cleared and submitted again in between, so
\* on_qc_signature_verified will resolve it.
VerificationOutstanding ==
    \A h \in PendingHeights(pending) \ verified : \E q \in Quality : jobs[<<h, q>>] > 0

\* drain_pending_commits: "it should be complete since it was buffered in
\* pending_commits", whatever sync committed and cleaned up meanwhile.
BufferedCommitsComplete ==
    \A h \in commits : h > committed => blocks[h] = "complete"

\* SyncConfig::sync_window_size "limits memory usage in BFT's
\* buffered_synced_blocks": sync never holds a block further ahead than the
\* window, although failed fetches and late results queue heights again.
BufferBounded ==
    WindowSize # 0 => \A h \in Heights : buffered[h] # "none" => h <= committed + WindowSize

\* The manager only works for a state machine that knows it is syncing, and
\* towards a height that is not reached: SyncComplete is never missed.
ManagerServesSync ==
    target # 0 => syncing /\ mgrHeight < target

\* A sync that the manager works on comes to an end, and the state machine
\* leaves sync mode (set_committed_height, on_sync_complete).
SyncCompletes == target # 0 ~> ~syncing

\* start_sync "returns the StartSync action for the runner to begin fetching
\* blocks" and on_block_header says it will "always include sync actions":
\* a validator in sync mode has a sync manager that works on it.
SyncingHasTarget == syncing => target # 0

\* on_synced_block_ready: out-of-order blocks are "processed once earlier
\* blocks complete": no verified block waits at the next height.
VerifiedBlockApplied == committed + 1 \notin verified

\* NodeStateMachine on SyncComplete: "Now that sync is complete, we need to
\* restart the cleanup timer to resume periodic fetch checks and sync health
\* monitoring."
TimerAfterSync == syncsDone => timer

\* RecoveredState.committed_height is the "Last committed block height", and
\* set_chain_metadata stores "the highest committed block height": a validator
\* resumes from the height it had committed.
RecoversCommitted == [][restarts' # restarts => committed' = committed]_vars

=============================================================================
