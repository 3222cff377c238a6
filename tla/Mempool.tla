------------------------------- MODULE Mempool -------------------------------
(***************************************************************************)
(* The mempool of one validator, `MempoolState` (mempool/src/state.rs):    *)
(* the status of every transaction from its arrival to its end, the nodes  *)
(* locked by transactions in flight, the ready sets the proposer reads,    *)
(* and the deferral of the loser of a cross-shard cycle until its winner   *)
(* is done, when a retry takes its place.                                  *)
(*                                                                         *)
(* A transaction is <<original, attempt, tag>>: attempt 0 is what a client *)
(* submitted, and the tag of a retry stands for the winner and the height  *)
(* that go into its hash.  Heights are left out: what depends on age       *)
(* (timeouts, retention) may happen at any time.                           *)
(*                                                                         *)
(* The reverse indexes txs_deferred_by_node and ready_txs_by_node are the  *)
(* inverses of `blockers` and of the ready sets; every function that       *)
(* changes one changes the other, and the model has one of each.           *)
(***************************************************************************)
EXTENDS Integers, FiniteSets

CONSTANTS
    Originals,      \* client transactions
    MaxAttempts,    \* bound: retries of one original
    MaxRetries,     \* attempts at which a proposer aborts
    Tags,           \* retries of the same attempt that differ in their details
    Nodes,          \* state nodes
    DeclaredBy,     \* the nodes each original declares to read or write
    Hash,           \* rank of a transaction in the order of hashes
    MaxBlocks,      \* bound: blocks committed
    MaxBlockItems,  \* bound: transactions, deferrals, certificates, aborts in a block
    MaxFaults,      \* bound: restarts, and cleanups that drop something
    None            \* no transaction

Txs == (Originals \X {0} \X {0}) \cup (Originals \X (1..MaxAttempts) \X Tags)
Declared(t) == DeclaredBy[t[1]]
IsRetry(t) == t[2] > 0

\* RoutableTransaction::create_retry: the same payload under another hash.
RetryOf(t, tag) == <<t[1], t[2] + 1, tag>>

ASSUME MempoolAssumption ==
    /\ MaxAttempts \in Nat /\ MaxBlocks \in Nat /\ MaxFaults \in Nat
    /\ IsFiniteSet(Txs)
    /\ DeclaredBy \in [Originals -> SUBSET Nodes]
    /\ Hash \in [Txs -> Int]
    /\ None \notin Txs

VARIABLES
    mp,         \* MempoolState
    included,   \* transactions in the blocks committed so far
    certified,  \* transactions with a TransactionCertificate on some validator
    height,     \* blocks committed so far
    forgotten,  \* losers whose deferral cleanup_old_tombstones dropped
    ended,      \* history: transactions whose certificate or abort was committed
    overdue,    \* history: deferrals committed after the winner had ended
    faults      \* restarts and cleanups so far

chain == <<included, certified, height>>
ends == <<ended, overdue>>
vars == <<mp, chain, forgotten, ends, faults>>

Statuses == {"none", "pending", "committed", "executed", "deferred"}
Queues == {"none", "retries", "priority", "others"}

\* TransactionStatus::holds_state_lock
Holds(st) == st \in {"committed", "executed"}

\* MempoolState::new
Empty ==
    [status         |-> [t \in Txs |-> "none"],   \* pool; "none" when absent
     ready          |-> [t \in Txs |-> "none"],   \* ready_retries, _priority, _others
     blockers       |-> [t \in Txs |-> {}],       \* deferred_by_nodes
     locked         |-> {},                       \* locked_nodes_cache
     nCommitted     |-> 0,                        \* committed_count
     nExecuted      |-> 0,                        \* executed_count
     deferredBy     |-> [t \in Txs |-> None],     \* deferred_by: the winner
     losers         |-> [t \in Txs |-> {}],       \* deferred_losers_by_winner
     pendingDefs    |-> [t \in Txs |-> None],     \* pending_deferrals
     pendingRetries |-> [t \in Txs |-> None],     \* pending_retries
     completed      |-> {},                       \* completed_winners
     tombs          |-> {},                       \* tombstones
     retried        |-> {}]                       \* history: losers a retry replaced

MempoolStates ==
    [status : [Txs -> Statuses], ready : [Txs -> Queues], blockers : [Txs -> SUBSET Nodes],
     locked : SUBSET Nodes, nCommitted : Nat, nExecuted : Nat,
     deferredBy : [Txs -> Txs \cup {None}], losers : [Txs -> SUBSET Txs],
     pendingDefs : [Txs -> Txs \cup {None}], pendingRetries : [Txs -> Txs \cup {None}],
     completed : SUBSET Txs, tombs : SUBSET Txs, retried : SUBSET Txs]

Init ==
    /\ mp = Empty
    /\ included = {} /\ certified = {} /\ height = 0
    /\ forgotten = {} /\ ended = {} /\ overdue = {} /\ faults = 0

InPool(s) == {t \in Txs : s.status[t] # "none"}
With(s, st) == {t \in Txs : s.status[t] = st}

-----------------------------------------------------------------------------
(* Ready tracking and locks                                                *)

\* add_to_ready_set: provisions verified earlier are not remembered.
Queue(t) == IF IsRetry(t) THEN "retries" ELSE "others"

\* add_to_ready_tracking, for transactions A that enter the pool.
Insert(s, A) ==
    LET blocking(t) == Declared(t) \cap s.locked
    IN  [s EXCEPT
           !.status = [t \in Txs |-> IF t \in A THEN "pending" ELSE s.status[t]],
           !.blockers = [t \in Txs |-> IF t \in A THEN blocking(t) ELSE s.blockers[t]],
           !.ready = [t \in Txs |-> IF t \in A /\ blocking(t) = {} THEN Queue(t)
                                    ELSE s.ready[t]]]

\* remove_from_ready_tracking
Untrack(s, E) ==
    [s EXCEPT !.ready = [t \in Txs |-> IF t \in E THEN "none" ELSE s.ready[t]],
              !.blockers = [t \in Txs |-> IF t \in E THEN {} ELSE s.blockers[t]]]

\* Mutant: retries are not promoted.
PromotesNoRetry(s, U) ==
    {t \in Txs : /\ s.blockers[t] # {} /\ s.blockers[t] \subseteq U
                 /\ s.status[t] = "pending" /\ ~ IsRetry(t)}

\* promote_transactions_for_node, once for each of the nodes U.
Promotes(s, U) ==
    {t \in Txs : s.blockers[t] # {} /\ s.blockers[t] \subseteq U /\ s.status[t] = "pending"}

\* remove_locked_nodes
Unlock(s, U) ==
    [s EXCEPT
       !.locked = s.locked \ U,
       !.blockers = [t \in Txs |-> s.blockers[t] \ U],
       !.ready = [t \in Txs |-> IF t \in Promotes(s, U) THEN Queue(t) ELSE s.ready[t]]]

\* block_transactions_for_node, once for each of the newly locked nodes L: a
\* ready transaction leaves its ready set at the first of them it declares,
\* and records that one alone.  `pick` settles which comes first.
Lock(s, L, pick) ==
    LET hit(t) == Declared(t) \cap L
        first(t) == IF pick[t[1]] \in hit(t) THEN pick[t[1]] ELSE CHOOSE n \in hit(t) : TRUE
        moved == {t \in Txs : s.ready[t] # "none" /\ hit(t) # {}}
    IN  [s EXCEPT
           !.locked = s.locked \cup L,
           !.ready = [t \in Txs |-> IF t \in moved THEN "none" ELSE s.ready[t]],
           !.blockers = [t \in Txs |-> IF t \in moved THEN s.blockers[t] \cup {first(t)}
                                       ELSE s.blockers[t]]]

\* Mutant: a plain subtraction.
LessPlain(n, k) == n - k

\* saturating_sub
Less(n, k) == IF n > k THEN n - k ELSE 0

\* Mutant: only executed transactions unlock their nodes.
ReleaseExecuted(s, E) ==
    LET u == Unlock(s, UNION {Declared(t) : t \in E \cap With(s, "executed")})
    IN  [u EXCEPT
           !.nCommitted = Less(s.nCommitted, Cardinality(E \cap With(s, "committed"))),
           !.nExecuted = Less(s.nExecuted, Cardinality(E \cap With(s, "executed")))]

\* Mutant: committed_count is left alone.
ReleaseUncounted(s, E) ==
    LET u == Unlock(s, UNION {Declared(t) : t \in {x \in E : Holds(s.status[x])}})
    IN  [u EXCEPT !.nExecuted = Less(s.nExecuted, Cardinality(E \cap With(s, "executed")))]

\* What the transactions E give up when they leave the lock-holding states.
Release(s, E) ==
    LET u == Unlock(s, UNION {Declared(t) : t \in {x \in E : Holds(s.status[x])}})
    IN  [u EXCEPT
           !.nCommitted = Less(s.nCommitted, Cardinality(E \cap With(s, "committed"))),
           !.nExecuted = Less(s.nExecuted, Cardinality(E \cap With(s, "executed")))]

\* evict_terminal
Evict(s, E) ==
    LET r == Untrack(Release(s, E), E)
    IN  IF E = {} THEN s
        ELSE [r EXCEPT !.status = [t \in Txs |-> IF t \in E THEN "none" ELSE r.status[t]],
                       !.tombs = r.tombs \cup E]

-----------------------------------------------------------------------------
(* Handlers                                                                *)

\* Mutant: is_tombstoned is not asked.
CreateRetriesAgain(s, L, tag) ==
    LET e == Evict(s, L \cap InPool(s))
        new == {RetryOf(t, tag) : t \in L} \ InPool(e)
    IN  IF L = {} THEN s ELSE [Insert(e, new) EXCEPT !.retried = s.retried \cup L]

\* create_retry_for_transaction, for the losers L: each leaves the pool, and
\* its retry enters unless it is there already or was there before.
CreateRetries(s, L, tag) ==
    LET e == Evict(s, L \cap InPool(s))
        new == {RetryOf(t, tag) : t \in L} \ (InPool(e) \cup e.tombs)
    IN  IF L = {} THEN s ELSE [Insert(e, new) EXCEPT !.retried = s.retried \cup L]

\* The losers of w leave deferred_by and are retried.  A loser known only from
\* pending_deferrals loses its place in the index and nothing else.
RetryLosers(s, w, tag) ==
    LET L == {t \in s.losers[w] : s.deferredBy[t] # None}
    IN  IF s.losers[w] = {} THEN s
        ELSE CreateRetries(
                [s EXCEPT !.losers = [x \in Txs |-> IF x = w THEN {} ELSE s.losers[x]],
                          !.deferredBy = [t \in Txs |-> IF t \in L THEN None
                                                         ELSE s.deferredBy[t]]],
                L, tag)

\* The two loops over the transactions T of a committed block.
CommitTransactions(s, T, pick, tag) ==
    LET late == {t \in T \ InPool(s) : s.pendingRetries[t] # None}
        a == [s EXCEPT
                !.status = [t \in Txs |-> IF t \in T \ (InPool(s) \cup late) THEN "pending"
                                          ELSE s.status[t]],
                !.pendingRetries = [t \in Txs |-> IF t \in late THEN None
                                                  ELSE s.pendingRetries[t]],
                !.tombs = s.tombs \cup late]
        b == CreateRetries(a, late, tag)
        C == T \cap With(b, "pending")
        c == Untrack([b EXCEPT !.status = [t \in Txs |-> IF t \in C THEN "committed"
                                                         ELSE b.status[t]],
                               !.nCommitted = b.nCommitted + Cardinality(C)], C)
    IN  Lock(c, UNION {Declared(t) : t \in C} \ c.locked, pick)

\* Mutant: a deferral never looks for its winner in completed_winners.
WinnerDoneUnchecked(s, w) == FALSE

\* The certificate of the winner was committed before the deferral.
WinnerDone(s, w) == w \in s.completed

\* on_deferral_committed: the loser t waits for the winner w.
OnDeferralCommitted(s, t, w, tag) ==
    LET linked == [s EXCEPT !.losers = [x \in Txs |-> IF x = w THEN s.losers[x] \cup {t}
                                                      ELSE s.losers[x]]]
        freed == Release(Untrack(linked, {t}), {t})
    IN  CASE WinnerDone(s, w) /\ t \in InPool(s) -> CreateRetries(s, {t}, tag)
          [] WinnerDone(s, w) /\ t \notin InPool(s) ->
                [s EXCEPT !.pendingRetries = [s.pendingRetries EXCEPT ![t] = w]]
          [] ~ WinnerDone(s, w) /\ s.status[t] \in {"pending", "committed"} ->
                [freed EXCEPT !.status = [freed.status EXCEPT ![t] = "deferred"],
                              !.deferredBy = [s.deferredBy EXCEPT ![t] = w]]
          [] ~ WinnerDone(s, w) /\ t \notin InPool(s) ->
                [linked EXCEPT !.pendingDefs = [s.pendingDefs EXCEPT ![t] = w]]
          [] OTHER -> s

\* on_certificate_committed.  The code's index is a list, in which a repeated
\* deferral puts a loser twice; the set visits each once.
OnCertificateCommitted(s, w, tag) ==
    LET e == Evict(s, {w} \cap InPool(s))
        known == [e EXCEPT !.completed = e.completed \cup {w}]
        Q == {t \in e.losers[w] : e.deferredBy[t] = None /\ e.pendingDefs[t] # None}
        r == RetryLosers(known, w, tag)
    IN  [r EXCEPT
           !.pendingRetries = [t \in Txs |-> IF t \in Q THEN e.pendingDefs[t]
                                             ELSE r.pendingRetries[t]],
           !.pendingDefs = [t \in Txs |-> IF t \in Q THEN None ELSE r.pendingDefs[t]]]

\* An abort in a block: the transaction is evicted, and on_winner_aborted
\* retries the losers that waited for it.
OnAbortCommitted(s, w, tag) == RetryLosers(Evict(s, {w} \cap InPool(s)), w, tag)

\* on_transaction_executed
OnTransactionExecuted(s, t, tag) ==
    LET moves == s.status[t] = "committed"
        x == [s EXCEPT
                !.status = [y \in Txs |-> IF y = t /\ t \in InPool(s) THEN "executed"
                                          ELSE s.status[y]],
                !.nCommitted = IF moves THEN Less(s.nCommitted, 1) ELSE s.nCommitted,
                !.nExecuted = IF moves THEN s.nExecuted + 1 ELSE s.nExecuted]
    IN  RetryLosers(x, t, tag)

\* on_provision_verified
OnProvisionVerified(s, t) ==
    [s EXCEPT !.ready = [y \in Txs |-> IF y = t THEN "priority" ELSE s.ready[y]]]

\* The entries of each map that may have passed their retention.
Old(s) ==
    [tombs : SUBSET s.tombs, completed : SUBSET s.completed,
     pendingDefs : SUBSET {t \in Txs : s.pendingDefs[t] # None},
     pendingRetries : SUBSET {t \in Txs : s.pendingRetries[t] # None},
     deferredBy : SUBSET {t \in Txs : s.deferredBy[t] # None}]

\* cleanup_old_tombstones
Cleanup(s, o) ==
    [s EXCEPT
       !.tombs = s.tombs \ o.tombs,
       !.completed = s.completed \ o.completed,
       !.pendingDefs = [t \in Txs |-> IF t \in o.pendingDefs THEN None ELSE s.pendingDefs[t]],
       !.pendingRetries = [t \in Txs |-> IF t \in o.pendingRetries THEN None
                                         ELSE s.pendingRetries[t]],
       !.deferredBy = [t \in Txs |-> IF t \in o.deferredBy THEN None ELSE s.deferredBy[t]],
       !.losers = [w \in Txs |-> s.losers[w] \ {t \in o.deferredBy : s.deferredBy[t] = w}]]

\* on_block_committed_full, a block with at most one deferral d, certificate c
\* and abort a, each a set of at most one element.
OnBlockCommitted(s, T, d, c, a, pick, tag) ==
    LET s1 == IF T = {} THEN s ELSE CommitTransactions(s, T, pick, tag)
        s2 == IF d = {} THEN s1
              ELSE LET p == CHOOSE p \in d : TRUE IN OnDeferralCommitted(s1, p[1], p[2], tag)
        s3 == IF c = {} THEN s2 ELSE OnCertificateCommitted(s2, CHOOSE w \in c : TRUE, tag)
    IN  IF a = {} THEN s3 ELSE OnAbortCommitted(s3, CHOOSE w \in a : TRUE, tag)

-----------------------------------------------------------------------------
(* Actions                                                                 *)

Picks == {f \in [Originals -> Nodes] : \A o \in Originals : f[o] \in DeclaredBy[o]}

\* Rule 1 of validate_deferrals_and_aborts: the lower hash wins the cycle.
Loses(t, w) == Hash[t] > Hash[w] /\ t[2] < MaxAttempts

\* A retry exists once a block has included a transaction it may replace.
Exists(t) ==
    IsRetry(t) => \E p \in included : /\ p[1] = t[1] /\ p[2] = t[2] - 1
                                      /\ \E w \in Txs : Loses(p, w)

\* on_submit_transaction, on_transaction_gossip: known and tombstoned
\* transactions are turned away.
AddTransaction(t) ==
    /\ Exists(t)
    /\ t \notin InPool(mp) \cup mp.tombs
    /\ mp' = Insert(mp, {t})
    /\ UNCHANGED <<chain, forgotten, ends, faults>>

\* Event::ProvisionsVerifiedAndAggregated, routed to the mempool
ProvisionVerified(t) ==
    /\ mp.ready[t] = "others"
    /\ mp' = OnProvisionVerified(mp, t)
    /\ UNCHANGED <<chain, forgotten, ends, faults>>

\* Some validator of the shard finishes the execution of t.  It may
\* be ahead of this one, but it stops at a deferral or an abort.
Certify(t) ==
    /\ Exists(t)
    /\ t \notin certified \cup mp.tombs /\ mp.status[t] # "deferred"
    /\ certified' = certified \cup {t}
    /\ UNCHANGED <<mp, included, height, forgotten, ends, faults>>

\* Event::TransactionExecuted leaves the status channel: any time after the
\* certificate was formed here or came by gossip, perhaps for both.
TransactionExecuted(t, tag) ==
    /\ t \in certified
    /\ mp' = OnTransactionExecuted(mp, t, tag)
    /\ UNCHANGED <<chain, forgotten, ends, faults>>

\* get_timed_out_transactions, on any proposer
Abortable(t) == t \in included \/ t[2] >= MaxRetries

\* Contents of a block: the shapes that validate_deferrals_and_aborts accepts.
Blocks ==
    {b \in [txs : {T \in SUBSET Txs : Cardinality(T) <= MaxBlockItems},
            defers : {{}} \cup {{p} : p \in Txs \X Txs},
            certs : {{}} \cup {{t} : t \in Txs},
            aborts : {{}} \cup {{t} : t \in Txs}] :
        /\ Cardinality(b.txs) + Cardinality(b.defers) + Cardinality(b.certs)
             + Cardinality(b.aborts) \in 1..MaxBlockItems
        /\ \A p \in b.defers : /\ Loses(p[1], p[2])
                               /\ p[1] \notin b.certs /\ p[2] \notin b.certs}

\* Event::BlockCommitted.  A block may repeat a transaction that an earlier
\* block of the pipeline already has.
BlockCommitted(b, pick, tag) ==
    /\ height < MaxBlocks
    /\ height' = height + 1
    /\ \A t \in b.txs : Exists(t)
    /\ \A p \in b.defers : p[1] \in included /\ Exists(p[2])
    /\ b.certs \subseteq certified \cap included
    /\ \A t \in b.aborts : Abortable(t) /\ Exists(t)
    /\ mp' = OnBlockCommitted(mp, b.txs, b.defers, b.certs, b.aborts, pick, tag)
    /\ included' = included \cup b.txs
    /\ ended' = ended \cup b.certs \cup b.aborts
    /\ overdue' = overdue \cup {p \in b.defers : p[2] \in ended}
    /\ UNCHANGED <<certified, forgotten, faults>>

\* Event::CleanupTimer, when it drops something.
CleanupTimer(o) ==
    /\ faults < MaxFaults
    /\ mp' = Cleanup(mp, o)
    /\ mp' # mp
    /\ forgotten' = forgotten \cup o.deferredBy
    /\ faults' = faults + 1
    /\ UNCHANGED <<chain, ends>>

\* A restart: nothing of the mempool is persisted.
Restart ==
    /\ faults < MaxFaults
    /\ mp' = [Empty EXCEPT !.retried = mp.retried]
    /\ faults' = faults + 1
    /\ UNCHANGED <<chain, forgotten, ends>>

Next ==
    \/ \E t \in Txs : AddTransaction(t)
    \/ \E t \in Txs : ProvisionVerified(t)
    \/ \E t \in Txs : Certify(t)
    \/ \E t \in Txs, tag \in Tags : TransactionExecuted(t, tag)
    \/ \E b \in Blocks, pick \in Picks, tag \in Tags : BlockCommitted(b, pick, tag)
    \/ \E o \in Old(mp) : CleanupTimer(o)
    \/ Restart

Spec == Init /\ [][Next]_vars

-----------------------------------------------------------------------------
(* Properties                                                              *)

\* The mempool's fields have their types: absent transactions aside, every
\* map of MempoolState holds transactions and nodes of this instance.
TypeOK ==
    /\ mp \in MempoolStates
    /\ included \subseteq Txs /\ certified \subseteq Txs /\ forgotten \subseteq Txs
    /\ ended \subseteq Txs /\ overdue \subseteq Txs \X Txs
    /\ height \in 0..MaxBlocks /\ faults \in 0..MaxFaults

\* No lost wakeup: a pending transaction is in a ready set, or waits for nodes
\* that are still locked, so that releasing them promotes it.  Locks are taken
\* and released by blocks, executions and deferrals of other transactions.
NoLostWakeup ==
    \A t \in With(mp, "pending") :
        mp.ready[t] # "none" \/ (mp.blockers[t] # {} /\ mp.blockers[t] \subseteq mp.locked)

\* No lock is leaked: every node in locked_nodes_cache is declared by a
\* transaction that is still committed or executed, whose end releases it.
NoLockLeaked ==
    \A n \in mp.locked : \E t \in Txs : Holds(mp.status[t]) /\ n \in Declared(t)

\* The counters behind the in-flight limits never exceed the transactions in
\* those states, so that backpressure cannot stop a validator for good.
InFlightNotOvercounted ==
    /\ mp.nCommitted = Cardinality(With(mp, "committed"))
    /\ mp.nExecuted <= Cardinality(With(mp, "executed"))

\* A loser is retried once its winner ends: a transaction left deferred is
\* registered under its winner, the winner is not known to have completed, and
\* neither its certificate nor its abort came after the deferral, whatever was
\* executed, repeated or restarted in between.  Two kinds of loser are outside
\* this: those retention drops (cleanup_old_tombstones), and those deferred
\* after the abort of their winner, which completed_winners does not record.
RetriedOnceWinnerEnds ==
    \A t \in With(mp, "deferred") \ forgotten :
        LET w == mp.deferredBy[t]
        IN  /\ w \in Txs \ mp.completed
            /\ t \in mp.losers[w]
            /\ w \in ended => <<t, w>> \in overdue

\* A tombstoned transaction is never offered to a proposer again, though a
\* later block of the pipeline may bring it back into the pool.
TombstonedNeverProposed ==
    \A t \in mp.tombs : mp.ready[t] = "none" /\ mp.status[t] # "pending"

\* Refuted.  TransactionStatus::Retried: "This is a terminal state for the
\* original TX - it will never execute."
SupersededNeverExecutes == mp.retried \cap mp.completed = {}

\* Refuted.  locked_nodes_cache: "A node is locked if any transaction that
\* declares it is in Committed or Executed status."
LockedWhileInFlight ==
    \A t \in Txs : Holds(mp.status[t]) => Declared(t) \subseteq mp.locked

\* Refuted.  on_deferral_committed: "If the transaction is not yet in the pool
\* (sync scenario), stores the deferral for processing when the transaction
\* arrives."
DeferralAppliedOnArrival == \A t \in InPool(mp) : mp.pendingDefs[t] = None

\* Refuted.  on_winner_aborted: "any loser transactions that were deferred by
\* it should also be aborted"; a loser deferred after that abort stays.
NoneWaitsForAborted ==
    \A t \in With(mp, "deferred") : mp.deferredBy[t] \notin ended

=============================================================================
