--------------------------- MODULE MempoolProofs ---------------------------
(***************************************************************************)
(* Proofs about Mempool: type correctness, no lost wakeup, no leaked lock, *)
(* losers retried once their winner ends, tombstoned transactions never    *)
(* proposed again; for any transactions, nodes and bounds.                 *)
(*                                                                         *)
(* The handlers are functions on the mempool record, so one predicate on   *)
(* records is shown to be preserved by each of them.                       *)
(***************************************************************************)
EXTENDS Mempool, TLAPS, FiniteSetTheorems

\* A transaction declares nodes, and its ready set is a ready set.
LEMMA TxFacts ==
    ASSUME NEW t \in Txs
    PROVE  /\ Declared(t) \in SUBSET Nodes
           /\ Queue(t) \in Queues /\ Queue(t) # "none"
<1>1. t[1] \in Originals
  BY DEF Txs
<1> QED BY <1>1, MempoolAssumption DEF Declared, Queue, Queues

\* saturating_sub stays in the naturals.
LEMMA LessNat ==
    ASSUME NEW n \in Nat, NEW k \in Nat
    PROVE  Less(n, k) \in Nat /\ Less(n, k) <= n
BY DEF Less

\* The transactions of a status are finitely many.
LEMMA CountNat ==
    ASSUME NEW E
    PROVE  Cardinality(E \cap Txs) \in Nat
<1>1. E \cap Txs \subseteq Txs
  OBVIOUS
<1>2. IsFiniteSet(E \cap Txs)
  BY <1>1, FS_Subset, MempoolAssumption
<1> QED BY <1>2, FS_CardinalityType

\* The fields that only the deferral and certificate handlers change.
SameRecords(s, r) ==
    /\ r.deferredBy = s.deferredBy /\ r.losers = s.losers /\ r.completed = s.completed
    /\ r.pendingDefs = s.pendingDefs /\ r.pendingRetries = s.pendingRetries

\* Two steps that keep those fields keep them.
LEMMA SameTransitive ==
    ASSUME NEW s, NEW q, NEW r, NEW v, SameRecords(s, q), SameRecords(q, r), SameRecords(r, v)
    PROVE  SameRecords(s, v)
BY DEF SameRecords

\* What remove_from_ready_tracking returns.
LEMMA UntrackFields ==
    ASSUME NEW s \in MempoolStates, NEW E
    PROVE  /\ Untrack(s, E) \in MempoolStates
           /\ SameRecords(s, Untrack(s, E))
           /\ Untrack(s, E).locked = s.locked
           /\ Untrack(s, E).status = s.status
           /\ Untrack(s, E).tombs = s.tombs
           /\ Untrack(s, E).nCommitted = s.nCommitted
           /\ Untrack(s, E).nExecuted = s.nExecuted
           /\ \A t \in Txs : Untrack(s, E).ready[t] = IF t \in E THEN "none" ELSE s.ready[t]
           /\ \A t \in Txs : Untrack(s, E).blockers[t] = IF t \in E THEN {} ELSE s.blockers[t]
BY ZenonT(60) DEF Untrack, MempoolStates, Queues, SameRecords

\* What remove_locked_nodes returns.
LEMMA UnlockFields ==
    ASSUME NEW s \in MempoolStates, NEW U
    PROVE  /\ Unlock(s, U) \in MempoolStates
           /\ Unlock(s, U).locked = s.locked \ U
           /\ Unlock(s, U).status = s.status
           /\ SameRecords(s, Unlock(s, U))
           /\ Unlock(s, U).tombs = s.tombs
           /\ \A t \in Txs : Unlock(s, U).blockers[t] = s.blockers[t] \ U
           /\ \A t \in Txs : Unlock(s, U).ready[t] =
                    IF t \in Promotes(s, U) THEN Queue(t) ELSE s.ready[t]
<1>1. \A t \in Txs : Queue(t) \in Queues
  BY TxFacts
<1> QED BY <1>1, ZenonT(60) DEF Unlock, MempoolStates, SameRecords

\* v is s without the ready tracking of E.
Untracked(s, E, v) ==
    /\ v \in MempoolStates
    /\ SameRecords(s, v)
    /\ v.locked = s.locked
    /\ v.status = s.status
    /\ v.tombs = s.tombs
    /\ \A t \in Txs : v.ready[t] = IF t \in E THEN "none" ELSE s.ready[t]
    /\ \A t \in Txs : v.blockers[t] = IF t \in E THEN {} ELSE s.blockers[t]

\* The same, as one predicate.
LEMMA UntrackResult ==
    ASSUME NEW s \in MempoolStates, NEW E
    PROVE  Untracked(s, E, Untrack(s, E))
BY UntrackFields DEF Untracked

\* The nodes that the transactions of E unlock.
Freed(s, E) == UNION {Declared(t) : t \in {x \in E : Holds(s.status[x])}}

\* What leaving the lock-holding states returns.
LEMMA ReleaseFields ==
    ASSUME NEW s \in MempoolStates, NEW E
    PROVE  /\ Release(s, E) \in MempoolStates
           /\ SameRecords(s, Release(s, E))
           /\ Release(s, E).locked = s.locked \ Freed(s, E)
           /\ Release(s, E).status = s.status
           /\ Release(s, E).tombs = s.tombs
           /\ \A t \in Txs : Release(s, E).blockers[t] = s.blockers[t] \ Freed(s, E)
           /\ \A t \in Txs : Release(s, E).ready[t] =
                    IF t \in Promotes(s, Freed(s, E)) THEN Queue(t) ELSE s.ready[t]
<1> DEFINE u == Unlock(s, Freed(s, E))
           nc == Less(s.nCommitted, Cardinality(E \cap With(s, "committed")))
           ne == Less(s.nExecuted, Cardinality(E \cap With(s, "executed")))
<1>1. nc \in Nat /\ ne \in Nat
  <2>1. s.nCommitted \in Nat /\ s.nExecuted \in Nat
    BY DEF MempoolStates
  <2>2. ASSUME NEW st
        PROVE  Cardinality(E \cap With(s, st)) \in Nat
    <3>1. E \cap With(s, st) = (E \cap With(s, st)) \cap Txs
      BY DEF With
    <3> QED BY <3>1, CountNat
  <2> QED BY <2>1, <2>2, LessNat, ZenonT(60)
<1>2. Release(s, E) = [u EXCEPT !.nCommitted = nc, !.nExecuted = ne]
  BY DEF Release, Freed
<1>3. /\ u \in MempoolStates
      /\ SameRecords(s, u)
      /\ u.locked = s.locked \ Freed(s, E)
      /\ u.status = s.status
      /\ u.tombs = s.tombs
      /\ \A t \in Txs : u.blockers[t] = s.blockers[t] \ Freed(s, E)
      /\ \A t \in Txs : u.ready[t] =
               IF t \in Promotes(s, Freed(s, E)) THEN Queue(t) ELSE s.ready[t]
  BY UnlockFields
<1> HIDE DEF u, nc, ne
<1> QED BY <1>1, <1>2, <1>3, ZenonT(60) DEF MempoolStates, SameRecords

\* v is s after E released its locks.
Released(s, E, v) ==
    /\ v \in MempoolStates
    /\ SameRecords(s, v)
    /\ v.locked = s.locked \ Freed(s, E)
    /\ v.status = s.status
    /\ v.tombs = s.tombs
    /\ \A t \in Txs : v.blockers[t] = s.blockers[t] \ Freed(s, E)
    /\ \A t \in Txs : v.ready[t] =
            IF t \in Promotes(s, Freed(s, E)) THEN Queue(t) ELSE s.ready[t]

\* The same, as one predicate.
LEMMA ReleaseResult ==
    ASSUME NEW s \in MempoolStates, NEW E
    PROVE  Released(s, E, Release(s, E))
BY ReleaseFields DEF Released

\* What evict_terminal returns.
LEMMA EvictFields ==
    ASSUME NEW s \in MempoolStates, NEW E \in SUBSET Txs
    PROVE  /\ Evict(s, E) \in MempoolStates
           /\ SameRecords(s, Evict(s, E))
           /\ Evict(s, E).locked = s.locked \ Freed(s, E)
           /\ Evict(s, E).tombs = s.tombs \cup E
           /\ \A t \in Txs : Evict(s, E).status[t] = IF t \in E THEN "none" ELSE s.status[t]
           /\ \A t \in Txs : Evict(s, E).blockers[t] =
                    IF t \in E THEN {} ELSE s.blockers[t] \ Freed(s, E)
           /\ \A t \in Txs : Evict(s, E).ready[t] =
                    IF t \in E THEN "none"
                    ELSE IF t \in Promotes(s, Freed(s, E)) THEN Queue(t) ELSE s.ready[t]
<1>1. CASE E = {}
  <2>1. Freed(s, E) = {} /\ Promotes(s, Freed(s, E)) = {}
    BY <1>1 DEF Freed, Promotes
  <2>2. Evict(s, E) = s
    BY <1>1 DEF Evict
  <2> QED BY <1>1, <2>1, <2>2 DEF SameRecords
<1>2. CASE E # {}
  <2> DEFINE q == Release(s, E)
             r == Untrack(q, E)
  <2>1. /\ q \in MempoolStates
        /\ SameRecords(s, q)
        /\ q.locked = s.locked \ Freed(s, E)
        /\ q.status = s.status
        /\ q.tombs = s.tombs
        /\ \A t \in Txs : q.blockers[t] = s.blockers[t] \ Freed(s, E)
        /\ \A t \in Txs : q.ready[t] =
                 IF t \in Promotes(s, Freed(s, E)) THEN Queue(t) ELSE s.ready[t]
    BY ReleaseFields
  <2> HIDE DEF q
  <2>2. /\ r \in MempoolStates
        /\ SameRecords(q, r)
        /\ r.locked = q.locked
        /\ r.status = q.status
        /\ r.tombs = q.tombs
        /\ \A t \in Txs : r.ready[t] = IF t \in E THEN "none" ELSE q.ready[t]
        /\ \A t \in Txs : r.blockers[t] = IF t \in E THEN {} ELSE q.blockers[t]
    BY <2>1, UntrackFields
  <2>3. Evict(s, E) = [r EXCEPT !.status = [t \in Txs |-> IF t \in E THEN "none"
                                                          ELSE r.status[t]],
                                !.tombs = r.tombs \cup E]
    BY <1>2 DEF Evict, q
  <2> HIDE DEF r
  <2>4. /\ Evict(s, E) \in MempoolStates
        /\ SameRecords(r, Evict(s, E))
        /\ Evict(s, E).locked = r.locked
        /\ Evict(s, E).tombs = r.tombs \cup E
        /\ Evict(s, E).ready = r.ready /\ Evict(s, E).blockers = r.blockers
        /\ \A t \in Txs : Evict(s, E).status[t] = IF t \in E THEN "none" ELSE r.status[t]
    <3>1. r \in MempoolStates
      BY <2>2
    <3> DEFINE f == [t \in Txs |-> IF t \in E THEN "none" ELSE r.status[t]]
               T == r.tombs \cup E
    <3>2. f \in [Txs -> Statuses]
      BY <3>1 DEF MempoolStates, Statuses
    <3>3. T \in SUBSET Txs
      BY <3>1 DEF MempoolStates
    <3>4. Evict(s, E) = [r EXCEPT !.status = f, !.tombs = T]
      BY <2>3
    <3>5. \A t \in Txs : f[t] = IF t \in E THEN "none" ELSE r.status[t]
      OBVIOUS
    <3> HIDE DEF f
    <3>6. /\ Evict(s, E) \in MempoolStates
          /\ SameRecords(r, Evict(s, E))
          /\ Evict(s, E).locked = r.locked
          /\ Evict(s, E).tombs = T /\ Evict(s, E).status = f
          /\ Evict(s, E).ready = r.ready /\ Evict(s, E).blockers = r.blockers
      <4> HIDE DEF T
      <4> QED BY <3>1, <3>2, <3>3, <3>4, ZenonT(60) DEF MempoolStates, SameRecords
    <3> QED BY <3>5, <3>6
  <2>5. SameRecords(s, Evict(s, E))
    BY <2>1, <2>2, <2>4, SameTransitive
  <2>6. Evict(s, E).locked = s.locked \ Freed(s, E) /\ Evict(s, E).tombs = s.tombs \cup E
    BY <2>1, <2>2, <2>4
  <2>7. ASSUME NEW t \in Txs
        PROVE  /\ Evict(s, E).status[t] = IF t \in E THEN "none" ELSE s.status[t]
               /\ Evict(s, E).blockers[t] = IF t \in E THEN {} ELSE s.blockers[t] \ Freed(s, E)
               /\ Evict(s, E).ready[t] =
                    IF t \in E THEN "none"
                    ELSE IF t \in Promotes(s, Freed(s, E)) THEN Queue(t) ELSE s.ready[t]
    <3> HIDE DEF r
    <3>1. r.status = s.status
      BY <2>1, <2>2
    <3>2. q.blockers[t] = s.blockers[t] \ Freed(s, E)
      BY <2>1
    <3>3. q.ready[t] = IF t \in Promotes(s, Freed(s, E)) THEN Queue(t) ELSE s.ready[t]
      BY <2>1
    <3>4. r.ready[t] = IF t \in E THEN "none" ELSE q.ready[t]
      BY <2>2
    <3>5. r.blockers[t] = IF t \in E THEN {} ELSE q.blockers[t]
      BY <2>2
    <3>6. /\ Evict(s, E).status[t] = IF t \in E THEN "none" ELSE r.status[t]
          /\ Evict(s, E).ready = r.ready /\ Evict(s, E).blockers = r.blockers
      BY <2>4
    <3> QED BY <3>1, <3>2, <3>3, <3>4, <3>5, <3>6
  <2> QED BY <2>4, <2>5, <2>6, <2>7, ZenonT(60)
<1> QED BY <1>1, <1>2, ZenonT(60)

\* v is s with the transactions A inserted.
Inserted(s, A, v) ==
    /\ v \in MempoolStates
    /\ SameRecords(s, v)
    /\ v.locked = s.locked
    /\ v.tombs = s.tombs
    /\ \A t \in Txs : v.status[t] = IF t \in A THEN "pending" ELSE s.status[t]
    /\ \A t \in Txs : v.blockers[t] =
            IF t \in A THEN Declared(t) \cap s.locked ELSE s.blockers[t]
    /\ \A t \in Txs : v.ready[t] =
            IF t \in A /\ Declared(t) \cap s.locked = {} THEN Queue(t) ELSE s.ready[t]

\* What add_to_ready_tracking returns.
LEMMA InsertFields ==
    ASSUME NEW s \in MempoolStates, NEW A
    PROVE  Inserted(s, A, Insert(s, A))
<1>1. \A t \in Txs : Queue(t) \in Queues /\ Declared(t) \in SUBSET Nodes
  BY TxFacts
<1> QED BY <1>1, ZenonT(60) DEF Insert, Inserted, MempoolStates, Statuses, SameRecords

-----------------------------------------------------------------------------
(* The inductive invariant, on mempool records.  The exceptions X and W    *)
(* are empty between handlers; within one, X are the transactions of the   *)
(* block being committed and W the winner whose losers are being retried.  *)

\* A pending transaction is ready or blocked, and only locked nodes block.
Waits(s, X) ==
    \A t \in Txs : /\ s.blockers[t] \subseteq s.locked
                   /\ s.status[t] = "pending" /\ t \notin X
                        => s.ready[t] # "none" \/ s.blockers[t] # {}

\* A locked node has a holder.
Held(s) == \A n \in s.locked : \E t \in Txs : Holds(s.status[t]) /\ n \in Declared(t)

\* An absent or tombstoned transaction is neither ready nor blocked, and a
\* tombstoned one is not pending.
Buried(s, X) ==
    \A t \in Txs : /\ t \in s.tombs \/ s.status[t] = "none"
                        => s.ready[t] = "none" /\ s.blockers[t] = {}
                   /\ t \in s.tombs /\ t \notin X => s.status[t] # "pending"

\* A deferred transaction t is registered with a winner that is not completed
\* and not among P[t], the winners whose end came after its deferral.
Registered(s, F, W, P) ==
    \A t \in Txs \ F :
        s.status[t] = "deferred" => /\ s.deferredBy[t] \in Txs \ (s.completed \ W)
                                    /\ t \in s.losers[s.deferredBy[t]]
                                    /\ s.deferredBy[t] \notin P[t]

\* The winner w has ended as well.
Plus(P, w) == [t \in Txs |-> P[t] \cup {w}]

Base(s, X) == s \in MempoolStates /\ Waits(s, X) /\ Held(s) /\ Buried(s, X)

\* evict_terminal keeps the invariant: what it unlocks promotes those who
\* waited for nothing else.
LEMMA EvictBase ==
    ASSUME NEW s, NEW X, Base(s, X), NEW E \in SUBSET Txs
    PROVE  Base(Evict(s, E), X)
<1>0. s \in MempoolStates /\ Waits(s, X) /\ Held(s) /\ Buried(s, X)
  BY DEF Base
<1> DEFINE v == Evict(s, E)
           U == Freed(s, E)
<1>1. /\ v \in MempoolStates
      /\ v.locked = s.locked \ U
      /\ v.tombs = s.tombs \cup E
      /\ \A t \in Txs : v.status[t] = IF t \in E THEN "none" ELSE s.status[t]
      /\ \A t \in Txs : v.blockers[t] = IF t \in E THEN {} ELSE s.blockers[t] \ U
      /\ \A t \in Txs : v.ready[t] = IF t \in E THEN "none"
                                     ELSE IF t \in Promotes(s, U) THEN Queue(t) ELSE s.ready[t]
  BY <1>0, EvictFields
<1> HIDE DEF v, U
<1>2. ASSUME NEW t \in Txs
      PROVE  /\ v.status[t] = IF t \in E THEN "none" ELSE s.status[t]
             /\ v.blockers[t] = IF t \in E THEN {} ELSE s.blockers[t] \ U
             /\ v.ready[t] = IF t \in E THEN "none"
                             ELSE IF t \in Promotes(s, U) THEN Queue(t) ELSE s.ready[t]
  BY <1>1
<1>3. Waits(v, X)
  <2> SUFFICES ASSUME NEW t \in Txs
               PROVE  /\ v.blockers[t] \subseteq v.locked
                      /\ v.status[t] = "pending" /\ t \notin X
                           => v.ready[t] # "none" \/ v.blockers[t] # {}
    BY DEF Waits
  <2>1. /\ s.blockers[t] \subseteq s.locked
        /\ s.status[t] = "pending" /\ t \notin X => s.ready[t] # "none" \/ s.blockers[t] # {}
    BY <1>0 DEF Waits
  <2>2. Queue(t) # "none"
    BY TxFacts
  <2> QED BY <1>1, <1>2, <2>1, <2>2, ZenonT(60) DEF Promotes
<1>4. Held(v)
  <2> SUFFICES ASSUME NEW n \in v.locked
               PROVE  \E t \in Txs : Holds(v.status[t]) /\ n \in Declared(t)
    BY DEF Held
  <2>1. n \in s.locked /\ n \notin U
    BY <1>1
  <2>2. PICK t \in Txs : Holds(s.status[t]) /\ n \in Declared(t)
    BY <1>0, <2>1 DEF Held
  <2>3. t \notin E
    BY <2>1, <2>2 DEF U, Freed
  <2> QED BY <1>2, <2>2, <2>3, ZenonT(60)
<1>5. Buried(v, X)
  <2> SUFFICES ASSUME NEW t \in Txs
               PROVE  /\ t \in v.tombs \/ v.status[t] = "none"
                           => v.ready[t] = "none" /\ v.blockers[t] = {}
                      /\ t \in v.tombs /\ t \notin X => v.status[t] # "pending"
    BY DEF Buried
  <2>1. CASE t \in E
    BY <1>2, <2>1, ZenonT(60)
  <2>2. CASE t \notin E
    <3>1. /\ t \in s.tombs \/ s.status[t] = "none"
               => s.ready[t] = "none" /\ s.blockers[t] = {}
          /\ t \in s.tombs /\ t \notin X => s.status[t] # "pending"
      BY <1>0 DEF Buried
    <3>2. t \in s.tombs \/ s.status[t] = "none" => t \notin Promotes(s, U)
      BY <3>1 DEF Promotes
    <3>3. t \in v.tombs <=> t \in s.tombs
      BY <1>1, <2>2
    <3> QED BY <1>2, <2>2, <3>1, <3>2, <3>3, ZenonT(60)
  <2> QED BY <2>1, <2>2
<1> QED BY <1>1, <1>3, <1>4, <1>5 DEF Base, v

\* add_to_ready_tracking keeps the invariant for transactions that were
\* neither in the pool nor tombstoned.
LEMMA InsertBase ==
    ASSUME NEW s, NEW X, Base(s, X), NEW A, A \cap (InPool(s) \cup s.tombs) = {}
    PROVE  Base(Insert(s, A), X)
<1>0. s \in MempoolStates /\ Waits(s, X) /\ Held(s) /\ Buried(s, X)
  BY DEF Base
<1> DEFINE v == Insert(s, A)
<1>1. Inserted(s, A, v)
  BY <1>0, InsertFields
<1> HIDE DEF v
<1>2. ASSUME NEW t \in Txs
      PROVE  /\ v.status[t] = IF t \in A THEN "pending" ELSE s.status[t]
             /\ v.blockers[t] = IF t \in A THEN Declared(t) \cap s.locked ELSE s.blockers[t]
             /\ v.ready[t] = IF t \in A /\ Declared(t) \cap s.locked = {} THEN Queue(t)
                             ELSE s.ready[t]
  BY <1>1 DEF Inserted
<1>3. Waits(v, X)
  <2> SUFFICES ASSUME NEW t \in Txs
               PROVE  /\ v.blockers[t] \subseteq v.locked
                      /\ v.status[t] = "pending" /\ t \notin X
                           => v.ready[t] # "none" \/ v.blockers[t] # {}
    BY DEF Waits
  <2>1. /\ s.blockers[t] \subseteq s.locked
        /\ s.status[t] = "pending" /\ t \notin X => s.ready[t] # "none" \/ s.blockers[t] # {}
    BY <1>0 DEF Waits
  <2>2. Queue(t) # "none"
    BY TxFacts
  <2>3. v.locked = s.locked
    BY <1>1 DEF Inserted
  <2> QED BY <1>2, <2>1, <2>2, <2>3, ZenonT(60)
<1>4. Held(v)
  <2> SUFFICES ASSUME NEW n \in v.locked
               PROVE  \E t \in Txs : Holds(v.status[t]) /\ n \in Declared(t)
    BY DEF Held
  <2>1. PICK t \in Txs : Holds(s.status[t]) /\ n \in Declared(t)
    BY <1>0, <1>1 DEF Held, Inserted
  <2>2. t \notin A
    BY <2>1 DEF InPool, Holds
  <2> QED BY <1>2, <2>1, <2>2, ZenonT(60)
<1>5. Buried(v, X)
  <2> SUFFICES ASSUME NEW t \in Txs
               PROVE  /\ t \in v.tombs \/ v.status[t] = "none"
                           => v.ready[t] = "none" /\ v.blockers[t] = {}
                      /\ t \in v.tombs /\ t \notin X => v.status[t] # "pending"
    BY DEF Buried
  <2>1. v.tombs = s.tombs
    BY <1>1 DEF Inserted
  <2>2. /\ t \in s.tombs \/ s.status[t] = "none"
             => s.ready[t] = "none" /\ s.blockers[t] = {}
        /\ t \in s.tombs /\ t \notin X => s.status[t] # "pending"
    BY <1>0 DEF Buried
  <2> QED BY <1>2, <2>1, <2>2, ZenonT(60)
<1> QED BY <1>1, <1>3, <1>4, <1>5 DEF Base, Inserted, v

\* The history of retries has no part in the invariant.
LEMMA HistoryBase ==
    ASSUME NEW s, NEW X, Base(s, X), NEW R \in SUBSET Txs
    PROVE  /\ Base([s EXCEPT !.retried = R], X)
           /\ SameRecords(s, [s EXCEPT !.retried = R])
           /\ [s EXCEPT !.retried = R].status = s.status
<1> DEFINE v == [s EXCEPT !.retried = R]
<1>1. /\ v \in MempoolStates
      /\ SameRecords(s, v)
      /\ v.status = s.status
      /\ v.ready = s.ready
      /\ v.blockers = s.blockers
      /\ v.locked = s.locked
      /\ v.tombs = s.tombs
  BY DEF Base, MempoolStates, SameRecords
<1> HIDE DEF v
<1>2. Base(v, X)
  BY <1>1 DEF Base, Waits, Held, Buried
<1> QED BY <1>1, <1>2 DEF v

\* v comes from s by steps that defer no transaction and undefer those of L.
NoneDeferred(s, L, v) ==
    /\ SameRecords(s, v)
    /\ \A t \in Txs : v.status[t] = "deferred" => s.status[t] = "deferred" /\ t \notin L

\* create_retry_for_transaction keeps the invariant, and the losers are no
\* longer deferred.
LEMMA CreateRetriesBase ==
    ASSUME NEW s, NEW X, Base(s, X), NEW L \in SUBSET Txs, NEW tag
    PROVE  /\ Base(CreateRetries(s, L, tag), X)
           /\ NoneDeferred(s, L, CreateRetries(s, L, tag))
<1>1. CASE L = {}
  <2>1. CreateRetries(s, L, tag) = s
    BY <1>1 DEF CreateRetries
  <2> QED BY <1>1, <2>1 DEF NoneDeferred, SameRecords
<1>2. CASE L # {}
  <2> DEFINE E == L \cap InPool(s)
             e == Evict(s, E)
             new == {RetryOf(t, tag) : t \in L} \ (InPool(e) \cup e.tombs)
             i == Insert(e, new)
             R == s.retried \cup L
  <2>1. E \in SUBSET Txs /\ R \in SUBSET Txs /\ s \in MempoolStates
    BY DEF Base, MempoolStates
  <2>2. Base(e, X)
    BY <2>1, EvictBase
  <2>3. SameRecords(s, e)
    BY <2>1, EvictFields
  <2>4. \A t \in Txs : e.status[t] = IF t \in E THEN "none" ELSE s.status[t]
    BY <2>1, EvictFields
  <2> HIDE DEF e
  <2>5. new \cap (InPool(e) \cup e.tombs) = {}
    OBVIOUS
  <2>6. e \in MempoolStates
    BY <2>2 DEF Base
  <2> HIDE DEF new
  <2>7. Base(i, X)
    BY <2>2, <2>5, InsertBase
  <2>8. Inserted(e, new, i)
    BY <2>6, InsertFields
  <2> HIDE DEF i
  <2>9. /\ Base([i EXCEPT !.retried = R], X)
        /\ SameRecords(i, [i EXCEPT !.retried = R])
        /\ [i EXCEPT !.retried = R].status = i.status
    BY <2>1, <2>7, HistoryBase
  <2>10. CreateRetries(s, L, tag) = [i EXCEPT !.retried = R]
    BY <1>2 DEF CreateRetries, i, e, new
  <2>11. SameRecords(s, CreateRetries(s, L, tag))
    <3>1. SameRecords(e, i)
      BY <2>8 DEF Inserted
    <3> QED BY <2>3, <2>9, <2>10, <3>1, SameTransitive
  <2>12. ASSUME NEW t \in Txs, i.status[t] = "deferred"
         PROVE  s.status[t] = "deferred" /\ t \notin L
    <3>1. i.status[t] = IF t \in new THEN "pending" ELSE e.status[t]
      BY <2>8 DEF Inserted
    <3>2. e.status[t] = "deferred"
      BY <2>12, <3>1
    <3>3. e.status[t] = IF t \in E THEN "none" ELSE s.status[t]
      BY <2>4
    <3> QED BY <3>2, <3>3 DEF InPool
  <2> HIDE DEF R
  <2> QED BY <2>9, <2>10, <2>11, <2>12 DEF NoneDeferred
<1> QED BY <1>1, <1>2

\* The retry of a winner's losers keeps the invariant, and no transaction is
\* left deferred by that winner, which may have completed just before.
LEMMA RetryLosersSound ==
    ASSUME NEW s, NEW F, NEW P, NEW X, NEW w \in Txs, Base(s, X), Registered(s, F, {w}, P), NEW tag
    PROVE  /\ Base(RetryLosers(s, w, tag), X)
           /\ Registered(RetryLosers(s, w, tag), F, {}, Plus(P, w))
<1>0. ASSUME NEW t \in Txs \ F, s.status[t] = "deferred"
      PROVE  /\ s.deferredBy[t] \in Txs
             /\ s.deferredBy[t] \in s.completed => s.deferredBy[t] = w
             /\ t \in s.losers[s.deferredBy[t]]
             /\ s.deferredBy[t] \notin P[t]
  BY <1>0 DEF Registered
<1>1. CASE s.losers[w] = {}
  <2>1. RetryLosers(s, w, tag) = s
    BY <1>1 DEF RetryLosers
  <2>2. Registered(s, F, {}, Plus(P, w))
    <3> SUFFICES ASSUME NEW t \in Txs \ F, s.status[t] = "deferred"
                 PROVE  /\ s.deferredBy[t] \in Txs \ (s.completed \ {})
                        /\ t \in s.losers[s.deferredBy[t]]
                        /\ s.deferredBy[t] \notin P[t] \cup {w}
      BY DEF Registered, Plus
    <3> QED BY <1>0, <1>1
  <2> QED BY <2>1, <2>2
<1>2. CASE s.losers[w] # {}
  <2> DEFINE L == {t \in s.losers[w] : s.deferredBy[t] # None}
             ls == [x \in Txs |-> IF x = w THEN {} ELSE s.losers[x]]
             db == [t \in Txs |-> IF t \in L THEN None ELSE s.deferredBy[t]]
             q == [s EXCEPT !.losers = ls, !.deferredBy = db]
             v == CreateRetries(q, L, tag)
  <2>1. s \in MempoolStates /\ Waits(s, X) /\ Held(s) /\ Buried(s, X)
    BY DEF Base
  <2>2. /\ L \in SUBSET Txs
        /\ ls \in [Txs -> SUBSET Txs]
        /\ db \in [Txs -> Txs \cup {None}]
    BY <2>1 DEF MempoolStates
  <2>3. /\ \A x \in Txs : ls[x] = IF x = w THEN {} ELSE s.losers[x]
        /\ \A t \in Txs : db[t] = IF t \in L THEN None ELSE s.deferredBy[t]
    OBVIOUS
  <2> HIDE DEF ls, db
  <2>4. /\ q \in MempoolStates
        /\ q.losers = ls /\ q.deferredBy = db /\ q.completed = s.completed
        /\ q.status = s.status /\ q.ready = s.ready /\ q.blockers = s.blockers
        /\ q.locked = s.locked /\ q.tombs = s.tombs
    <3> HIDE DEF L
    <3> QED BY <2>1, <2>2, ZenonT(60) DEF MempoolStates
  <2> HIDE DEF q
  <2>5. Base(q, X)
    BY <2>1, <2>4 DEF Base, Waits, Held, Buried
  <2>6. RetryLosers(s, w, tag) = v
    BY <1>2 DEF RetryLosers, q, ls, db
  <2> HIDE DEF L
  <2>7. Base(v, X) /\ NoneDeferred(q, L, v)
    BY <2>2, <2>5, CreateRetriesBase
  <2> HIDE DEF v
  <2>8. ASSUME NEW t \in Txs \ F, v.status[t] = "deferred"
        PROVE  /\ v.deferredBy[t] \in Txs \ (v.completed \ {})
               /\ t \in v.losers[v.deferredBy[t]]
               /\ v.deferredBy[t] \notin P[t] \cup {w}
    <3>1. s.status[t] = "deferred" /\ t \notin L
      BY <2>4, <2>7, <2>8 DEF NoneDeferred
    <3>2. /\ v.deferredBy = db /\ v.losers = ls /\ v.completed = s.completed
      BY <2>4, <2>7 DEF NoneDeferred, SameRecords
    <3>3. /\ s.deferredBy[t] \in Txs
          /\ s.deferredBy[t] \in s.completed => s.deferredBy[t] = w
          /\ t \in s.losers[s.deferredBy[t]]
          /\ s.deferredBy[t] \notin P[t]
      BY <1>0, <3>1
    <3>4. s.deferredBy[t] # w
      BY <3>1, <3>3, MempoolAssumption DEF L
    <3>5. db[t] = s.deferredBy[t]
      BY <2>3, <3>1
    <3>6. ls[s.deferredBy[t]] = s.losers[s.deferredBy[t]]
      BY <2>3, <3>3, <3>4
    <3> QED BY <3>2, <3>3, <3>4, <3>5, <3>6
  <2> QED BY <2>6, <2>7, <2>8 DEF Registered, Plus
<1> QED BY <1>1, <1>2

\* Fewer exceptions make a stronger statement.
LEMMA RegisteredWeaker ==
    ASSUME NEW s, NEW F, NEW P, NEW W, Registered(s, F, {}, P),
           NEW R, \A t \in Txs : R[t] \subseteq P[t]
    PROVE  Registered(s, F, W, R)
BY DEF Registered

\* evict_terminal defers nothing.
LEMMA EvictRegistered ==
    ASSUME NEW s \in MempoolStates, NEW F, NEW P, NEW W,
           Registered(s, F, W, P), NEW E \in SUBSET Txs
    PROVE  Registered(Evict(s, E), F, W, P)
<1> DEFINE v == Evict(s, E)
<1>1. SameRecords(s, v)
  BY EvictFields
<1>2. \A t \in Txs : v.status[t] = IF t \in E THEN "none" ELSE s.status[t]
  BY EvictFields
<1> HIDE DEF v
<1>3. Registered(v, F, W, P)
  BY <1>1, <1>2 DEF Registered, SameRecords
<1> QED BY <1>3 DEF v

\* An abort keeps the invariant.
LEMMA AbortSound ==
    ASSUME NEW s, NEW F, NEW P, NEW w \in Txs, Base(s, {}), Registered(s, F, {}, P), NEW tag
    PROVE  /\ Base(OnAbortCommitted(s, w, tag), {})
           /\ Registered(OnAbortCommitted(s, w, tag), F, {}, Plus(P, w))
<1> DEFINE E == {w} \cap InPool(s)
           e == Evict(s, E)
<1>1. E \in SUBSET Txs /\ s \in MempoolStates
  BY DEF Base
<1> HIDE DEF E
<1>2. Base(e, {}) /\ Registered(e, F, {}, P)
  BY <1>1, EvictBase, EvictRegistered
<1> HIDE DEF e
<1>3. Registered(e, F, {w}, P)
  BY <1>2, RegisteredWeaker
<1>4. OnAbortCommitted(s, w, tag) = RetryLosers(e, w, tag)
  BY DEF OnAbortCommitted, e, E
<1> QED BY <1>2, <1>3, <1>4, RetryLosersSound, ZenonT(60)

\* The pool, the ready tracking, the locks and the tombstones are the same.
SamePool(s, v) ==
    /\ v.status = s.status /\ v.ready = s.ready /\ v.blockers = s.blockers
    /\ v.locked = s.locked /\ v.tombs = s.tombs

\* The records of deferrals have no part in the invariant on the pool.
LEMMA SamePoolBase ==
    ASSUME NEW s, NEW X, Base(s, X), NEW v \in MempoolStates, SamePool(s, v)
    PROVE  Base(v, X)
BY DEF Base, Waits, Held, Buried, SamePool

\* A committed certificate keeps the invariant: the losers of the winner that
\* completes are retried in the same step.
LEMMA CertificateSound ==
    ASSUME NEW s, NEW F, NEW P, NEW w \in Txs, Base(s, {}), Registered(s, F, {}, P), NEW tag
    PROVE  /\ Base(OnCertificateCommitted(s, w, tag), {})
           /\ Registered(OnCertificateCommitted(s, w, tag), F, {}, Plus(P, w))
<1> DEFINE E == {w} \cap InPool(s)
           e == Evict(s, E)
           cs == e.completed \cup {w}
           k == [e EXCEPT !.completed = cs]
           Q == {t \in e.losers[w] : e.deferredBy[t] = None /\ e.pendingDefs[t] # None}
           r == RetryLosers(k, w, tag)
           pr == [t \in Txs |-> IF t \in Q THEN e.pendingDefs[t] ELSE r.pendingRetries[t]]
           pd == [t \in Txs |-> IF t \in Q THEN None ELSE r.pendingDefs[t]]
           v == [r EXCEPT !.pendingRetries = pr, !.pendingDefs = pd]
<1>1. E \in SUBSET Txs /\ s \in MempoolStates
  BY DEF Base
<1> HIDE DEF E
<1>2. Base(e, {}) /\ Registered(e, F, {}, P)
  BY <1>1, EvictBase, EvictRegistered
<1>3. e \in MempoolStates
  BY <1>2 DEF Base
<1> HIDE DEF e
<1>4. cs \in SUBSET Txs
  BY <1>3 DEF MempoolStates
<1>5. k \in MempoolStates /\ SamePool(e, k) /\ k.completed = cs
      /\ k.deferredBy = e.deferredBy /\ k.losers = e.losers
  <2> HIDE DEF cs
  <2> QED BY <1>3, <1>4 DEF MempoolStates, SamePool
<1> HIDE DEF k
<1>6. Base(k, {})
  BY <1>2, <1>5, SamePoolBase
<1>7. Registered(k, F, {w}, P)
  BY <1>2, <1>5 DEF Registered, SamePool
<1>8. Base(r, {}) /\ Registered(r, F, {}, Plus(P, w))
  BY <1>6, <1>7, RetryLosersSound
<1>9. r \in MempoolStates
  BY <1>8 DEF Base
<1> HIDE DEF r, Q
<1>10. pr \in [Txs -> Txs \cup {None}] /\ pd \in [Txs -> Txs \cup {None}]
  BY <1>3, <1>9 DEF MempoolStates
<1> HIDE DEF pr, pd
<1>11. v \in MempoolStates /\ SamePool(r, v) /\ v.completed = r.completed
       /\ v.deferredBy = r.deferredBy /\ v.losers = r.losers
  BY <1>9, <1>10, ZenonT(60) DEF MempoolStates, SamePool
<1>12. OnCertificateCommitted(s, w, tag) = v
  BY DEF OnCertificateCommitted, v, pr, pd, r, Q, k, cs, e, E
<1> HIDE DEF v
<1>13. Base(v, {})
  BY <1>8, <1>11, SamePoolBase
<1>14. Registered(v, F, {}, Plus(P, w))
  BY <1>8, <1>11 DEF Registered, SamePool
<1> QED BY <1>12, <1>13, <1>14

\* The execution of a transaction keeps the invariant, also when the pool has
\* it as pending or deferred.
LEMMA ExecutedSound ==
    ASSUME NEW s, NEW F, NEW P, NEW t \in Txs, Base(s, {}), Registered(s, F, {}, P), NEW tag
    PROVE  /\ Base(OnTransactionExecuted(s, t, tag), {})
           /\ Registered(OnTransactionExecuted(s, t, tag), F, {}, P)
<1> DEFINE f == [y \in Txs |-> IF y = t /\ t \in InPool(s) THEN "executed" ELSE s.status[y]]
           nc == IF s.status[t] = "committed" THEN Less(s.nCommitted, 1) ELSE s.nCommitted
           ne == IF s.status[t] = "committed" THEN s.nExecuted + 1 ELSE s.nExecuted
           x == [s EXCEPT !.status = f, !.nCommitted = nc, !.nExecuted = ne]
<1>0. s \in MempoolStates /\ Waits(s, {}) /\ Held(s) /\ Buried(s, {})
  BY DEF Base
<1>1. s.nCommitted \in Nat /\ s.nExecuted \in Nat
  BY <1>0 DEF MempoolStates
<1>2. nc \in Nat /\ ne \in Nat
  <2>1. Less(s.nCommitted, 1) \in Nat
    BY <1>1 DEF Less
  <2>2. s.nExecuted + 1 \in Nat
    BY <1>1
  <2> QED BY <1>1, <2>1, <2>2
<1>3. /\ f \in [Txs -> Statuses]
      /\ \A y \in Txs : f[y] = IF y = t /\ t \in InPool(s) THEN "executed" ELSE s.status[y]
  BY <1>0 DEF MempoolStates, Statuses
<1> HIDE DEF f, nc, ne
<1>4. /\ x \in MempoolStates
      /\ SameRecords(s, x)
      /\ x.status = f
      /\ x.ready = s.ready /\ x.blockers = s.blockers
      /\ x.locked = s.locked /\ x.tombs = s.tombs
  BY <1>0, <1>2, <1>3, ZenonT(60) DEF MempoolStates, SameRecords
<1>5. OnTransactionExecuted(s, t, tag) = RetryLosers(x, t, tag)
  BY DEF OnTransactionExecuted, x, f, nc, ne
<1> HIDE DEF x
<1>6. Waits(x, {})
  BY <1>0, <1>3, <1>4 DEF Waits
<1>7. Held(x)
  <2> SUFFICES ASSUME NEW n \in x.locked
               PROVE  \E y \in Txs : Holds(x.status[y]) /\ n \in Declared(y)
    BY DEF Held
  <2>1. PICK y \in Txs : Holds(s.status[y]) /\ n \in Declared(y)
    BY <1>0, <1>4 DEF Held
  <2>2. Holds(x.status[y])
    BY <1>3, <1>4, <2>1 DEF Holds
  <2> QED BY <2>1, <2>2
<1>8. Buried(x, {})
  BY <1>0, <1>3, <1>4 DEF Buried
<1>9. Registered(x, F, {}, P)
  BY <1>3, <1>4 DEF Registered, SameRecords
<1>10. Base(x, {}) /\ Registered(x, F, {t}, P)
  BY <1>4, <1>6, <1>7, <1>8, <1>9, RegisteredWeaker DEF Base
<1>11. /\ Base(RetryLosers(x, t, tag), {})
       /\ Registered(RetryLosers(x, t, tag), F, {}, Plus(P, t))
  BY <1>10, RetryLosersSound
<1>12. \A y \in Txs : P[y] \subseteq Plus(P, t)[y]
  BY DEF Plus
<1> QED BY <1>5, <1>11, <1>12, RegisteredWeaker

\* The promotion of a transaction with verified provisions keeps the invariant.
LEMMA ProvisionSound ==
    ASSUME NEW s, NEW F, NEW P, NEW t \in Txs, Base(s, {}), Registered(s, F, {}, P),
           s.ready[t] = "others"
    PROVE  Base(OnProvisionVerified(s, t), {}) /\ Registered(OnProvisionVerified(s, t), F, {}, P)
<1> DEFINE f == [y \in Txs |-> IF y = t THEN "priority" ELSE s.ready[y]]
           v == [s EXCEPT !.ready = f]
<1>0. s \in MempoolStates /\ Waits(s, {}) /\ Held(s) /\ Buried(s, {})
  BY DEF Base
<1>1. /\ f \in [Txs -> Queues]
      /\ \A y \in Txs : f[y] = IF y = t THEN "priority" ELSE s.ready[y]
  BY <1>0 DEF MempoolStates, Queues
<1> HIDE DEF f
<1>2. /\ v \in MempoolStates
      /\ SameRecords(s, v)
      /\ v.ready = f
      /\ v.status = s.status /\ v.blockers = s.blockers
      /\ v.locked = s.locked /\ v.tombs = s.tombs
  BY <1>0, <1>1, ZenonT(60) DEF MempoolStates, SameRecords
<1>3. OnProvisionVerified(s, t) = v
  BY DEF OnProvisionVerified, v, f
<1> HIDE DEF v
<1>4. Waits(v, {}) /\ Held(v)
  BY <1>0, <1>1, <1>2 DEF Waits, Held
<1>5. Buried(v, {})
  BY <1>0, <1>1, <1>2 DEF Buried
<1>6. Registered(v, F, {}, P)
  BY <1>2 DEF Registered, SameRecords
<1> QED BY <1>2, <1>3, <1>4, <1>5, <1>6 DEF Base

\* Cleanup keeps the invariant, but for the deferrals that it forgets.
LEMMA CleanupSound ==
    ASSUME NEW s, NEW F, NEW P, Base(s, {}), Registered(s, F, {}, P), NEW o,
           NEW Y \in SUBSET Txs, Y = o.deferredBy
    PROVE  Base(Cleanup(s, o), {}) /\ Registered(Cleanup(s, o), F \cup Y, {}, P)
<1> DEFINE db == [t \in Txs |-> IF t \in o.deferredBy THEN None ELSE s.deferredBy[t]]
           ls == [w \in Txs |-> s.losers[w] \ {t \in o.deferredBy : s.deferredBy[t] = w}]
           pd == [t \in Txs |-> IF t \in o.pendingDefs THEN None ELSE s.pendingDefs[t]]
           pr == [t \in Txs |-> IF t \in o.pendingRetries THEN None ELSE s.pendingRetries[t]]
           cs == s.completed \ o.completed
           ts == s.tombs \ o.tombs
           v == [s EXCEPT !.tombs = ts, !.completed = cs, !.pendingDefs = pd,
                          !.pendingRetries = pr, !.deferredBy = db, !.losers = ls]
<1>0. s \in MempoolStates /\ Waits(s, {}) /\ Held(s) /\ Buried(s, {})
  BY DEF Base
<1>1. db \in [Txs -> Txs \cup {None}] /\ ls \in [Txs -> SUBSET Txs]
  BY <1>0 DEF MempoolStates
<1>2. pd \in [Txs -> Txs \cup {None}] /\ pr \in [Txs -> Txs \cup {None}]
  BY <1>0 DEF MempoolStates
<1>3. cs \in SUBSET Txs /\ ts \in SUBSET Txs /\ ts \subseteq s.tombs /\ cs \subseteq s.completed
  BY <1>0 DEF MempoolStates
<1>4. /\ \A t \in Txs : db[t] = IF t \in Y THEN None ELSE s.deferredBy[t]
      /\ \A w \in Txs : ls[w] = s.losers[w] \ {t \in Y : s.deferredBy[t] = w}
  OBVIOUS
<1> HIDE DEF db, ls, pd, pr, cs, ts
<1>5. /\ v \in MempoolStates
      /\ v.status = s.status /\ v.ready = s.ready /\ v.blockers = s.blockers
      /\ v.locked = s.locked /\ v.tombs = ts
      /\ v.deferredBy = db /\ v.losers = ls /\ v.completed = cs
  BY <1>0, <1>1, <1>2, <1>3, ZenonT(60) DEF MempoolStates
<1>6. Cleanup(s, o) = v
  BY DEF Cleanup, v, db, ls, pd, pr, cs, ts
<1> HIDE DEF v
<1>7. Waits(v, {}) /\ Held(v) /\ Buried(v, {})
  BY <1>0, <1>3, <1>5 DEF Waits, Held, Buried
<1>8. ASSUME NEW t \in Txs \ (F \cup Y), v.status[t] = "deferred"
      PROVE  /\ v.deferredBy[t] \in Txs \ (v.completed \ {})
             /\ t \in v.losers[v.deferredBy[t]]
             /\ v.deferredBy[t] \notin P[t]
  <2>1. /\ s.deferredBy[t] \in Txs \ s.completed
        /\ t \in s.losers[s.deferredBy[t]]
        /\ s.deferredBy[t] \notin P[t]
    BY <1>5, <1>8 DEF Registered
  <2>2. v.deferredBy[t] = s.deferredBy[t]
    BY <1>4, <1>5
  <2>3. t \in ls[s.deferredBy[t]]
    BY <1>4, <2>1
  <2> QED BY <1>3, <1>5, <2>1, <2>2, <2>3
<1>9. Registered(v, F \cup Y, {}, P)
  BY <1>8 DEF Registered
<1> QED BY <1>5, <1>6, <1>7, <1>9 DEF Base

\* Creating retries keeps the other deferrals registered.
LEMMA CreateRetriesRegistered ==
    ASSUME NEW s, NEW F, NEW P, NEW X, Base(s, X), Registered(s, F, {}, P),
           NEW L \in SUBSET Txs, NEW tag
    PROVE  Registered(CreateRetries(s, L, tag), F, {}, P)
<1> DEFINE v == CreateRetries(s, L, tag)
<1>1. NoneDeferred(s, L, v)
  BY CreateRetriesBase
<1> HIDE DEF v
<1>2. Registered(v, F, {}, P)
  BY <1>1 DEF Registered, NoneDeferred, SameRecords
<1> QED BY <1>2 DEF v

\* v is s after the deferral of t by w, which unlocked U.
Deferring(s, t, w, U, v) ==
    /\ v \in MempoolStates
    /\ v.locked = s.locked \ U
    /\ v.tombs = s.tombs
    /\ v.completed = s.completed
    /\ Holds(s.status[t]) => Declared(t) \subseteq U
    /\ t \in v.losers[w]
    /\ \A y \in Txs : s.losers[y] \subseteq v.losers[y]
    /\ \A y \in Txs : v.status[y] = IF y = t THEN "deferred" ELSE s.status[y]
    /\ \A y \in Txs : v.deferredBy[y] = IF y = t THEN w ELSE s.deferredBy[y]
    /\ \A y \in Txs : v.blockers[y] = IF y = t THEN {} ELSE s.blockers[y] \ U
    /\ \A y \in Txs : v.ready[y] = IF y = t THEN "none"
                                   ELSE IF y \in Promotes(s, U) THEN Queue(y) ELSE s.ready[y]

\* A transition to Deferred of that form keeps the invariant.
LEMMA DeferringSound ==
    ASSUME NEW s, NEW F, NEW P, NEW t \in Txs, NEW w \in Txs, w \notin s.completed, w \notin P[t],
           Base(s, {}), Registered(s, F, {}, P), NEW U, NEW v, Deferring(s, t, w, U, v)
    PROVE  Base(v, {}) /\ Registered(v, F, {}, P)
<1>0. s \in MempoolStates /\ Waits(s, {}) /\ Held(s) /\ Buried(s, {})
  BY DEF Base
<1>1. v \in MempoolStates /\ v.locked = s.locked \ U /\ v.tombs = s.tombs
  BY DEF Deferring
<1>2. ASSUME NEW y \in Txs
      PROVE  /\ v.status[y] = IF y = t THEN "deferred" ELSE s.status[y]
             /\ v.blockers[y] = IF y = t THEN {} ELSE s.blockers[y] \ U
             /\ v.ready[y] = IF y = t THEN "none"
                             ELSE IF y \in Promotes(s, U) THEN Queue(y) ELSE s.ready[y]
  BY ZenonT(60) DEF Deferring
<1>3. ASSUME NEW y \in Txs
      PROVE  /\ v.blockers[y] \subseteq v.locked
             /\ v.status[y] = "pending" /\ y \notin {}
                  => v.ready[y] # "none" \/ v.blockers[y] # {}
  <2>1. /\ s.blockers[y] \subseteq s.locked
        /\ s.status[y] = "pending" => s.ready[y] # "none" \/ s.blockers[y] # {}
    BY <1>0 DEF Waits
  <2>2. Queue(y) # "none"
    BY TxFacts
  <2>3. CASE y = t
    BY <1>2, <2>3, ZenonT(60)
  <2>4. CASE y # t /\ y \in Promotes(s, U)
    BY <1>1, <1>2, <2>1, <2>2, <2>4, ZenonT(60)
  <2>5. CASE y # t /\ y \notin Promotes(s, U)
    BY <1>1, <1>2, <2>1, <2>5, ZenonT(60) DEF Promotes
  <2> QED BY <2>3, <2>4, <2>5
<1>4. ASSUME NEW m \in v.locked
      PROVE  \E y \in Txs : Holds(v.status[y]) /\ m \in Declared(y)
  <2>1. m \in s.locked /\ m \notin U
    BY <1>1
  <2>2. PICK y \in Txs : Holds(s.status[y]) /\ m \in Declared(y)
    BY <1>0, <2>1 DEF Held
  <2>3. y # t
    BY <2>1, <2>2 DEF Deferring
  <2> QED BY <1>2, <2>2, <2>3, ZenonT(60)
<1>5. ASSUME NEW y \in Txs
      PROVE  /\ y \in v.tombs \/ v.status[y] = "none"
                  => v.ready[y] = "none" /\ v.blockers[y] = {}
             /\ y \in v.tombs /\ y \notin {} => v.status[y] # "pending"
  <2>1. /\ y \in s.tombs \/ s.status[y] = "none"
             => s.ready[y] = "none" /\ s.blockers[y] = {}
        /\ y \in s.tombs => s.status[y] # "pending"
    BY <1>0 DEF Buried
  <2>2. y \in s.tombs \/ s.status[y] = "none" => y \notin Promotes(s, U)
    BY <2>1 DEF Promotes
  <2> QED BY <1>1, <1>2, <2>1, <2>2, ZenonT(60)
<1>6. ASSUME NEW y \in Txs \ F, v.status[y] = "deferred"
      PROVE  /\ v.deferredBy[y] \in Txs \ (v.completed \ {})
             /\ y \in v.losers[v.deferredBy[y]]
             /\ v.deferredBy[y] \notin P[y]
  <2>1. /\ v.completed = s.completed
        /\ v.deferredBy[y] = IF y = t THEN w ELSE s.deferredBy[y]
        /\ t \in v.losers[w]
        /\ \A x \in Txs : s.losers[x] \subseteq v.losers[x]
    BY DEF Deferring
  <2>2. CASE y = t
    BY <2>1, <2>2
  <2>3. CASE y # t
    <3>1. s.status[y] = "deferred"
      BY <1>2, <1>6, <2>3, ZenonT(60)
    <3>2. /\ s.deferredBy[y] \in Txs \ s.completed /\ y \in s.losers[s.deferredBy[y]]
          /\ s.deferredBy[y] \notin P[y]
      BY <3>1 DEF Registered
    <3> QED BY <2>1, <2>3, <3>2
  <2> QED BY <2>2, <2>3
<1>7. Waits(v, {}) /\ Held(v) /\ Buried(v, {}) /\ Registered(v, F, {}, P)
  BY <1>3, <1>4, <1>5, <1>6 DEF Waits, Held, Buried, Registered
<1> QED BY <1>1, <1>7 DEF Base

\* The transition to Deferred: locks are released, waiters promoted, and the
\* loser is registered with its winner.
LEMMA DeferTransition ==
    ASSUME NEW s, NEW F, NEW P, NEW t \in Txs, NEW w \in Txs, w \notin s.completed, w \notin P[t],
           Base(s, {}), Registered(s, F, {}, P),
           NEW ls, ls = [x \in Txs |-> IF x = w THEN s.losers[x] \cup {t} ELSE s.losers[x]],
           NEW n, n = Untrack([s EXCEPT !.losers = ls], {t}),
           NEW r, r = Release(n, {t}),
           NEW v, v = [r EXCEPT !.status = [r.status EXCEPT ![t] = "deferred"],
                                !.deferredBy = [s.deferredBy EXCEPT ![t] = w]]
    PROVE  Base(v, {}) /\ Registered(v, F, {}, P)
<1> DEFINE k == [s EXCEPT !.losers = ls]
           U == Freed(n, {t})
<1>0. s \in MempoolStates /\ Waits(s, {}) /\ Held(s) /\ Buried(s, {})
  BY DEF Base
<1>1. /\ ls \in [Txs -> SUBSET Txs]
      /\ \A x \in Txs : s.losers[x] \subseteq ls[x]
      /\ t \in ls[w]
  BY <1>0 DEF MempoolStates
<1>2. /\ k \in MempoolStates
      /\ SamePool(s, k)
      /\ k.losers = ls /\ k.deferredBy = s.deferredBy /\ k.completed = s.completed
  BY <1>0, <1>1 DEF MempoolStates, SamePool
<1> HIDE DEF k
<1>3. n = Untrack(k, {t})
  BY DEF k
<1>4. /\ n \in MempoolStates
      /\ SameRecords(k, n)
      /\ n.locked = k.locked
      /\ n.status = k.status
      /\ n.tombs = k.tombs
      /\ \A y \in Txs : n.ready[y] = IF y \in {t} THEN "none" ELSE k.ready[y]
      /\ \A y \in Txs : n.blockers[y] = IF y \in {t} THEN {} ELSE k.blockers[y]
  <2>1. Untracked(k, {t}, n)
    BY <1>2, <1>3, UntrackResult
  <2> QED BY <2>1, ZenonT(60) DEF Untracked
<1>5. /\ r \in MempoolStates
      /\ SameRecords(n, r)
      /\ r.locked = n.locked \ U
      /\ r.status = n.status
      /\ r.tombs = n.tombs
      /\ \A y \in Txs : r.blockers[y] = n.blockers[y] \ U
      /\ \A y \in Txs : r.ready[y] = IF y \in Promotes(n, U) THEN Queue(y) ELSE n.ready[y]
  <2>1. Released(n, {t}, r)
    BY <1>4, ReleaseResult
  <2> QED BY <2>1, ZenonT(60) DEF Released
<1> DEFINE f == [r.status EXCEPT ![t] = "deferred"]
           db == [s.deferredBy EXCEPT ![t] = w]
<1>6. /\ f \in [Txs -> Statuses]
      /\ \A y \in Txs : f[y] = IF y = t THEN "deferred" ELSE s.status[y]
  <2>1. r.status = s.status
    BY <1>2, <1>4, <1>5, ZenonT(60) DEF SamePool
  <2>2. s.status \in [Txs -> Statuses] /\ "deferred" \in Statuses
    BY <1>0 DEF MempoolStates, Statuses
  <2> QED BY <2>1, <2>2, ZenonT(60)
<1>7. /\ db \in [Txs -> Txs \cup {None}]
      /\ \A y \in Txs : db[y] = IF y = t THEN w ELSE s.deferredBy[y]
  BY <1>0 DEF MempoolStates
<1>8. v = [r EXCEPT !.status = f, !.deferredBy = db]
  OBVIOUS
<1> HIDE DEF f, db
<1>9. /\ v \in MempoolStates
      /\ v.status = f /\ v.deferredBy = db
      /\ v.ready = r.ready /\ v.blockers = r.blockers
      /\ v.locked = r.locked /\ v.tombs = r.tombs
      /\ v.losers = r.losers /\ v.completed = r.completed
  <2>1. r \in MempoolStates
    BY <1>5
  <2> QED BY <1>6, <1>7, <1>8, <2>1, ZenonT(60) DEF MempoolStates
<1>10. v.locked = s.locked \ U /\ v.tombs = s.tombs
  BY <1>2, <1>4, <1>5, <1>9, ZenonT(60) DEF SamePool
<1>11. ASSUME NEW y \in Txs
       PROVE  /\ v.blockers[y] = IF y = t THEN {} ELSE s.blockers[y] \ U
              /\ v.ready[y] = IF y = t THEN "none"
                              ELSE IF y \in Promotes(s, U) THEN Queue(y) ELSE s.ready[y]
  <2>1. /\ n.blockers[y] = IF y = t THEN {} ELSE s.blockers[y]
        /\ n.ready[y] = IF y = t THEN "none" ELSE s.ready[y]
        /\ n.status = s.status
    BY <1>2, <1>4 DEF SamePool
  <2>2. y \in Promotes(n, U) <=> y # t /\ y \in Promotes(s, U)
    BY <2>1, ZenonT(60) DEF Promotes
  <2> HIDE DEF U
  <2>3. v.blockers[y] = n.blockers[y] \ U
    <3>1. v.blockers = r.blockers
      BY <1>9
    <3>2. r.blockers[y] = n.blockers[y] \ U
      BY <1>5, ZenonT(60)
    <3> QED BY <3>1, <3>2, Zenon
  <2>4. v.ready[y] = IF y \in Promotes(n, U) THEN Queue(y) ELSE n.ready[y]
    <3>1. v.ready = r.ready
      BY <1>9
    <3>2. r.ready[y] = IF y \in Promotes(n, U) THEN Queue(y) ELSE n.ready[y]
      BY <1>5, ZenonT(60)
    <3> QED BY <3>1, <3>2, Zenon
  <2> QED BY <2>1, <2>2, <2>3, <2>4, ZenonT(60)
<1>12. Holds(s.status[t]) => Declared(t) \subseteq U
  <2>1. n.status = s.status
    BY <1>2, <1>4 DEF SamePool
  <2>2. Holds(n.status[t]) => t \in {x \in {t} : Holds(n.status[x])}
    OBVIOUS
  <2> QED BY <2>1, <2>2, ZenonT(60) DEF Freed
<1> HIDE DEF U
<1>13. v.losers = ls /\ v.completed = s.completed
  BY <1>2, <1>4, <1>5, <1>9, ZenonT(60) DEF SameRecords
<1>14. Deferring(s, t, w, U, v)
  BY <1>1, <1>6, <1>7, <1>9, <1>10, <1>11, <1>12, <1>13, ZenonT(60) DEF Deferring
<1> QED BY <1>14, DeferringSound

\* A committed deferral keeps the invariant, whether its winner completed
\* before or not and whether the pool knows its loser or not.
LEMMA DeferralSound ==
    ASSUME NEW s, NEW F, NEW P, NEW t \in Txs, NEW w \in Txs, w \notin P[t],
           Base(s, {}), Registered(s, F, {}, P), NEW tag
    PROVE  /\ Base(OnDeferralCommitted(s, t, w, tag), {})
           /\ Registered(OnDeferralCommitted(s, t, w, tag), F, {}, P)
<1> DEFINE ls == [x \in Txs |-> IF x = w THEN s.losers[x] \cup {t} ELSE s.losers[x]]
           linked == [s EXCEPT !.losers = ls]
           n == Untrack(linked, {t})
           freed == Release(n, {t})
           arm1 == CreateRetries(s, {t}, tag)
           arm2 == [s EXCEPT !.pendingRetries = [s.pendingRetries EXCEPT ![t] = w]]
           arm3 == [freed EXCEPT !.status = [freed.status EXCEPT ![t] = "deferred"],
                                 !.deferredBy = [s.deferredBy EXCEPT ![t] = w]]
           arm4 == [linked EXCEPT !.pendingDefs = [s.pendingDefs EXCEPT ![t] = w]]
<1>0. s \in MempoolStates
  BY DEF Base
<1>1. CASE WinnerDone(s, w) /\ t \in InPool(s)
  <2>1. OnDeferralCommitted(s, t, w, tag) = arm1
    BY <1>1 DEF OnDeferralCommitted
  <2>2. {t} \in SUBSET Txs
    OBVIOUS
  <2> QED BY <2>1, <2>2, CreateRetriesBase, CreateRetriesRegistered
<1>2. CASE WinnerDone(s, w) /\ t \notin InPool(s)
  <2>1. OnDeferralCommitted(s, t, w, tag) = arm2
    BY <1>2 DEF OnDeferralCommitted
  <2>2. [s.pendingRetries EXCEPT ![t] = w] \in [Txs -> Txs \cup {None}]
    BY <1>0 DEF MempoolStates
  <2>3. arm2 \in MempoolStates /\ SamePool(s, arm2) /\ arm2.completed = s.completed
        /\ arm2.deferredBy = s.deferredBy /\ arm2.losers = s.losers
    BY <1>0, <2>2, ZenonT(60) DEF MempoolStates, SamePool
  <2> HIDE DEF arm2
  <2>4. Base(arm2, {})
    BY <2>3, SamePoolBase
  <2>5. Registered(arm2, F, {}, P)
    BY <2>3 DEF Registered, SamePool
  <2> QED BY <2>1, <2>4, <2>5
<1>3. CASE ~ WinnerDone(s, w) /\ s.status[t] \in {"pending", "committed"}
  <2>1. OnDeferralCommitted(s, t, w, tag) = arm3
    <3>1. t \in InPool(s)
      BY <1>3 DEF InPool
    <3> QED BY <1>3, <3>1 DEF OnDeferralCommitted
  <2>2. w \notin s.completed
    BY <1>3 DEF WinnerDone
  <2>3. Base(arm3, {}) /\ Registered(arm3, F, {}, P)
    BY <2>2, DeferTransition, ZenonT(60)
  <2> QED BY <2>1, <2>3
<1>4. CASE ~ WinnerDone(s, w) /\ t \notin InPool(s)
  <2>1. s.status[t] = "none"
    BY <1>4 DEF InPool
  <2>2. OnDeferralCommitted(s, t, w, tag) = arm4
    BY <1>4, <2>1 DEF OnDeferralCommitted
  <2>3. /\ ls \in [Txs -> SUBSET Txs]
        /\ \A x \in Txs : s.losers[x] \subseteq ls[x]
    BY <1>0 DEF MempoolStates
  <2>4. [s.pendingDefs EXCEPT ![t] = w] \in [Txs -> Txs \cup {None}]
    BY <1>0 DEF MempoolStates
  <2> HIDE DEF ls
  <2>5. arm4 \in MempoolStates /\ SamePool(s, arm4) /\ arm4.completed = s.completed
        /\ arm4.deferredBy = s.deferredBy /\ arm4.losers = ls
    BY <1>0, <2>3, <2>4, ZenonT(60) DEF MempoolStates, SamePool
  <2> HIDE DEF arm4
  <2>6. Base(arm4, {})
    BY <2>5, SamePoolBase
  <2>7. Registered(arm4, F, {}, P)
    BY <2>3, <2>5 DEF Registered, SamePool
  <2> QED BY <2>2, <2>6, <2>7
<1>5. CASE ~ WinnerDone(s, w) /\ s.status[t] \in {"executed", "deferred"}
  <2>1. t \in InPool(s)
    BY <1>5 DEF InPool
  <2>2. OnDeferralCommitted(s, t, w, tag) = s
    BY <1>5, <2>1 DEF OnDeferralCommitted
  <2> QED BY <2>2
<1>6. s.status[t] \in Statuses
  BY <1>0 DEF MempoolStates
<1> QED BY <1>1, <1>2, <1>3, <1>4, <1>5, <1>6 DEF Statuses, InPool

\* Late blocks of the pipeline: what they bring is inserted as pending, to be
\* committed next, or, when it lost a cycle meanwhile, tombstoned and retried.
Arrival(s, T, late, v) ==
    /\ v \in MempoolStates
    /\ v.ready = s.ready /\ v.blockers = s.blockers /\ v.locked = s.locked
    /\ v.deferredBy = s.deferredBy /\ v.losers = s.losers /\ v.completed = s.completed
    /\ v.tombs = s.tombs \cup late
    /\ \A t \in Txs : v.status[t] = IF t \in T \ (InPool(s) \cup late) THEN "pending"
                                    ELSE s.status[t]

\* Such an arrival keeps the invariant, the transactions T aside.
LEMMA ArrivalSound ==
    ASSUME NEW s, NEW F, NEW P, NEW T \in SUBSET Txs, Base(s, {}), Registered(s, F, {}, P),
           NEW late, late \subseteq T \ InPool(s), NEW v, Arrival(s, T, late, v)
    PROVE  Base(v, T) /\ Registered(v, F, {}, P)
<1>0. s \in MempoolStates /\ Waits(s, {}) /\ Held(s) /\ Buried(s, {})
  BY DEF Base
<1>1. /\ v \in MempoolStates
      /\ v.ready = s.ready /\ v.blockers = s.blockers /\ v.locked = s.locked
      /\ v.deferredBy = s.deferredBy /\ v.losers = s.losers /\ v.completed = s.completed
      /\ v.tombs = s.tombs \cup late
  BY DEF Arrival
<1>2. ASSUME NEW t \in Txs
      PROVE  v.status[t] = s.status[t] \/ (t \in T /\ s.status[t] = "none" /\ v.status[t] = "pending")
  BY DEF Arrival, InPool
<1>3. ASSUME NEW t \in late
      PROVE  t \in T /\ s.status[t] = "none"
  BY DEF InPool
<1>4. Waits(v, T)
  BY <1>0, <1>1, <1>2 DEF Waits
<1>5. Held(v)
  <2> SUFFICES ASSUME NEW n \in v.locked
               PROVE  \E t \in Txs : Holds(v.status[t]) /\ n \in Declared(t)
    BY DEF Held
  <2>1. PICK t \in Txs : Holds(s.status[t]) /\ n \in Declared(t)
    BY <1>0, <1>1 DEF Held
  <2>2. v.status[t] = s.status[t]
    BY <1>2, <2>1 DEF Holds
  <2> QED BY <2>1, <2>2
<1>6. Buried(v, T)
  <2> SUFFICES ASSUME NEW t \in Txs
               PROVE  /\ t \in v.tombs \/ v.status[t] = "none"
                           => v.ready[t] = "none" /\ v.blockers[t] = {}
                      /\ t \in v.tombs /\ t \notin T => v.status[t] # "pending"
    BY DEF Buried
  <2>1. /\ t \in s.tombs \/ s.status[t] = "none"
             => s.ready[t] = "none" /\ s.blockers[t] = {}
        /\ t \in s.tombs => s.status[t] # "pending"
    BY <1>0 DEF Buried
  <2> QED BY <1>1, <1>2, <1>3, <2>1
<1>7. Registered(v, F, {}, P)
  BY <1>1, <1>2 DEF Registered
<1> QED BY <1>1, <1>4, <1>5, <1>6, <1>7 DEF Base

\* v is s after the pending transactions C became committed.
Committed(s, C, v) ==
    /\ v \in MempoolStates
    /\ v.locked = s.locked /\ v.tombs = s.tombs
    /\ v.deferredBy = s.deferredBy /\ v.losers = s.losers /\ v.completed = s.completed
    /\ \A t \in Txs : v.status[t] = IF t \in C THEN "committed" ELSE s.status[t]
    /\ \A t \in Txs : v.ready[t] = IF t \in C THEN "none" ELSE s.ready[t]
    /\ \A t \in Txs : v.blockers[t] = IF t \in C THEN {} ELSE s.blockers[t]

\* That transition restores the invariant for the transactions of the block.
LEMMA CommittedSound ==
    ASSUME NEW s, NEW F, NEW P, NEW T \in SUBSET Txs, Base(s, T), Registered(s, F, {}, P),
           NEW v, Committed(s, T \cap With(s, "pending"), v)
    PROVE  Base(v, {}) /\ Registered(v, F, {}, P)
<1> DEFINE C == T \cap With(s, "pending")
<1>0. s \in MempoolStates /\ Waits(s, T) /\ Held(s) /\ Buried(s, T)
  BY DEF Base
<1>1. /\ v \in MempoolStates
      /\ v.locked = s.locked /\ v.tombs = s.tombs
      /\ v.deferredBy = s.deferredBy /\ v.losers = s.losers /\ v.completed = s.completed
  BY DEF Committed
<1>2. ASSUME NEW t \in Txs
      PROVE  /\ v.status[t] = IF t \in C THEN "committed" ELSE s.status[t]
             /\ v.ready[t] = IF t \in C THEN "none" ELSE s.ready[t]
             /\ v.blockers[t] = IF t \in C THEN {} ELSE s.blockers[t]
  BY DEF Committed
<1>3. ASSUME NEW t \in Txs
      PROVE  t \in C <=> t \in T /\ s.status[t] = "pending"
  BY DEF With
<1> HIDE DEF C
<1>4. Waits(v, {})
  BY <1>0, <1>1, <1>2, <1>3 DEF Waits
<1>5. Held(v)
  <2> SUFFICES ASSUME NEW n \in v.locked
               PROVE  \E t \in Txs : Holds(v.status[t]) /\ n \in Declared(t)
    BY DEF Held
  <2>1. PICK t \in Txs : Holds(s.status[t]) /\ n \in Declared(t)
    BY <1>0, <1>1 DEF Held
  <2>2. v.status[t] = s.status[t]
    BY <1>2, <1>3, <2>1 DEF Holds
  <2> QED BY <2>1, <2>2
<1>6. Buried(v, {})
  BY <1>0, <1>1, <1>2, <1>3 DEF Buried
<1>7. Registered(v, F, {}, P)
  BY <1>1, <1>2 DEF Registered
<1> QED BY <1>1, <1>4, <1>5, <1>6, <1>7 DEF Base

\* v is s after the nodes L were locked.
Locked(s, L, v) ==
    /\ v \in MempoolStates
    /\ v.locked = s.locked \cup L
    /\ v.status = s.status /\ v.tombs = s.tombs
    /\ v.deferredBy = s.deferredBy /\ v.losers = s.losers /\ v.completed = s.completed
    /\ \A t \in Txs : \/ v.ready[t] = s.ready[t] /\ v.blockers[t] = s.blockers[t]
                      \/ /\ s.ready[t] # "none" /\ v.ready[t] = "none"
                         /\ \E n \in L : v.blockers[t] = s.blockers[t] \cup {n}

\* What block_transactions_for_node returns.
LEMMA LockFields ==
    ASSUME NEW s \in MempoolStates, NEW L \in SUBSET Nodes, NEW pick
    PROVE  Locked(s, L, Lock(s, L, pick))
<1> DEFINE hit(t) == Declared(t) \cap L
           first(t) == IF pick[t[1]] \in hit(t) THEN pick[t[1]] ELSE CHOOSE n \in hit(t) : TRUE
           moved == {t \in Txs : s.ready[t] # "none" /\ hit(t) # {}}
           rd == [t \in Txs |-> IF t \in moved THEN "none" ELSE s.ready[t]]
           bl == [t \in Txs |-> IF t \in moved THEN s.blockers[t] \cup {first(t)}
                                ELSE s.blockers[t]]
           lk == s.locked \cup L
           v == [s EXCEPT !.locked = lk, !.ready = rd, !.blockers = bl]
<1>1. \A t \in moved : first(t) \in L
  BY DEF first, hit, moved
<1>2. Lock(s, L, pick) = v
  BY DEF Lock
<1>3. ASSUME NEW t \in moved
      PROVE  t \in Txs /\ s.ready[t] # "none"
  OBVIOUS
<1> HIDE DEF first, moved
<1>4. /\ rd \in [Txs -> Queues]
      /\ bl \in [Txs -> SUBSET Nodes]
      /\ lk \in SUBSET Nodes
  BY <1>1 DEF MempoolStates, Queues
<1>5. ASSUME NEW t \in Txs
      PROVE  \/ rd[t] = s.ready[t] /\ bl[t] = s.blockers[t]
             \/ /\ s.ready[t] # "none" /\ rd[t] = "none"
                /\ \E n \in L : bl[t] = s.blockers[t] \cup {n}
  <2>1. CASE t \notin moved
    BY <2>1
  <2>2. CASE t \in moved
    <3>1. rd[t] = "none" /\ bl[t] = s.blockers[t] \cup {first(t)}
      BY <2>2
    <3> QED BY <1>1, <1>3, <2>2, <3>1
  <2> QED BY <2>1, <2>2
<1> HIDE DEF rd, bl
<1>6. /\ v \in MempoolStates
      /\ v.locked = lk /\ v.ready = rd /\ v.blockers = bl
      /\ v.status = s.status /\ v.tombs = s.tombs
      /\ v.deferredBy = s.deferredBy /\ v.losers = s.losers /\ v.completed = s.completed
  <2> HIDE DEF lk
  <2> QED BY <1>4, ZenonT(60) DEF MempoolStates
<1> HIDE DEF v
<1>7. Locked(s, L, v)
  BY <1>5, <1>6 DEF Locked
<1> QED BY <1>2, <1>7

\* Locking nodes that have a holder keeps the invariant.
LEMMA LockSound ==
    ASSUME NEW s, NEW F, NEW P, Base(s, {}), Registered(s, F, {}, P), NEW L,
           \A n \in L : \E t \in Txs : Holds(s.status[t]) /\ n \in Declared(t),
           NEW v, Locked(s, L, v)
    PROVE  Base(v, {}) /\ Registered(v, F, {}, P)
<1>0. s \in MempoolStates /\ Waits(s, {}) /\ Held(s) /\ Buried(s, {})
  BY DEF Base
<1>1. /\ v \in MempoolStates
      /\ v.locked = s.locked \cup L
      /\ v.status = s.status /\ v.tombs = s.tombs
      /\ v.deferredBy = s.deferredBy /\ v.losers = s.losers /\ v.completed = s.completed
  BY DEF Locked
<1>2. ASSUME NEW t \in Txs
      PROVE  \/ v.ready[t] = s.ready[t] /\ v.blockers[t] = s.blockers[t]
             \/ /\ s.ready[t] # "none" /\ v.ready[t] = "none"
                /\ \E n \in L : v.blockers[t] = s.blockers[t] \cup {n}
  BY DEF Locked
<1>3. Waits(v, {})
  <2> SUFFICES ASSUME NEW t \in Txs
               PROVE  /\ v.blockers[t] \subseteq v.locked
                      /\ v.status[t] = "pending" /\ t \notin {}
                           => v.ready[t] # "none" \/ v.blockers[t] # {}
    BY DEF Waits
  <2>1. /\ s.blockers[t] \subseteq s.locked
        /\ s.status[t] = "pending" => s.ready[t] # "none" \/ s.blockers[t] # {}
    BY <1>0 DEF Waits
  <2> QED BY <1>1, <1>2, <2>1
<1>4. Held(v)
  BY <1>0, <1>1 DEF Held
<1>5. Buried(v, {})
  BY <1>0, <1>1, <1>2 DEF Buried
<1>6. Registered(v, F, {}, P)
  BY <1>1 DEF Registered
<1> QED BY <1>1, <1>3, <1>4, <1>5, <1>6 DEF Base

\* The commit of a block's transactions keeps the invariant: they become
\* lock holders, and the ready transactions in conflict with them wait.
LEMMA CommitSound ==
    ASSUME NEW s, NEW F, NEW P, NEW T \in SUBSET Txs, Base(s, {}), Registered(s, F, {}, P),
           NEW pick, NEW tag
    PROVE  /\ Base(CommitTransactions(s, T, pick, tag), {})
           /\ Registered(CommitTransactions(s, T, pick, tag), F, {}, P)
<1> DEFINE late == {t \in T \ InPool(s) : s.pendingRetries[t] # None}
           fa == [t \in Txs |-> IF t \in T \ (InPool(s) \cup late) THEN "pending"
                                ELSE s.status[t]]
           pa == [t \in Txs |-> IF t \in late THEN None ELSE s.pendingRetries[t]]
           ta == s.tombs \cup late
           a == [s EXCEPT !.status = fa, !.pendingRetries = pa, !.tombs = ta]
           b == CreateRetries(a, late, tag)
           C == T \cap With(b, "pending")
           fc == [t \in Txs |-> IF t \in C THEN "committed" ELSE b.status[t]]
           nc == b.nCommitted + Cardinality(C)
           k == [b EXCEPT !.status = fc, !.nCommitted = nc]
           c == Untrack(k, C)
           L == UNION {Declared(t) : t \in C} \ c.locked
           v == Lock(c, L, pick)
<1>0. s \in MempoolStates
  BY DEF Base
<1>1. CommitTransactions(s, T, pick, tag) = v
  BY DEF CommitTransactions
<1>2. late \subseteq T \ InPool(s) /\ late \in SUBSET Txs
  OBVIOUS
<1>3. Arrival(s, T, late, a)
  <2>1. /\ fa \in [Txs -> Statuses]
        /\ \A t \in Txs : fa[t] = IF t \in T \ (InPool(s) \cup late) THEN "pending"
                                  ELSE s.status[t]
        /\ pa \in [Txs -> Txs \cup {None}]
        /\ ta \in SUBSET Txs
    BY <1>0 DEF MempoolStates, Statuses
  <2> HIDE DEF fa, pa, late
  <2>2. /\ a \in MempoolStates
        /\ a.status = fa /\ a.tombs = ta
        /\ a.ready = s.ready /\ a.blockers = s.blockers /\ a.locked = s.locked
        /\ a.deferredBy = s.deferredBy /\ a.losers = s.losers /\ a.completed = s.completed
    <3> HIDE DEF ta
    <3> QED BY <1>0, <2>1, ZenonT(60) DEF MempoolStates
  <2> HIDE DEF a
  <2> QED BY <2>1, <2>2 DEF Arrival
<1> HIDE DEF a
<1>4. Base(a, T) /\ Registered(a, F, {}, P)
  <2> HIDE DEF late
  <2> QED BY <1>2, <1>3, ArrivalSound
<1> HIDE DEF late
<1>5. Base(b, T) /\ Registered(b, F, {}, P)
  BY <1>2, <1>4, CreateRetriesBase, CreateRetriesRegistered
<1>6. b \in MempoolStates
  BY <1>5 DEF Base
<1> HIDE DEF b
<1>7. C \in SUBSET Txs
  BY DEF With
<1>8. nc \in Nat
  <2>1. C = C \cap Txs
    BY <1>7
  <2>2. Cardinality(C) \in Nat
    BY <2>1, CountNat
  <2>3. b.nCommitted \in Nat
    BY <1>6 DEF MempoolStates
  <2> QED BY <2>2, <2>3
<1>9. /\ fc \in [Txs -> Statuses]
      /\ \A t \in Txs : fc[t] = IF t \in C THEN "committed" ELSE b.status[t]
  BY <1>6 DEF MempoolStates, Statuses
<1> HIDE DEF fc, nc, C
<1>10. /\ k \in MempoolStates
       /\ k.status = fc
       /\ k.ready = b.ready /\ k.blockers = b.blockers /\ k.locked = b.locked
       /\ k.tombs = b.tombs
       /\ k.deferredBy = b.deferredBy /\ k.losers = b.losers /\ k.completed = b.completed
  BY <1>6, <1>8, <1>9, ZenonT(60) DEF MempoolStates
<1> HIDE DEF k
<1>11. Untracked(k, C, c)
  BY <1>10, UntrackResult
<1> HIDE DEF c
<1>12. Committed(b, C, c)
  BY <1>9, <1>10, <1>11 DEF Committed, Untracked, SameRecords
<1>13. Base(c, {}) /\ Registered(c, F, {}, P)
  BY <1>5, <1>12, CommittedSound DEF C
<1>14. L \in SUBSET Nodes
  BY <1>7, TxFacts
<1>15. \A n \in L : \E t \in Txs : Holds(c.status[t]) /\ n \in Declared(t)
  <2> SUFFICES ASSUME NEW n \in L
               PROVE  \E t \in Txs : Holds(c.status[t]) /\ n \in Declared(t)
    OBVIOUS
  <2>1. PICK t \in C : n \in Declared(t)
    OBVIOUS
  <2>2. t \in Txs /\ c.status[t] = "committed"
    BY <1>7, <1>12 DEF Committed
  <2> QED BY <2>1, <2>2 DEF Holds
<1> HIDE DEF L
<1>16. Locked(c, L, v)
  <2>1. c \in MempoolStates
    BY <1>13 DEF Base
  <2> QED BY <1>14, <2>1, LockFields
<1> HIDE DEF v
<1>17. Base(v, {}) /\ Registered(v, F, {}, P)
  BY <1>13, <1>15, <1>16, LockSound
<1> QED BY <1>1, <1>17

\* A committed block keeps the invariant, and leaves no transaction deferred
\* by a winner that it certifies or aborts.
LEMMA BlockSound ==
    ASSUME NEW s, NEW F, NEW P, Base(s, {}), Registered(s, F, {}, P), NEW T \in SUBSET Txs,
           NEW d, NEW c, NEW a,
           d = {} \/ \E p \in Txs \X Txs : d = {p},
           c = {} \/ \E w \in Txs : c = {w},
           a = {} \/ \E w \in Txs : a = {w},
           \A q \in d : q[2] \notin P[q[1]],
           NEW R, \A t \in Txs : R[t] \subseteq P[t] \cup c \cup a,
           NEW pick, NEW tag
    PROVE  /\ Base(OnBlockCommitted(s, T, d, c, a, pick, tag), {})
           /\ Registered(OnBlockCommitted(s, T, d, c, a, pick, tag), F, {}, R)
<1> DEFINE p == CHOOSE p \in d : TRUE
           w == CHOOSE w \in c : TRUE
           x == CHOOSE x \in a : TRUE
           s1 == IF T = {} THEN s ELSE CommitTransactions(s, T, pick, tag)
           s2 == IF d = {} THEN s1 ELSE OnDeferralCommitted(s1, p[1], p[2], tag)
           s3 == IF c = {} THEN s2 ELSE OnCertificateCommitted(s2, w, tag)
           s4 == IF a = {} THEN s3 ELSE OnAbortCommitted(s3, x, tag)
<1>1. OnBlockCommitted(s, T, d, c, a, pick, tag) = s4
  BY ZenonT(60) DEF OnBlockCommitted
<1>2. d # {} => p[1] \in Txs /\ p[2] \in Txs /\ p[2] \notin P[p[1]]
  OBVIOUS
<1>3. c # {} => w \in Txs /\ c = {w}
  OBVIOUS
<1>4. a # {} => x \in Txs /\ a = {x}
  OBVIOUS
<1> HIDE DEF p, w, x
<1> DEFINE P3 == IF c = {} THEN P ELSE Plus(P, w)
           P4 == IF a = {} THEN P3 ELSE Plus(P3, x)
<1>5. Base(s1, {}) /\ Registered(s1, F, {}, P)
  BY CommitSound
<1> HIDE DEF s1
<1>6. Base(s2, {}) /\ Registered(s2, F, {}, P)
  BY <1>2, <1>5, DeferralSound, ZenonT(60)
<1> HIDE DEF s2
<1>7. Base(s3, {}) /\ Registered(s3, F, {}, P3)
  BY <1>3, <1>6, CertificateSound, ZenonT(60)
<1>8. \A t \in Txs : P3[t] = P[t] \cup c
  BY <1>3 DEF Plus
<1> HIDE DEF s3, P3
<1>9. Base(s4, {}) /\ Registered(s4, F, {}, P4)
  BY <1>4, <1>7, AbortSound, ZenonT(60)
<1>10. \A t \in Txs : P4[t] = P3[t] \cup a
  BY <1>4 DEF Plus
<1> HIDE DEF s4, P4
<1>11. \A t \in Txs : R[t] \subseteq P4[t]
  BY <1>8, <1>10
<1>12. Registered(s4, F, {}, R)
  BY <1>9, <1>11, RegisteredWeaker
<1> QED BY <1>1, <1>9, <1>12

\* An empty mempool, after new or after a restart, satisfies the invariant.
LEMMA EmptySound ==
    ASSUME NEW R \in SUBSET Txs, NEW F, NEW P, NEW v, v = Empty \/ v = [Empty EXCEPT !.retried = R]
    PROVE  Base(v, {}) /\ Registered(v, F, {}, P)
<1>0. Empty \in MempoolStates
  BY DEF Empty, MempoolStates, Statuses, Queues
<1>1. v \in MempoolStates
  BY <1>0 DEF MempoolStates
<1>2. /\ v.status = [t \in Txs |-> "none"] /\ v.ready = [t \in Txs |-> "none"]
      /\ v.blockers = [t \in Txs |-> {}] /\ v.locked = {} /\ v.tombs = {}
  <2>1. /\ Empty.status = [t \in Txs |-> "none"] /\ Empty.ready = [t \in Txs |-> "none"]
        /\ Empty.blockers = [t \in Txs |-> {}] /\ Empty.locked = {} /\ Empty.tombs = {}
    BY DEF Empty
  <2>2. /\ v.status = Empty.status /\ v.ready = Empty.ready /\ v.blockers = Empty.blockers
        /\ v.locked = Empty.locked /\ v.tombs = Empty.tombs
    BY <1>0 DEF MempoolStates
  <2> QED BY <2>1, <2>2
<1>3. Waits(v, {}) /\ Held(v) /\ Buried(v, {}) /\ Registered(v, F, {}, P)
  BY <1>2 DEF Waits, Held, Buried, Registered
<1> QED BY <1>1, <1>3 DEF Base

-----------------------------------------------------------------------------
(* The theorems                                                            *)

\* The winners whose end a transaction deferred by them must have noticed.
Due == [t \in Txs |-> {w \in ended : <<t, w>> \notin overdue}]

IInv == TypeOK /\ Base(mp, {}) /\ Registered(mp, forgotten, {}, Due)

\* The inductive invariant holds initially.
LEMMA InitIInv == Init => IInv
<1> SUFFICES ASSUME Init PROVE IInv
  OBVIOUS
<1>1. Base(mp, {}) /\ Registered(mp, forgotten, {}, Due)
  BY EmptySound DEF Init
<1>2. TypeOK
  BY <1>1, MempoolAssumption DEF TypeOK, Init, Base
<1> QED BY <1>1, <1>2 DEF IInv

\* Every action of the mempool keeps the inductive invariant.
LEMMA NextIInv == IInv /\ [Next]_vars => IInv'
<1> SUFFICES ASSUME IInv, [Next]_vars PROVE IInv'
  OBVIOUS
<1> USE DEF chain, ends
<1>0. /\ Base(mp, {}) /\ Registered(mp, forgotten, {}, Due) /\ mp \in MempoolStates
      /\ included \subseteq Txs /\ certified \subseteq Txs /\ forgotten \subseteq Txs
      /\ ended \subseteq Txs /\ overdue \subseteq Txs \X Txs
      /\ height \in 0..MaxBlocks /\ faults \in 0..MaxFaults
  BY DEF IInv, TypeOK
<1>a. ASSUME Base(mp', {}), Registered(mp', forgotten', {}, Due'),
             included' \subseteq Txs, certified' \subseteq Txs, forgotten' \subseteq Txs,
             ended' \subseteq Txs, overdue' \subseteq Txs \X Txs,
             height' \in 0..MaxBlocks, faults' \in 0..MaxFaults
      PROVE  IInv'
  BY <1>a DEF IInv, TypeOK, Base
<1>b. UNCHANGED ends => Due' = Due
  BY DEF Due
<1>1. ASSUME NEW t \in Txs, AddTransaction(t)
      PROVE  IInv'
  <2>1. /\ mp' = Insert(mp, {t}) /\ {t} \cap (InPool(mp) \cup mp.tombs) = {}
        /\ UNCHANGED <<included, certified, height, forgotten, ends, faults>>
    BY <1>1 DEF AddTransaction
  <2>2. Base(mp', {})
    BY <1>0, <2>1, InsertBase
  <2>3. Registered(mp', forgotten, {}, Due)
    <3>1. Inserted(mp, {t}, mp')
      BY <1>0, <2>1, InsertFields
    <3> QED BY <1>0, <3>1 DEF Registered, Inserted, SameRecords
  <2> QED BY <1>0, <1>a, <1>b, <2>1, <2>2, <2>3
<1>2. ASSUME NEW t \in Txs, ProvisionVerified(t)
      PROVE  IInv'
  <2>1. /\ mp.ready[t] = "others" /\ mp' = OnProvisionVerified(mp, t)
        /\ UNCHANGED <<included, certified, height, forgotten, ends, faults>>
    BY <1>2 DEF ProvisionVerified
  <2>2. Base(mp', {}) /\ Registered(mp', forgotten, {}, Due)
    BY <1>0, <2>1, ProvisionSound
  <2> QED BY <1>0, <1>a, <1>b, <2>1, <2>2
<1>3. ASSUME NEW t \in Txs, Certify(t)
      PROVE  IInv'
  BY <1>0, <1>a, <1>b, <1>3 DEF Certify
<1>4. ASSUME NEW t \in Txs, NEW tag \in Tags, TransactionExecuted(t, tag)
      PROVE  IInv'
  <2>1. /\ mp' = OnTransactionExecuted(mp, t, tag)
        /\ UNCHANGED <<included, certified, height, forgotten, ends, faults>>
    BY <1>4 DEF TransactionExecuted
  <2>2. Base(mp', {}) /\ Registered(mp', forgotten, {}, Due)
    BY <1>0, <2>1, ExecutedSound
  <2> QED BY <1>0, <1>a, <1>b, <2>1, <2>2
<1>5. ASSUME NEW b \in Blocks, NEW pick \in Picks, NEW tag \in Tags,
             BlockCommitted(b, pick, tag)
      PROVE  IInv'
  <2>1. /\ mp' = OnBlockCommitted(mp, b.txs, b.defers, b.certs, b.aborts, pick, tag)
        /\ included' = included \cup b.txs
        /\ height < MaxBlocks /\ height' = height + 1
        /\ ended' = ended \cup b.certs \cup b.aborts
        /\ overdue' = overdue \cup {p \in b.defers : p[2] \in ended}
        /\ UNCHANGED <<certified, forgotten, faults>>
    BY <1>5 DEF BlockCommitted
  <2>2. /\ b.txs \in SUBSET Txs
        /\ b.defers = {} \/ \E p \in Txs \X Txs : b.defers = {p}
        /\ b.certs = {} \/ \E w \in Txs : b.certs = {w}
        /\ b.aborts = {} \/ \E w \in Txs : b.aborts = {w}
    BY DEF Blocks
  <2>3. Base(mp', {}) /\ Registered(mp', forgotten, {}, Due')
    <3> DEFINE P == [t \in Txs |-> {w \in ended : <<t, w>> \notin overdue'}]
    <3>1. \A t \in Txs : P[t] \subseteq Due[t]
      BY <2>1 DEF Due
    <3>2. Registered(mp, forgotten, {}, P)
      <4> HIDE DEF P
      <4> QED BY <1>0, <3>1, RegisteredWeaker
    <3>3. \A q \in b.defers : q[2] \notin P[q[1]]
      <4> SUFFICES ASSUME NEW q \in b.defers PROVE q[2] \notin P[q[1]]
        OBVIOUS
      <4>1. q = <<q[1], q[2]>> /\ q[1] \in Txs
        BY <2>2
      <4> QED BY <2>1, <4>1
    <3>4. \A t \in Txs : Due'[t] \subseteq P[t] \cup b.certs \cup b.aborts
      BY <2>1 DEF Due
    <3> HIDE DEF P
    <3> QED BY <1>0, <2>1, <2>2, <3>2, <3>3, <3>4, BlockSound, ZenonT(60)
  <2>4. /\ included' \subseteq Txs
        /\ ended' \subseteq Txs /\ overdue' \subseteq Txs \X Txs
    BY <1>0, <2>1, <2>2
  <2>5. height' \in 0..MaxBlocks
    <3>1. height \in 0..MaxBlocks /\ height < MaxBlocks /\ height' = height + 1
      BY <1>0, <2>1
    <3>2. MaxBlocks \in Nat
      BY MempoolAssumption
    <3> QED BY <3>1, <3>2
  <2> QED BY <1>0, <1>a, <1>b, <2>1, <2>3, <2>4, <2>5, ZenonT(60)
<1>6. ASSUME NEW o \in Old(mp), CleanupTimer(o)
      PROVE  IInv'
  <2>1. /\ mp' = Cleanup(mp, o) /\ forgotten' = forgotten \cup o.deferredBy
        /\ faults < MaxFaults /\ faults' = faults + 1
        /\ UNCHANGED <<included, certified, height, ends>>
    BY <1>6 DEF CleanupTimer
  <2>2. o.deferredBy \in SUBSET Txs
    BY DEF Old
  <2>3. Base(mp', {}) /\ Registered(mp', forgotten', {}, Due')
    <3>1. Base(mp', {}) /\ Registered(mp', forgotten', {}, Due)
      BY <1>0, <2>1, <2>2, CleanupSound
    <3> QED BY <1>b, <2>1, <3>1
  <2>4. faults' \in 0..MaxFaults
    BY <1>0, <2>1, MempoolAssumption
  <2> QED BY <1>0, <1>a, <1>b, <2>1, <2>2, <2>3, <2>4
<1>7. ASSUME Restart
      PROVE  IInv'
  <2>1. /\ mp' = [Empty EXCEPT !.retried = mp.retried]
        /\ faults < MaxFaults /\ faults' = faults + 1
        /\ UNCHANGED <<included, certified, height, forgotten, ends>>
    BY <1>7 DEF Restart
  <2>2. mp.retried \in SUBSET Txs
    BY <1>0 DEF MempoolStates
  <2>3. Base(mp', {}) /\ Registered(mp', forgotten', {}, Due')
    BY <2>1, <2>2, EmptySound
  <2>4. faults' \in 0..MaxFaults
    BY <1>0, <2>1, MempoolAssumption
  <2> QED BY <1>0, <1>a, <1>b, <2>1, <2>3, <2>4
<1>8. CASE UNCHANGED vars
  BY <1>8 DEF vars, IInv, TypeOK, Base, Waits, Held, Buried, Registered, InPool, Due
<1> QED BY <1>1, <1>2, <1>3, <1>4, <1>5, <1>6, <1>7, <1>8 DEF Next

\* The inductive invariant holds in every reachable state.
LEMMA Invariance == Spec => []IInv
BY InitIInv, NextIInv, PTL DEF Spec

\* The type invariant, for every set of transactions, nodes and bounds.
THEOREM TypeCorrect == Spec => []TypeOK
<1>1. IInv => TypeOK
  BY DEF IInv
<1> QED BY <1>1, Invariance, PTL

\* A pending transaction is ready or waits for a locked node, whatever order
\* blocks, executions, deferrals and cleanups come in.
THEOREM WakeupSafe == Spec => []NoLostWakeup
<1>1. IInv => NoLostWakeup
  BY DEF IInv, NoLostWakeup, Base, Waits, With
<1> QED BY <1>1, Invariance, PTL

\* Every locked node is declared by a transaction still in flight.
THEOREM LocksHeld == Spec => []NoLockLeaked
<1>1. IInv => NoLockLeaked
  BY ZenonT(60) DEF IInv, NoLockLeaked, Base, Held
<1> QED BY <1>1, Invariance, PTL

\* A deferred transaction is registered under a winner that has not ended
\* since the deferral.
THEOREM RetriesKept == Spec => []RetriedOnceWinnerEnds
<1>1. IInv => RetriedOnceWinnerEnds
  BY ZenonT(60) DEF IInv, RetriedOnceWinnerEnds, Registered, With, Due
<1> QED BY <1>1, Invariance, PTL

\* A tombstoned transaction is never ready or pending.
THEOREM TombstonesFinal == Spec => []TombstonedNeverProposed
<1>1. IInv => TombstonedNeverProposed
  <2> SUFFICES ASSUME IInv, NEW t \in mp.tombs
               PROVE  mp.ready[t] = "none" /\ mp.status[t] # "pending"
    BY DEF TombstonedNeverProposed
  <2>1. t \in Txs
    BY DEF IInv, TypeOK, MempoolStates
  <2> QED BY <2>1 DEF IInv, Base, Buried
<1> QED BY <1>1, Invariance, PTL

=============================================================================
