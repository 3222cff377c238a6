--------------------------- MODULE ConsensusProofs --------------------------
(***************************************************************************)
(* Proofs about Consensus, for any number of validators, any distribution  *)
(* of the voting power and any bound on heights and rounds.                *)
(***************************************************************************)
EXTENDS Consensus, SequenceTheorems, TLAPS

-----------------------------------------------------------------------------
(* Blocks and quorums.                                                     *)

\* Child(p, r, c), the block every proposer builds, is a block of the next
\* height whose parent is p.
LEMMA ChildProperties ==
    ASSUME NEW p \in Chain, NEW r \in 0..MaxView, NEW c \in Contents
    PROVE  /\ Child(p, r, c) \in Block
           /\ Height(Child(p, r, c)) = Height(p) + 1
           /\ \A h \in 1..Height(p) :
                 SubSeq(Child(p, r, c), 1, h) = SubSeq(p, 1, h)
<1> DEFINE e == [round |-> r, content |-> c]
           b == Append(p, e)
<1>1. e \in Entry
  BY DEF Entry
<1>2. /\ b \in Seq(Entry)
      /\ b # << >>
      /\ Len(b) = Len(p) + 1
      /\ \A i \in 1..Len(p) : b[i] = p[i]
  <2>1. p \in Seq(Entry)
    BY DEF Chain
  <2> HIDE DEF e
  <2> QED
    BY <1>1, <2>1, AppendProperties
<1>3. ASSUME NEW h \in 1..Len(p)
      PROVE  SubSeq(b, 1, h) = SubSeq(p, 1, h)
  <2>1. /\ Len(p) \in Nat
        /\ \A i \in 1..h : b[i] = p[i]
    BY <1>2, LenProperties DEF Chain
  <2>2. \A i \in 1..h : p[i] \in Entry
    BY <2>1, ElementOfSeq DEF Chain
  <2>3. \A i \in 1..h : b[i] \in Entry
    BY <2>1, <2>2
  <2>4. /\ SubSeq(b, 1, h) \in Seq(Entry)
        /\ Len(SubSeq(b, 1, h)) = h
        /\ \A i \in 1..h : SubSeq(b, 1, h)[i] = b[i]
    BY <2>1, <2>3, SubSeqProperties
  <2>5. /\ SubSeq(p, 1, h) \in Seq(Entry)
        /\ Len(SubSeq(p, 1, h)) = h
        /\ \A i \in 1..h : SubSeq(p, 1, h)[i] = p[i]
    BY <2>1, <2>2, SubSeqProperties
  <2> QED
    BY <2>1, <2>4, <2>5, SeqEqual
<1> QED
  BY <1>2, <1>3 DEF Child, Block, Chain, Genesis, Height

\* The parent of a block is a chain one shorter.
LEMMA ParentProperties ==
    ASSUME NEW b \in Block
    PROVE  /\ Height(b) \in Nat \ {0}
           /\ Parent(b) \in Chain
           /\ Height(Parent(b)) = Height(b) - 1
           /\ Parent(b) # Genesis => Parent(b) \in Block
           /\ RoundOf(b) \in 0..MaxView
           /\ ContentOf(b) \in Contents
<1>1. /\ b \in Seq(Entry)
      /\ Len(b) \in Nat \ {0}
  BY EmptySeq DEF Block, Chain, Genesis
<1>2. \A i \in 1..Len(b) : b[i] \in Entry
  BY <1>1, ElementOfSeq
<1>3. /\ SubSeq(b, 1, Len(b) - 1) \in Seq(Entry)
      /\ Len(SubSeq(b, 1, Len(b) - 1)) = Len(b) - 1
  <2> DEFINE k == Len(b) - 1
  <2>1. k \in Nat /\ \A i \in 1..k : b[i] \in Entry
    BY <1>1, <1>2
  <2> HIDE DEF k
  <2>2. /\ SubSeq(b, 1, k) \in Seq(Entry)
        /\ Len(SubSeq(b, 1, k)) = IF 1 <= k THEN k - 1 + 1 ELSE 0
    BY <2>1, SubSeqProperties
  <2>3. Len(SubSeq(b, 1, k)) = k
    BY <2>1, <2>2
  <2> QED
    BY <2>2, <2>3 DEF k
<1>4. b[Len(b)] \in Entry
  BY <1>1, <1>2
<1> QED
  BY <1>1, <1>3, <1>4
  DEF Parent, Block, Chain, Height, Genesis, RoundOf, ContentOf, Entry

\* More validators have no less voting power.
LEMMA StakeMonotone ==
    ASSUME NEW S \in SUBSET Validators, NEW T \in SUBSET Validators,
           S \subseteq T
    PROVE  Stake[S] \in Nat /\ Stake[T] \in Nat /\ Stake[S] <= Stake[T]
<1> DEFINE R == T \ S
<1>1. S \cup R = T /\ S \cap R = {} /\ R \in SUBSET Validators
  OBVIOUS
<1>2. Stake[S \cup R] + Stake[S \cap R] = Stake[S] + Stake[R]
  BY <1>1, ConsensusAssumption
<1>3. Stake[T] + 0 = Stake[S] + Stake[R]
  BY <1>1, <1>2, ConsensusAssumption
<1>4. Stake[S] \in Nat /\ Stake[T] \in Nat /\ Stake[R] \in Nat
  BY <1>1, ConsensusAssumption
<1> QED
  BY <1>3, <1>4

\* Two sets of validators with a quorum of the voting power have a member in
\* common.
LEMMA QuorumIntersection ==
    ASSUME NEW S \in SUBSET Validators, NEW T \in SUBSET Validators,
           Quorum(S), Quorum(T)
    PROVE  S \cap T # {}
<1>1. \A A \in SUBSET Validators : Stake[A] \in Nat
  BY ConsensusAssumption
<1>2. \A A \in SUBSET Validators : Stake[A] <= Stake[Validators]
  BY StakeMonotone
<1>3. Stake[S \cup T] + Stake[S \cap T] = Stake[S] + Stake[T]
  BY ConsensusAssumption
<1>4. Stake[S] * 3 > Stake[Validators] * 2 /\ Stake[T] * 3 > Stake[Validators] * 2
  BY DEF Quorum
<1>5. S \cup T \in SUBSET Validators /\ S \cap T \in SUBSET Validators
  OBVIOUS
<1> HIDE DEF Validators
<1>6. Stake[S \cap T] > 0
  <2> DEFINE s == Stake[S]  t == Stake[T]  u == Stake[S \cup T]
             i == Stake[S \cap T]  w == Stake[Validators]
  <2>1. s \in Nat /\ t \in Nat /\ u \in Nat /\ i \in Nat /\ w \in Nat
    BY <1>1, <1>5
  <2>2. u <= w /\ u + i = s + t /\ s * 3 > w * 2 /\ t * 3 > w * 2
    BY <1>2, <1>3, <1>4, <1>5
  <2> HIDE DEF s, t, u, i, w
  <2>3. i > 0
    BY <2>1, <2>2
  <2> QED
    BY <2>3 DEF i
<1> QED
  BY <1>6, ConsensusAssumption

-----------------------------------------------------------------------------
(* Type correctness: one lemma for each step that the handlers share.      *)

\* Adopting a certificate keeps the type: the view takes a round in bounds.
LEMMA AdoptQcType ==
    ASSUME NEW n \in NodeState, NEW qc \in Block
    PROVE  AdoptQc(n, qc) \in NodeState
<1>1. RoundOf(qc) \in 0..MaxView /\ n.view \in 0..MaxView
  BY ParentProperties DEF NodeState
<1>2. Larger(n.view, RoundOf(qc)) \in 0..MaxView
  BY <1>1 DEF Larger
<1>3. qc \in Chain
  BY DEF Block
<1> QED
  BY <1>2, <1>3 DEF AdoptQc, UnlockForQc, NodeState

\* create_vote keeps the type.
LEMMA CreateVoteType ==
    ASSUME NEW n \in NodeState, NEW b \in Block
    PROVE  CreateVote(n, b) \in NodeState
BY DEF CreateVote, NodeState

\* Broadcasting and voting for an own block keeps the type.
LEMMA AnnounceType ==
    ASSUME NEW n \in NodeState, NEW b \in Block
    PROVE  Announce(n, b) \in NodeState
<1>1. [n EXCEPT !.known    = @ \cup {b},
                !.proposed = @ \cup {b}] \in NodeState
  BY DEF NodeState
<1> QED
  BY <1>1, CreateVoteType DEF Announce

\* try_vote_on_block keeps the type, whether it votes, waits or refuses.
LEMMA TryVoteType ==
    ASSUME NEW n \in NodeState, NEW b \in Block
    PROVE  TryVoteOnBlock(n, b) \in NodeState
<1>1. [n EXCEPT !.rootChecks = @ \cup {b}] \in NodeState
  BY DEF NodeState
<1> QED
  BY <1>1, CreateVoteType DEF TryVoteOnBlock

\* trigger_qc_verification_or_vote keeps the type.
LEMMA TriggerType ==
    ASSUME NEW n \in NodeState, NEW b \in Block
    PROVE  TriggerQcVerificationOrVote(n, b) \in NodeState
<1>1. [n EXCEPT !.qcChecks = @ \cup {b}] \in NodeState
  BY DEF NodeState
<1> QED
  BY <1>1, TryVoteType DEF TriggerQcVerificationOrVote

\* There is always a block to build on, and a height to build.
LEMMA TipType ==
    ASSUME NEW n \in NodeState
    PROVE  Tip(n) \in Chain /\ NextHeight(n) \in Nat
<1>1. n.latestQc \in Chain /\ n.log \in Seq(Block)
  BY DEF NodeState
<1>2. ASSUME n.log # << >>
      PROVE  n.log[Len(n.log)] \in Chain
  <2>1. Len(n.log) \in Nat \ {0}
    BY <1>1, <1>2, EmptySeq
  <2>2. n.log[Len(n.log)] \in Block
    BY <1>1, <2>1, ElementOfSeq
  <2> QED
    BY <2>2 DEF Block
<1>3. Len(n.latestQc) \in Nat /\ Len(n.log) \in Nat
  BY <1>1, LenProperties DEF Chain
<1> QED
  BY <1>1, <1>2, <1>3 DEF Tip, NextHeight, Height, CommittedHeight

\* A proposal, sync block or build, keeps the type.
LEMMA ProposeType ==
    ASSUME NEW n \in NodeState, NEW c \in Contents
    PROVE  Propose(n, c) \in NodeState
<1>1. "sync" \in Contents /\ n.view \in 0..MaxView /\ n.view \in Nat
  BY ConsensusAssumption DEF Contents, NodeState
<1>2. Child(Tip(n), n.view, "sync") \in Block
  BY <1>1, TipType, ChildProperties
<1>3. Child(Tip(n), n.view, c) \in Block
  BY <1>1, TipType, ChildProperties
<1>4. <<NextHeight(n), n.view>> \in Nat \X Nat
  BY <1>1, TipType
<1>5. [n EXCEPT !.proposal = <<NextHeight(n), n.view>>,
                !.builds   = @ \cup {Child(Tip(n), n.view, c)}] \in NodeState
  BY <1>3, <1>4 DEF NodeState
<1> QED
  BY <1>2, <1>5, AnnounceType DEF Propose

\* What the log looks like after a commit: the old entries, the block, and
\* buffered blocks of the heights after it.
LEMMA CommitLog ==
    ASSUME NEW n \in NodeState, NEW b \in Block,
           NEW k \in Height(b)..MaxHeight, DrainsTo(n, Height(b), k),
           Height(b) = CommittedHeight(n) + 1
    PROVE  /\ Commit(n, b, k).log \in Seq(Block)
           /\ Len(Commit(n, b, k).log) = k
           /\ \A h \in 1..k :
                 \/ /\ h \in 1..Len(n.log)
                    /\ Commit(n, b, k).log[h] = n.log[h]
                 \/ /\ h = Height(b)
                    /\ Commit(n, b, k).log[h] = b
                 \/ /\ Commit(n, b, k).log[h] \in n.waiting
                    /\ Height(Commit(n, b, k).log[h]) = h
<1> DEFINE m == k - Height(b)
           buf == [i \in 1..m |->
                     CHOOSE x \in n.waiting : Height(x) = Height(b) + i]
           front == Append(n.log, b)
<1>1. /\ n.log \in Seq(Block)
      /\ n.waiting \in SUBSET Block
      /\ Len(n.log) \in Nat
  BY LenProperties DEF NodeState
<1>2. /\ Height(b) = Len(n.log) + 1
      /\ Height(b) \in Nat /\ k \in Nat /\ m \in Nat
      /\ k = Len(n.log) + 1 + m
  <2>1. Height(b) = Len(n.log) + 1
    BY DEF CommittedHeight
  <2>2. Height(b) \in Nat
    BY <1>1, <2>1
  <2>3. k \in Nat /\ k >= Height(b)
    BY <2>2, ConsensusAssumption
  <2> QED
    BY <1>1, <2>1, <2>2, <2>3
<1> HIDE DEF m
<1>3. \A i \in 1..m : buf[i] \in n.waiting /\ Height(buf[i]) = Height(b) + i
  <2> TAKE i \in 1..m
  <2>1. Height(b) + i \in Height(b) + 1..k
    BY <1>1, <1>2
  <2>2. \E x \in n.waiting : Height(x) = Height(b) + i
    BY <2>1 DEF DrainsTo
  <2> QED
    BY <2>2
<1>4. buf \in Seq(Block) /\ Len(buf) = m
  <2>1. buf \in [1..m -> Block]
    BY <1>1, <1>3
  <2> HIDE DEF buf
  <2>2. buf \in Seq(Block)
    BY <1>2, <2>1, SeqDef
  <2>3. DOMAIN buf = 1..Len(buf) /\ Len(buf) \in Nat
    BY <2>2, LenProperties
  <2>4. 1..Len(buf) = 1..m
    BY <2>1, <2>3
  <2>5. Len(buf) = m
    <3> DEFINE l == Len(buf)
    <3>1. l \in Nat /\ 1..l = 1..m
      BY <2>3, <2>4
    <3> HIDE DEF l
    <3>2. l = m
      BY <1>2, <3>1
    <3> QED
      BY <3>2 DEF l
  <2> QED
    BY <2>2, <2>5
<1>5. /\ front \in Seq(Block)
      /\ Len(front) = Len(n.log) + 1
      /\ \A i \in 1..Len(n.log) : front[i] = n.log[i]
      /\ front[Len(n.log) + 1] = b
  BY <1>1, AppendProperties
<1> HIDE DEF buf, front
<1>6. /\ front \o buf \in Seq(Block)
      /\ Len(front \o buf) = Len(front) + Len(buf)
      /\ \A i \in 1..Len(front) + Len(buf) : (front \o buf)[i] =
            IF i <= Len(front) THEN front[i] ELSE buf[i - Len(front)]
  BY <1>4, <1>5, ConcatProperties
<1>7. Commit(n, b, k).log = front \o buf
  BY DEF Commit, front, buf, m, NodeState
<1>8. Len(front) + Len(buf) = k
  BY <1>1, <1>2, <1>4, <1>5
<1>a. /\ Len(front) = Len(n.log) + 1 /\ Height(b) = Len(n.log) + 1
      /\ k = Len(n.log) + 1 + m /\ Len(n.log) \in Nat /\ m \in Nat
  BY <1>1, <1>2, <1>5
<1>9. ASSUME NEW h \in 1..k
      PROVE  \/ /\ h \in 1..Len(n.log)
                /\ (front \o buf)[h] = n.log[h]
             \/ /\ h = Height(b)
                /\ (front \o buf)[h] = b
             \/ /\ (front \o buf)[h] \in n.waiting
                /\ Height((front \o buf)[h]) = h
  <2>0. h \in 1..Len(front) + Len(buf)
    BY <1>8
  <2>1. CASE h <= Len(n.log)
    <3>1. h <= Len(front) /\ h \in 1..Len(n.log)
      BY <2>1, <1>a
    <3>2. (front \o buf)[h] = front[h]
      BY <2>0, <3>1, <1>6
    <3> QED
      BY <3>1, <3>2, <1>5
  <2>2. CASE h = Len(n.log) + 1
    <3>1. h <= Len(front) /\ h = Height(b)
      BY <2>2, <1>a
    <3>2. (front \o buf)[h] = front[h]
      BY <2>0, <3>1, <1>6
    <3> QED
      BY <2>2, <3>1, <3>2, <1>5
  <2>3. CASE h > Len(n.log) + 1
    <3>1. h - Len(front) \in 1..m /\ h = Height(b) + (h - Len(front))
      BY <2>3, <1>a
    <3>2. (front \o buf)[h] = buf[h - Len(front)]
      <4>1. ~(h <= Len(front))
        BY <2>3, <1>a
      <4> QED
        BY <2>0, <4>1, <1>6
    <3> QED
      BY <3>1, <3>2, <1>3
  <2>4. h <= Len(n.log) \/ h = Len(n.log) + 1 \/ h > Len(n.log) + 1
    BY <1>a
  <2> QED
    BY <2>1, <2>2, <2>3, <2>4
<1> QED
  BY <1>6, <1>7, <1>8, <1>9

\* A commit with the buffered ones behind it keeps the type.
LEMMA CommitType ==
    ASSUME NEW n \in NodeState, NEW b \in Block,
           NEW k \in Height(b)..MaxHeight, DrainsTo(n, Height(b), k),
           Height(b) = CommittedHeight(n) + 1
    PROVE  Commit(n, b, k) \in NodeState
<1> DEFINE Above(S) == {x \in S : Height(x) > k}
           log  == Append(n.log, b)
                      \o [i \in 1..k - Height(b) |->
                            CHOOSE x \in n.waiting : Height(x) = Height(b) + i]
           qcOk == {x \in n.qcOk : Height(x) > k - 2}
           flag == IF n.target \in 1..k THEN FALSE ELSE n.syncing
           goal == IF k >= n.target THEN 0 ELSE n.target
<1>1. Commit(n, b, k).log = log
  BY DEF Commit, NodeState
<1>2. log \in Seq(Block)
  BY <1>1, CommitLog
<1>3. \A S \in SUBSET Block : Above(S) \in SUBSET Block
  OBVIOUS
<1>4. qcOk \in SUBSET Chain /\ flag \in BOOLEAN /\ goal \in Nat
  BY DEF NodeState
<1>5. Commit(n, b, k) =
        [n EXCEPT !.log = log, !.known = Above(@), !.locks = Above(@),
                  !.formed = Above(@), !.qcChecks = Above(@), !.rootChecks = Above(@),
                  !.qcOk = qcOk, !.waiting = Above(@), !.syncing = flag, !.target = goal]
  BY Zenon DEF Commit
<1>6. /\ Above(n.known) \in SUBSET Block /\ Above(n.locks) \in SUBSET Block
      /\ Above(n.formed) \in SUBSET Block /\ Above(n.qcChecks) \in SUBSET Block
      /\ Above(n.rootChecks) \in SUBSET Block /\ Above(n.waiting) \in SUBSET Block
  BY <1>3 DEF NodeState
<1> HIDE DEF Above, log, qcOk, flag, goal
<1>7. [n EXCEPT !.log = log, !.known = Above(@), !.locks = Above(@),
                !.formed = Above(@), !.qcChecks = Above(@), !.rootChecks = Above(@),
                !.qcOk = qcOk, !.waiting = Above(@), !.syncing = flag, !.target = goal]
        \in NodeState
  BY <1>2, <1>4, <1>6 DEF NodeState
<1> QED
  BY <1>5, <1>7, Zenon

\* Handling the parent certificate of a header keeps the type.
LEMMA HeaderQcType ==
    ASSUME NEW n \in NodeState, NEW b \in Block
    PROVE  HeaderQc(n, b) \in NodeState
<1>1. ASSUME Parent(b) # Genesis
      PROVE  /\ [n EXCEPT !.syncing = TRUE] \in NodeState
             /\ AdoptQc(n, Parent(b)) \in NodeState
  <2>1. Parent(b) \in Block /\ Height(Parent(b)) \in Nat
    BY <1>1, ParentProperties
  <2> QED
    BY <2>1, AdoptQcType DEF NodeState
<1> QED
  BY <1>1 DEF HeaderQc

\* So does what else on_block_header does before it validates the header.
LEMMA HeaderSeenType ==
    ASSUME NEW n \in NodeState, NEW b \in Block
    PROVE  HeaderSeen(n, b) \in NodeState
<1> DEFINE g == HeaderQc(n, b)
<1>1. g \in NodeState
  BY HeaderQcType
<1> HIDE DEF g
<1>2. Larger(g.view, RoundOf(b)) \in 0..MaxView
  BY <1>1, ParentProperties DEF Larger, NodeState
<1>3. [g EXCEPT !.view = Larger(@, RoundOf(b))] \in NodeState
  BY <1>1, <1>2 DEF NodeState
<1> QED
  BY <1>3 DEF HeaderSeen, g

\* The sync manager's target is a height.
LEMMA StartSyncType ==
    ASSUME NEW n \in NodeState, NEW b \in Block, NEW started
    PROVE  StartSync(n, b, started) \in NodeState
<1>1. Height(Parent(b)) \in Nat
  BY ParentProperties
<1> QED
  BY <1>1 DEF StartSync, NodeState

\* on_qc_formed keeps the type.
LEMMA QcFormedType ==
    ASSUME NEW n \in NodeState, NEW b \in Block
    PROVE  QcFormed(n, b) \in NodeState
<1> DEFINE a == AdoptQc(n, b)
           m == [a EXCEPT !.formed = @ \cup {b}]
<1>1. a \in NodeState
  BY AdoptQcType
<1> HIDE DEF a
<1>2. m \in NodeState
  BY <1>1 DEF NodeState
<1> HIDE DEF m
<1>3. ASSUME Parent(b) # Genesis
      PROVE  [m EXCEPT !.ready = @ \cup {Parent(b)}] \in NodeState
  BY <1>2, <1>3, ParentProperties DEF NodeState
<1> QED
  BY <1>2, <1>3 DEF QcFormed, m, a

\* What was proposed are blocks.
LEMMA HeadersType == TypeOK => Headers \subseteq Block
BY DEF TypeOK, Headers, NodeState

\* Every handler keeps the type of the state it works on.
LEMMA HandlersKeepType == TypeOK /\ [Next]_node => TypeOK'
<1> SUFFICES ASSUME TypeOK, [Next]_node
             PROVE  TypeOK'
  OBVIOUS
<1> USE DEF TypeOK
<1>0. CASE UNCHANGED node
  BY <1>0
<1>1. ASSUME NEW v \in Validators, NEW m \in NodeState,
             node' = [node EXCEPT ![v] = m]
      PROVE  TypeOK'
  BY <1>1
<1>2. ASSUME NEW v \in Validators, OnRoundTimeout(v)
      PROVE  TypeOK'
  <2> DEFINE h == NextHeight(node[v])
             r == node[v].view + 1
             n == [node[v] EXCEPT !.view  = r,
                                  !.locks = {b \in @ : Height(b) # h}]
             f == Child(Tip(n), r, "fallback")
  <2>1. node[v] \in NodeState /\ r \in 0..MaxView
    BY <1>2, ConsensusAssumption DEF OnRoundTimeout, NodeState
  <2>2. n \in NodeState
    BY <2>1 DEF NodeState
  <2>3. "fallback" \in Contents
    BY DEF Contents
  <2> HIDE DEF n, r
  <2>4. f \in Block
    BY <2>1, <2>2, <2>3, TipType, ChildProperties
  <2>5. Announce(n, f) \in NodeState
    BY <2>2, <2>4, AnnounceType
  <2> HIDE DEF f
  <2>6. \/ node' = [node EXCEPT ![v] = Announce(n, f)]
        \/ node' = [node EXCEPT ![v] = n]
    BY <1>2 DEF OnRoundTimeout, n, f, r
  <2> QED
    BY <2>2, <2>5, <2>6, <1>1
<1>4. ASSUME NEW v \in Validators, NEW b \in Headers, NEW timely,
             OnBlockHeader(v, b, timely)
      PROVE  TypeOK'
  <2> DEFINE n == HeaderSeen(node[v], b)
             k == [n EXCEPT !.known = @ \cup {b}]
             m == StartSync(k, b, n.syncing /\ ~node[v].syncing)
  <2>1. b \in Block /\ node[v] \in NodeState
    BY HeadersType
  <2>2. n \in NodeState
    BY <2>1, HeaderSeenType
  <2>3. \/ node' = [node EXCEPT ![v] = TriggerQcVerificationOrVote(m, b)]
        \/ node' = [node EXCEPT ![v] = n]
    BY <1>4 DEF OnBlockHeader
  <2> HIDE DEF n
  <2>4. k \in NodeState
    BY <2>1, <2>2 DEF NodeState
  <2> HIDE DEF k
  <2>5. m \in NodeState
    BY <2>1, <2>4, StartSyncType
  <2> HIDE DEF m
  <2>6. TriggerQcVerificationOrVote(m, b) \in NodeState
    BY <2>1, <2>5, TriggerType
  <2> QED
    BY <2>2, <2>3, <2>6, <1>1
<1>3. ASSUME NEW v \in Validators, Handle(v)
      PROVE  TypeOK'
  <2>0. node[v] \in NodeState
    OBVIOUS
  <2>1. ASSUME NEW c \in Payloads \cup {"empty"}, OnProposalTimer(v, c)
        PROVE  TypeOK'
    <3>1. Propose(node[v], c) \in NodeState
      BY <2>0, ProposeType DEF Contents
    <3> QED
      BY <2>1, <3>1, <1>1 DEF OnProposalTimer
  <2>2. ASSUME NEW b \in node[v].builds, OnProposalBuilt(v, b)
        PROVE  TypeOK'
    <3> DEFINE n == [node[v] EXCEPT !.builds = @ \ {b}]
               m == [n EXCEPT !.proposal = NoProposal]
    <3>1. n \in NodeState /\ m \in NodeState /\ b \in Block
      BY <2>0 DEF NodeState
    <3>2. Announce(m, b) \in NodeState
      BY <3>1, AnnounceType
    <3>3. \/ node' = [node EXCEPT ![v] = Announce(m, b)]
          \/ node' = [node EXCEPT ![v] = n]
      BY <2>2 DEF OnProposalBuilt
    <3> HIDE DEF n, m
    <3> QED
      BY <3>1, <3>2, <3>3, <1>1
  <2>3. ASSUME NEW b \in Headers, OnBlockHeader(v, b, TRUE)
        PROVE  TypeOK'
    BY <2>3, <1>4
  <2>4. ASSUME NEW b \in node[v].qcChecks, OnQcSignatureVerified(v, b)
        PROVE  TypeOK'
    <3> DEFINE n == [node[v] EXCEPT !.qcChecks = @ \ {b},
                                    !.qcOk     = @ \cup {Parent(b)}]
    <3>1. b \in Block
      BY <2>0 DEF NodeState
    <3>2. n \in NodeState
      BY <2>0, <3>1, ParentProperties DEF NodeState
    <3>3. node' = [node EXCEPT ![v] = TryVoteOnBlock(n, b)]
      BY <2>4 DEF OnQcSignatureVerified
    <3> HIDE DEF n
    <3> QED
      BY <3>1, <3>2, <3>3, TryVoteType, <1>1
  <2>5. ASSUME NEW b \in node[v].rootChecks, OnTransactionRootVerified(v, b)
        PROVE  TypeOK'
    <3> DEFINE n == [node[v] EXCEPT !.rootChecks = @ \ {b}]
    <3>1. b \in Block /\ n \in NodeState
      BY <2>0 DEF NodeState
    <3>2. node' = [node EXCEPT ![v] = CreateVote(n, b)]
      BY <2>5 DEF OnTransactionRootVerified
    <3> HIDE DEF n
    <3> QED
      BY <3>1, <3>2, CreateVoteType, <1>1
  <2>6. ASSUME NEW b \in node[v].known, OnQcFormed(v, b)
        PROVE  TypeOK'
    <3>1. b \in Block
      BY <2>0 DEF NodeState
    <3>2. QcFormed(node[v], b) \in NodeState
      BY <2>0, <3>1, QcFormedType
    <3> QED
      BY <2>6, <3>2, <1>1 DEF OnQcFormed
  <2>7. ASSUME NEW b \in node[v].known, NEW c \in Payloads \cup {"empty"},
               OnQcFormedAndPropose(v, b, c)
        PROVE  TypeOK'
    <3>1. b \in Block /\ c \in Contents
      BY <2>0 DEF NodeState, Contents
    <3>2. Propose(QcFormed(node[v], b), c) \in NodeState
      BY <2>0, <3>1, QcFormedType, ProposeType
    <3> QED
      BY <2>7, <3>2, <1>1 DEF OnQcFormedAndPropose
  <2>8. ASSUME NEW b \in node[v].ready, OnBlockReadyToCommit(v, b)
        PROVE  TypeOK'
    <3> DEFINE n == [node[v] EXCEPT !.ready = @ \ {b}]
               w == [n EXCEPT !.waiting =
                       {x \in @ : Height(x) # Height(b)} \cup {b}]
               next == CommittedHeight(n) + 1
    <3>1. b \in Block /\ n \in NodeState /\ w \in NodeState
      BY <2>0 DEF NodeState
    <3>2. \/ node' = [node EXCEPT ![v] = n]
          \/ node' = [node EXCEPT ![v] = w]
          \/ /\ Height(b) = next
             /\ \E k \in next..MaxHeight :
                   /\ DrainsTo(n, next, k)
                   /\ node' = [node EXCEPT ![v] = Commit(n, b, k)]
      BY <2>8 DEF OnBlockReadyToCommit
    <3> HIDE DEF n, w
    <3>3. ASSUME Height(b) = next, NEW k \in next..MaxHeight,
                 DrainsTo(n, next, k)
          PROVE  Commit(n, b, k) \in NodeState
      BY <3>1, <3>3, CommitType
    <3> QED
      BY <3>1, <3>2, <3>3, <1>1
  <2>9. ASSUME NEW b \in Headers, OnSyncedBlock(v, b)
        PROVE  TypeOK'
    <3> DEFINE n == AdoptQc(node[v], b)
    <3>1. b \in Block /\ n \in NodeState
      BY <2>0, HeadersType, AdoptQcType
    <3>2. n.log = node[v].log /\ n.waiting = node[v].waiting
      BY <2>0 DEF AdoptQc, UnlockForQc, NodeState
    <3> HIDE DEF n
    <3>3. PICK k \in Height(b)..MaxHeight :
             /\ DrainsTo(node[v], Height(b), k)
             /\ node' = [node EXCEPT ![v] = Commit(n, b, k)]
      BY <2>9 DEF OnSyncedBlock, n
    <3>4. DrainsTo(n, Height(b), k) /\ Height(b) = CommittedHeight(n) + 1
      BY <2>9, <3>2, <3>3 DEF OnSyncedBlock, DrainsTo, CommittedHeight
    <3>5. Commit(n, b, k) \in NodeState
      BY <3>1, <3>4, CommitType
    <3> QED
      BY <3>3, <3>5, <1>1
  <2> QED
    BY <1>3, <2>1, <2>2, <2>3, <2>4, <2>5, <2>6, <2>7, <2>8, <2>9 DEF Handle
<1> QED
  BY <1>0, <1>2, <1>3, <1>4 DEF Next, OnUntimelyHeader

\* Type correctness of the whole protocol: TypeOK in every reachable state.
THEOREM TypeCorrect == Spec => []TypeOK
<1>1. Init => TypeOK
  <2>1. InitNode \in NodeState
    BY ConsensusAssumption, EmptySeq
    DEF InitNode, NodeState, Genesis, Chain, NoProposal
  <2> QED
    BY <2>1 DEF Init, TypeOK
<1> QED
  BY <1>1, HandlersKeepType, PTL DEF Spec

-----------------------------------------------------------------------------
(* Certified chains.                                                       *)

\* A state that is sound stays so when more is proposed and certified.
LEMMA SoundMonotone ==
    ASSUME NEW n, NEW H, NEW C, NEW HH, NEW CC,
           H \subseteq HH, C \subseteq CC, Sound(n, H, C)
    PROVE  Sound(n, HH, CC)
BY DEF Sound, AncestorsIn

\* The ancestors of a child of a certified block, or of genesis.
LEMMA ChildAncestors ==
    ASSUME NEW C, \A b \in C : AncestorsIn(b, C),
           NEW p \in Chain, p \in C \cup {Genesis},
           NEW r \in 0..MaxView, NEW c \in Contents
    PROVE  AncestorsIn(Child(p, r, c), C)
<1> DEFINE b == Child(p, r, c)
<1>1. /\ Height(b) = Height(p) + 1
      /\ \A h \in 1..Height(p) : SubSeq(b, 1, h) = SubSeq(p, 1, h)
  BY ChildProperties
<1>2. Height(p) \in Nat
  BY LenProperties DEF Chain, Height
<1>3. \A h \in 1..Height(p) : SubSeq(p, 1, h) \in C
  <2>1. CASE p = Genesis
    BY <2>1, EmptySeq DEF Genesis, Height
  <2>2. CASE p \in C
    <3>1. \A h \in 1..Height(p) - 1 : SubSeq(p, 1, h) \in C
      BY <2>2 DEF AncestorsIn
    <3>2. SubSeq(p, 1, Height(p)) = p
      BY SubSeqFull DEF Chain, Height
    <3>3. \A h \in 1..Height(p) : h = Height(p) \/ h \in 1..Height(p) - 1
      BY <1>2
    <3> QED
      BY <2>2, <3>1, <3>2, <3>3
  <2> QED
    BY <2>1, <2>2
<1> HIDE DEF b
<1>4. Height(b) - 1 = Height(p)
  BY <1>1, <1>2
<1>5. \A h \in 1..Height(b) - 1 : SubSeq(b, 1, h) \in C
  BY <1>1, <1>3, <1>4
<1> QED
  BY <1>5 DEF AncestorsIn, b

\* The parent of a block with certified ancestors is certified or genesis.
LEMMA ParentCertified ==
    ASSUME NEW C, NEW b \in Block, AncestorsIn(b, C)
    PROVE  Parent(b) \in C \cup {Genesis}
<1>1. Height(b) \in Nat \ {0}
  BY ParentProperties
<1>2. CASE Height(b) = 1
  <2>1. Len(b) - 1 < 1 /\ Len(b) - 1 \in Int
    BY <1>2 DEF Height
  <2>2. Parent(b) = << >>
    BY <2>1, SubSeqEmpty DEF Parent
  <2> QED
    BY <2>2 DEF Genesis
<1>3. CASE Height(b) > 1
  <2>1. Height(b) - 1 \in 1..Height(b) - 1
    BY <1>1, <1>3
  <2> QED
    BY <2>1 DEF AncestorsIn, Parent, Height
<1> QED
  BY <1>1, <1>2, <1>3

\* What a handler may do to what was sent: only add.
Grows(n, m) == n.proposed \subseteq m.proposed /\ n.signed \subseteq m.signed

\* Adopting a certificate of a certified block keeps a state sound.
LEMMA AdoptQcSound ==
    ASSUME NEW n \in NodeState, NEW qc, NEW H, NEW C
    PROVE  /\ Grows(n, AdoptQc(n, qc))
           /\ Sound(n, H, C) /\ qc \in C => Sound(AdoptQc(n, qc), H, C)
BY DEF AdoptQc, UnlockForQc, NodeState, Sound, Grows

\* A vote for a proposed block keeps a state sound.
LEMMA CreateVoteSound ==
    ASSUME NEW n \in NodeState, NEW b, NEW H, NEW C
    PROVE  /\ Grows(n, CreateVote(n, b))
           /\ Sound(n, H, C) /\ b \in H => Sound(CreateVote(n, b), H, C)
BY DEF CreateVote, NodeState, Sound, Grows

\* Announcing a block with certified ancestors keeps a state sound.
LEMMA AnnounceSound ==
    ASSUME NEW n \in NodeState, NEW b \in Block, NEW H, NEW C
    PROVE  /\ Grows(n, Announce(n, b))
           /\ b \in Announce(n, b).proposed
           /\ Sound(n, H, C) /\ b \in H /\ AncestorsIn(b, C)
                => Sound(Announce(n, b), H, C)
<1> DEFINE m == [n EXCEPT !.known    = @ \cup {b},
                          !.proposed = @ \cup {b}]
<1>1. m \in NodeState
  BY DEF NodeState
<1>2. Grows(n, m) /\ b \in m.proposed
  BY DEF NodeState, Grows
<1>3. ASSUME Sound(n, H, C), b \in H, AncestorsIn(b, C)
      PROVE  Sound(m, H, C)
  BY <1>3 DEF NodeState, Sound
<1> HIDE DEF m
<1>4. /\ Grows(m, CreateVote(m, b))
      /\ Sound(m, H, C) /\ b \in H => Sound(CreateVote(m, b), H, C)
  BY <1>1, CreateVoteSound
<1>5. Announce(n, b) = CreateVote(m, b)
  BY DEF Announce, m
<1> QED
  BY <1>2, <1>3, <1>4, <1>5 DEF Grows

\* try_vote_on_block, given a proposed block, keeps a state sound.
LEMMA TryVoteSound ==
    ASSUME NEW n \in NodeState, NEW b \in Block, NEW H, NEW C
    PROVE  /\ Grows(n, TryVoteOnBlock(n, b))
           /\ Sound(n, H, C) /\ b \in H => Sound(TryVoteOnBlock(n, b), H, C)
<1> DEFINE m == [n EXCEPT !.rootChecks = @ \cup {b}]
<1>1. Grows(n, m) /\ Grows(n, n)
  BY DEF NodeState, Grows
<1>2. ASSUME Sound(n, H, C), b \in H
      PROVE  Sound(m, H, C)
  BY <1>2 DEF NodeState, Sound
<1> HIDE DEF m
<1>3. TryVoteOnBlock(n, b) \in {n, m, CreateVote(n, b)}
  BY DEF TryVoteOnBlock, m
<1> QED
  BY <1>1, <1>2, <1>3, CreateVoteSound

\* trigger_qc_verification_or_vote does, too.
LEMMA TriggerSound ==
    ASSUME NEW n \in NodeState, NEW b \in Block, NEW H, NEW C
    PROVE  /\ Grows(n, TriggerQcVerificationOrVote(n, b))
           /\ Sound(n, H, C) /\ b \in H
                => Sound(TriggerQcVerificationOrVote(n, b), H, C)
<1> DEFINE m == [n EXCEPT !.qcChecks = @ \cup {b}]
<1>1. Grows(n, m)
  BY DEF NodeState, Grows
<1>2. ASSUME Sound(n, H, C), b \in H
      PROVE  Sound(m, H, C)
  BY <1>2 DEF NodeState, Sound
<1> HIDE DEF m
<1>3. TriggerQcVerificationOrVote(n, b) \in {m, TryVoteOnBlock(n, b)}
  BY DEF TriggerQcVerificationOrVote, m
<1> QED
  BY <1>1, <1>2, <1>3, TryVoteSound

\* The block to build on, and every ancestor of it, is certified.
LEMMA TipSound ==
    ASSUME NEW n \in NodeState, NEW H, NEW C, Sound(n, H, C)
    PROVE  Tip(n) \in C \cup {Genesis}
<1>1. n.log \in Seq(Block)
  BY DEF NodeState
<1>2. ASSUME n.log # << >>
      PROVE  n.log[Len(n.log)] \in C
  <2>1. Len(n.log) \in 1..Len(n.log)
    BY <1>1, <1>2, EmptySeq
  <2> QED
    BY <2>1 DEF Sound
<1> QED
  BY <1>2 DEF Tip, Sound

\* Propose, on the latest certificate: what it sends has certified ancestors.
LEMMA ProposeSound ==
    ASSUME NEW n \in NodeState, NEW c \in Contents, NEW H, NEW C
    PROVE  /\ Grows(n, Propose(n, c))
           /\ /\ Sound(n, H, C)
              /\ Propose(n, c).proposed \subseteq H
              /\ \A b \in C : AncestorsIn(b, C)
              => Sound(Propose(n, c), H, C)
<1> DEFINE s == Child(Tip(n), n.view, "sync")
           b == Child(Tip(n), n.view, c)
           m == [n EXCEPT !.proposal = <<NextHeight(n), n.view>>,
                          !.builds   = @ \cup {b}]
<1>1. "sync" \in Contents /\ n.view \in 0..MaxView /\ Tip(n) \in Chain
  BY TipType DEF Contents, NodeState
<1>2. s \in Block
  BY <1>1, ChildProperties
<1>3. Propose(n, c) \in {Announce(n, s), m}
  BY DEF Propose
<1>4. Grows(n, m) /\ Grows(n, Announce(n, s))
  BY <1>2, AnnounceSound DEF NodeState, Grows
<1>5. ASSUME Sound(n, H, C), \A x \in C : AncestorsIn(x, C)
      PROVE  AncestorsIn(s, C) /\ AncestorsIn(b, C)
  BY <1>1, <1>5, TipSound, ChildAncestors
<1>6. ASSUME Sound(n, H, C), \A x \in C : AncestorsIn(x, C)
      PROVE  Sound(m, H, C)
  <2> HIDE DEF b
  <2> QED
    BY <1>5, <1>6 DEF NodeState, Sound
<1>7. ASSUME Sound(n, H, C), \A x \in C : AncestorsIn(x, C),
             Announce(n, s).proposed \subseteq H
      PROVE  Sound(Announce(n, s), H, C)
  <2>1. s \in H
    BY <1>2, <1>7, AnnounceSound
  <2> QED
    BY <1>2, <1>5, <1>7, <2>1, AnnounceSound
<1> HIDE DEF s, b, m
<1> QED
  BY <1>3, <1>4, <1>6, <1>7

\* Committing a certified block, and with it buffered ones, keeps a state
\* sound.
LEMMA CommitSound ==
    ASSUME NEW n \in NodeState, NEW b \in Block,
           NEW k \in Height(b)..MaxHeight, DrainsTo(n, Height(b), k),
           Height(b) = CommittedHeight(n) + 1, NEW H, NEW C
    PROVE  /\ Grows(n, Commit(n, b, k))
           /\ Sound(n, H, C) /\ b \in C => Sound(Commit(n, b, k), H, C)
<1> DEFINE m == Commit(n, b, k)
<1>1. Grows(n, m)
  BY DEF Commit, NodeState, Grows
<1>2. ASSUME Sound(n, H, C), b \in C
      PROVE  Sound(m, H, C)
  <2>1. /\ Len(m.log) = k
        /\ \A h \in 1..k :
              \/ h \in 1..Len(n.log) /\ m.log[h] = n.log[h]
              \/ h = Height(b) /\ m.log[h] = b
              \/ m.log[h] \in n.waiting /\ Height(m.log[h]) = h
    BY CommitLog
  <2>2. /\ m.latestQc = n.latestQc
        /\ m.ready = n.ready
        /\ m.builds = n.builds
        /\ m.proposed = n.proposed
        /\ m.signed = n.signed
        /\ m.waiting \subseteq n.waiting
        /\ m.known \subseteq n.known
        /\ m.qcChecks \subseteq n.qcChecks
        /\ m.rootChecks \subseteq n.rootChecks
    BY DEF Commit, NodeState
  <2> HIDE DEF m
  <2>3. \A h \in 1..Len(m.log) : m.log[h] \in C /\ Height(m.log[h]) = h
    BY <1>2, <2>1 DEF Sound
  <2> QED
    BY <1>2, <2>2, <2>3 DEF Sound
<1> QED
  BY <1>1, <1>2

\* The parent certificate of a proposed block may be adopted.
LEMMA HeaderQcSound ==
    ASSUME NEW n \in NodeState, NEW b \in Block, NEW H, NEW C
    PROVE  /\ Grows(n, HeaderQc(n, b))
           /\ Sound(n, H, C) /\ AncestorsIn(b, C)
                => Sound(HeaderQc(n, b), H, C)
<1> DEFINE p == Parent(b)
           m == [n EXCEPT !.syncing = TRUE]
<1>1. \/ HeaderQc(n, b) \in {n, m}
      \/ p # Genesis /\ HeaderQc(n, b) = AdoptQc(n, p)
  BY DEF HeaderQc
<1>2. Grows(n, n) /\ Grows(n, m)
  BY DEF NodeState, Grows
<1>3. Sound(n, H, C) => Sound(m, H, C)
  BY DEF NodeState, Sound
<1>4. /\ Grows(n, AdoptQc(n, p))
      /\ Sound(n, H, C) /\ p \in C => Sound(AdoptQc(n, p), H, C)
  BY AdoptQcSound
<1>5. AncestorsIn(b, C) /\ p # Genesis => p \in C
  BY ParentCertified
<1> HIDE DEF p, m
<1> QED
  BY <1>1, <1>2, <1>3, <1>4, <1>5

\* Nor does the rest of what precedes the validation of a header do harm.
LEMMA HeaderSeenSound ==
    ASSUME NEW n \in NodeState, NEW b \in Block, NEW H, NEW C
    PROVE  /\ Grows(n, HeaderSeen(n, b))
           /\ Sound(n, H, C) /\ AncestorsIn(b, C)
                => Sound(HeaderSeen(n, b), H, C)
<1> DEFINE g == HeaderQc(n, b)
           m == [g EXCEPT !.view = Larger(@, RoundOf(b))]
<1>1. /\ g \in NodeState
      /\ Grows(n, g)
      /\ Sound(n, H, C) /\ AncestorsIn(b, C) => Sound(g, H, C)
  BY HeaderQcType, HeaderQcSound
<1>2. HeaderSeen(n, b) = m
  BY DEF HeaderSeen
<1> HIDE DEF g
<1>3. Grows(g, m)
  BY <1>1 DEF NodeState, Grows
<1>4. Sound(g, H, C) => Sound(m, H, C)
  BY <1>1 DEF NodeState, Sound
<1> HIDE DEF m
<1>5. Grows(n, m)
  BY <1>1, <1>3 DEF Grows
<1> QED
  BY <1>1, <1>2, <1>4, <1>5

\* Storing the block of a header and starting a sync keep a state sound.
LEMMA StartSyncSound ==
    ASSUME NEW n \in NodeState, NEW b \in Block, NEW started, NEW H, NEW C
    PROVE  LET m == StartSync([n EXCEPT !.known = @ \cup {b}], b, started)
           IN  /\ m \in NodeState
               /\ Grows(n, m)
               /\ Sound(n, H, C) /\ b \in H => Sound(m, H, C)
<1> DEFINE k == [n EXCEPT !.known = @ \cup {b}]
           m == StartSync(k, b, started)
<1>1. k \in NodeState /\ Grows(n, k)
  BY DEF NodeState, Grows
<1>2. Sound(n, H, C) /\ b \in H => Sound(k, H, C)
  BY DEF NodeState, Sound
<1> HIDE DEF k
<1>3. m \in NodeState
  BY <1>1, StartSyncType
<1>4. Grows(k, m)
  BY <1>1 DEF StartSync, NodeState, Grows
<1>5. Sound(k, H, C) => Sound(m, H, C)
  BY <1>1 DEF StartSync, NodeState, Sound
<1> HIDE DEF m
<1>6. Grows(n, m)
  BY <1>1, <1>4 DEF Grows
<1>7. Sound(n, H, C) /\ b \in H => Sound(m, H, C)
  BY <1>2, <1>5
<1> QED
  BY <1>3, <1>6, <1>7 DEF m, k

\* A certificate formed from votes may be adopted, and the parent committed.
LEMMA QcFormedSound ==
    ASSUME NEW n \in NodeState, NEW b \in Block, NEW H, NEW C
    PROVE  /\ Grows(n, QcFormed(n, b))
           /\ Sound(n, H, C) /\ b \in C /\ AncestorsIn(b, C)
                => Sound(QcFormed(n, b), H, C)
<1> DEFINE p == Parent(b)
           a == AdoptQc(n, b)
           m == [a EXCEPT !.formed = @ \cup {b}]
           q == [m EXCEPT !.ready = @ \cup {p}]
<1>1. a \in NodeState
  BY AdoptQcType
<1>2. \/ QcFormed(n, b) = m
      \/ p # Genesis /\ QcFormed(n, b) = q
  BY DEF QcFormed
<1>3. Grows(n, a) /\ (Sound(n, H, C) /\ b \in C => Sound(a, H, C))
  BY AdoptQcSound
<1> HIDE DEF a
<1>4. /\ m \in NodeState
      /\ Grows(a, m)
      /\ Sound(a, H, C) => Sound(m, H, C)
  BY <1>1 DEF NodeState, Grows, Sound
<1> HIDE DEF m
<1>5. /\ Grows(m, q)
      /\ Sound(m, H, C) /\ p \in C => Sound(q, H, C)
  BY <1>4 DEF NodeState, Grows, Sound
<1>6. AncestorsIn(b, C) /\ p # Genesis => p \in C
  BY ParentCertified
<1> HIDE DEF p, q
<1>7. Grows(n, m) /\ Grows(n, q)
  BY <1>3, <1>4, <1>5 DEF Grows
<1> QED
  BY <1>2, <1>3, <1>4, <1>5, <1>6, <1>7

\* Proposals and certificates are never taken back.
LEMMA SentGrows ==
    ASSUME TypeOK, NEW v \in Validators, NEW m \in NodeState,
           node' = [node EXCEPT ![v] = m], Grows(node[v], m)
    PROVE  /\ Headers \subseteq Headers'
           /\ m.proposed \subseteq Headers'
           /\ CertifiedBlocks \subseteq CertifiedBlocks'
<1>1. \A w \in Validators : /\ node[w].proposed \subseteq node'[w].proposed
                             /\ node[w].signed \subseteq node'[w].signed
  BY DEF TypeOK, Grows
<1>2. Headers \subseteq Headers' /\ m.proposed \subseteq Headers'
  BY <1>1 DEF TypeOK, Headers
<1>3. ASSUME NEW b, Certified(b)
      PROVE  Certified(b)'
  <2>1. /\ Voters(b) \in SUBSET Validators
        /\ Voters(b)' \in SUBSET Validators
        /\ Voters(b) \subseteq Voters(b)'
    BY <1>1 DEF Voters
  <2>2. /\ Stake[Voters(b)] \in Nat
        /\ Stake[Voters(b)'] \in Nat
        /\ Stake[Voters(b)] <= Stake[Voters(b)']
    BY <2>1, StakeMonotone
  <2>3. Stake[Validators] \in Nat
    BY ConsensusAssumption
  <2>4. Stake[Voters(b)] * 3 > Stake[Validators] * 2
    BY <1>3 DEF Certified, Quorum
  <2>5. Stake[Voters(b)'] * 3 > Stake[Validators] * 2
    BY <2>2, <2>3, <2>4
  <2> QED
    BY <2>5 DEF Certified, Quorum
<1> QED
  BY <1>2, <1>3 DEF CertifiedBlocks

\* It is enough to look at the validator that takes the step.
LEMMA StepSound ==
    ASSUME TypeOK, CertifiedChains,
           NEW v \in Validators, NEW m \in NodeState,
           node' = [node EXCEPT ![v] = m], Grows(node[v], m),
           Sound(m, Headers', CertifiedBlocks)
    PROVE  CertifiedChains'
<1>1. Headers \subseteq Headers' /\ CertifiedBlocks \subseteq CertifiedBlocks'
  BY SentGrows
<1>2. Sound(m, Headers', CertifiedBlocks')
  BY <1>1, SoundMonotone
<1>3. ASSUME NEW w \in Validators
      PROVE  Sound(node[w], Headers', CertifiedBlocks')
  <2>1. Sound(node[w], Headers, CertifiedBlocks)
    BY DEF CertifiedChains
  <2> QED
    BY <1>1, <2>1, SoundMonotone
<1>4. \A w \in Validators : node'[w] = node[w] \/ node'[w] = m
  BY DEF TypeOK
<1>5. \A w \in Validators : Sound(node'[w], Headers', CertifiedBlocks')
  BY <1>2, <1>3, <1>4
<1> QED
  BY <1>5 DEF CertifiedChains

\* Every handler keeps the chains certified.
LEMMA HandlersKeepChains ==
    TypeOK /\ CertifiedChains /\ [Next]_node => CertifiedChains'
<1> SUFFICES ASSUME TypeOK, CertifiedChains, [Next]_node
             PROVE  CertifiedChains'
  OBVIOUS
<1> DEFINE H == Headers'
           C == CertifiedBlocks
<1>0. CASE UNCHANGED node
  BY <1>0 DEF CertifiedChains, Headers, CertifiedBlocks, Certified, Voters
<1>1. /\ \A b \in Headers : b \in Block /\ AncestorsIn(b, C)
      /\ \A b \in C : b \in Block /\ AncestorsIn(b, C)
  <2>1. \A b \in Headers : AncestorsIn(b, C)
    BY DEF CertifiedChains, Sound, Headers
  <2> QED
    BY <2>1, HeadersType DEF CertifiedBlocks
<1>2. ASSUME NEW v \in Validators, NEW m \in NodeState,
             node' = [node EXCEPT ![v] = m], Grows(node[v], m)
      PROVE  /\ Headers \subseteq H /\ m.proposed \subseteq H
             /\ Sound(node[v], H, C)
  <2>1. Headers \subseteq H /\ m.proposed \subseteq H
    BY <1>2, SentGrows
  <2>2. Sound(node[v], Headers, C)
    BY DEF CertifiedChains
  <2> QED
    BY <2>1, <2>2, SoundMonotone
<1>3. ASSUME NEW v \in Validators, NEW m \in NodeState,
             node' = [node EXCEPT ![v] = m], Grows(node[v], m),
             Sound(m, H, C)
      PROVE  CertifiedChains'
  BY <1>3, StepSound
<1> HIDE DEF H, C
<1>4. ASSUME NEW v \in Validators, OnRoundTimeout(v)
      PROVE  CertifiedChains'
  <2> DEFINE h == NextHeight(node[v])
             r == node[v].view + 1
             n == [node[v] EXCEPT !.view  = r,
                                  !.locks = {b \in @ : Height(b) # h}]
             f == Child(Tip(n), r, "fallback")
             a == Announce(n, f)
  <2>1. node[v] \in NodeState /\ r \in 0..MaxView /\ "fallback" \in Contents
    BY <1>4, ConsensusAssumption
    DEF OnRoundTimeout, NodeState, Contents, TypeOK
  <2>2. n \in NodeState /\ Grows(node[v], n)
    BY <2>1 DEF NodeState, Grows
  <2>3. Sound(node[v], H, C) => Sound(n, H, C)
    BY <2>1 DEF NodeState, Sound
  <2>4. \/ node' = [node EXCEPT ![v] = a]
        \/ node' = [node EXCEPT ![v] = n]
    BY <1>4 DEF OnRoundTimeout
  <2> HIDE DEF n, r
  <2>5. Tip(n) \in Chain /\ f \in Block
    BY <2>1, <2>2, TipType, ChildProperties
  <2> HIDE DEF f
  <2>6. /\ a \in NodeState
        /\ Grows(n, a)
        /\ f \in a.proposed
        /\ Sound(n, H, C) /\ f \in H /\ AncestorsIn(f, C) => Sound(a, H, C)
    BY <2>2, <2>5, AnnounceType, AnnounceSound
  <2>7. Sound(n, H, C) => AncestorsIn(f, C)
    BY <1>1, <2>1, <2>2, <2>5, TipSound, ChildAncestors DEF f
  <2> HIDE DEF a
  <2>8. Grows(node[v], a)
    BY <2>2, <2>6 DEF Grows
  <2>9. CASE node' = [node EXCEPT ![v] = a]
    BY <2>9, <2>3, <2>6, <2>7, <2>8, <1>2, <1>3
  <2>10. CASE node' = [node EXCEPT ![v] = n]
    BY <2>10, <2>2, <2>3, <1>2, <1>3
  <2> QED
    BY <2>4, <2>9, <2>10
<1>6. ASSUME NEW v \in Validators, NEW b \in Headers, NEW timely,
             OnBlockHeader(v, b, timely)
      PROVE  CertifiedChains'
  <2> DEFINE n == HeaderSeen(node[v], b)
             m == StartSync([n EXCEPT !.known = @ \cup {b}], b,
                            n.syncing /\ ~node[v].syncing)
             t == TriggerQcVerificationOrVote(m, b)
  <2>1. b \in Block /\ AncestorsIn(b, C) /\ node[v] \in NodeState
    BY <1>1 DEF TypeOK
  <2>2. /\ n \in NodeState
        /\ Grows(node[v], n)
        /\ Sound(node[v], H, C) => Sound(n, H, C)
    BY <2>1, HeaderSeenType, HeaderSeenSound
  <2>3. \/ node' = [node EXCEPT ![v] = t]
        \/ node' = [node EXCEPT ![v] = n]
    BY <1>6 DEF OnBlockHeader
  <2> HIDE DEF n
  <2>4. /\ m \in NodeState
        /\ Grows(n, m)
        /\ Sound(n, H, C) /\ b \in H => Sound(m, H, C)
    BY <2>1, <2>2, StartSyncSound
  <2> HIDE DEF m
  <2>5. /\ t \in NodeState
        /\ Grows(m, t)
        /\ Sound(m, H, C) /\ b \in H => Sound(t, H, C)
    BY <2>1, <2>4, TriggerType, TriggerSound
  <2> HIDE DEF t
  <2>6. Grows(node[v], t)
    BY <2>2, <2>4, <2>5 DEF Grows
  <2>7. CASE node' = [node EXCEPT ![v] = t]
    BY <2>7, <2>2, <2>4, <2>5, <2>6, <1>2, <1>3
  <2>8. CASE node' = [node EXCEPT ![v] = n]
    BY <2>8, <2>2, <1>2, <1>3
  <2> QED
    BY <2>3, <2>7, <2>8
<1>5. ASSUME NEW v \in Validators, Handle(v)
      PROVE  CertifiedChains'
  <2>0. node[v] \in NodeState
    BY DEF TypeOK
  <2>00. Sound(node[v], Headers, C)
    BY DEF CertifiedChains, C
  <2>1. ASSUME NEW c \in Payloads \cup {"empty"}, OnProposalTimer(v, c)
        PROVE  CertifiedChains'
    <3> DEFINE m == Propose(node[v], c)
    <3>1. c \in Contents
      BY DEF Contents
    <3>2. /\ m \in NodeState
          /\ Grows(node[v], m)
          /\ Sound(node[v], H, C) /\ m.proposed \subseteq H => Sound(m, H, C)
      BY <2>0, <3>1, <1>1, ProposeType, ProposeSound
    <3>3. node' = [node EXCEPT ![v] = m]
      BY <2>1 DEF OnProposalTimer
    <3> HIDE DEF m
    <3> QED
      BY <3>2, <3>3, <1>2, <1>3
  <2>2. ASSUME NEW b \in node[v].builds, OnProposalBuilt(v, b)
        PROVE  CertifiedChains'
    <3> DEFINE n == [node[v] EXCEPT !.builds = @ \ {b}]
               m == [n EXCEPT !.proposal = NoProposal]
               a == Announce(m, b)
    <3>1. /\ n \in NodeState /\ m \in NodeState /\ b \in Block
          /\ Grows(node[v], n) /\ Grows(node[v], m)
      BY <2>0 DEF NodeState, Grows
    <3>2. Sound(node[v], H, C) => Sound(n, H, C) /\ Sound(m, H, C)
      BY <2>0 DEF NodeState, Sound
    <3>3. AncestorsIn(b, C)
      BY <2>00 DEF Sound
    <3>4. \/ node' = [node EXCEPT ![v] = a]
          \/ node' = [node EXCEPT ![v] = n]
      BY <2>2 DEF OnProposalBuilt
    <3> HIDE DEF n, m
    <3>5. /\ a \in NodeState
          /\ Grows(m, a)
          /\ b \in a.proposed
          /\ Sound(m, H, C) /\ b \in H /\ AncestorsIn(b, C)
               => Sound(a, H, C)
      BY <3>1, AnnounceType, AnnounceSound
    <3> HIDE DEF a
    <3>6. Grows(node[v], a)
      BY <3>1, <3>5 DEF Grows
    <3>7. CASE node' = [node EXCEPT ![v] = a]
      BY <3>7, <3>2, <3>3, <3>5, <3>6, <1>2, <1>3
    <3>8. CASE node' = [node EXCEPT ![v] = n]
      BY <3>8, <3>1, <3>2, <1>2, <1>3
    <3> QED
      BY <3>4, <3>7, <3>8
  <2>3. ASSUME NEW b \in Headers, OnBlockHeader(v, b, TRUE)
        PROVE  CertifiedChains'
    BY <2>3, <1>6
  <2>4. ASSUME NEW b \in node[v].qcChecks, OnQcSignatureVerified(v, b)
        PROVE  CertifiedChains'
    <3> DEFINE n == [node[v] EXCEPT !.qcChecks = @ \ {b},
                                    !.qcOk     = @ \cup {Parent(b)}]
               t == TryVoteOnBlock(n, b)
    <3>1. b \in Block /\ b \in Headers
      BY <2>0, <2>00 DEF NodeState, Sound
    <3>2. n \in NodeState /\ Grows(node[v], n)
      BY <2>0, <3>1, ParentProperties DEF NodeState, Grows
    <3>3. Sound(node[v], H, C) => Sound(n, H, C)
      BY <2>0 DEF NodeState, Sound
    <3>4. node' = [node EXCEPT ![v] = t]
      BY <2>4 DEF OnQcSignatureVerified
    <3> HIDE DEF n
    <3>5. /\ t \in NodeState
          /\ Grows(n, t)
          /\ Sound(n, H, C) /\ b \in H => Sound(t, H, C)
      BY <3>1, <3>2, TryVoteType, TryVoteSound
    <3> HIDE DEF t
    <3>6. Grows(node[v], t)
      BY <3>2, <3>5 DEF Grows
    <3> QED
      BY <3>1, <3>3, <3>4, <3>5, <3>6, <1>2, <1>3
  <2>5. ASSUME NEW b \in node[v].rootChecks, OnTransactionRootVerified(v, b)
        PROVE  CertifiedChains'
    <3> DEFINE n == [node[v] EXCEPT !.rootChecks = @ \ {b}]
               t == CreateVote(n, b)
    <3>1. b \in Block /\ b \in Headers
      BY <2>0, <2>00 DEF NodeState, Sound
    <3>2. n \in NodeState /\ Grows(node[v], n)
      BY <2>0 DEF NodeState, Grows
    <3>3. Sound(node[v], H, C) => Sound(n, H, C)
      BY <2>0 DEF NodeState, Sound
    <3>4. node' = [node EXCEPT ![v] = t]
      BY <2>5 DEF OnTransactionRootVerified
    <3> HIDE DEF n
    <3>5. /\ t \in NodeState
          /\ Grows(n, t)
          /\ Sound(n, H, C) /\ b \in H => Sound(t, H, C)
      BY <3>1, <3>2, CreateVoteType, CreateVoteSound
    <3> HIDE DEF t
    <3>6. Grows(node[v], t)
      BY <3>2, <3>5 DEF Grows
    <3> QED
      BY <3>1, <3>3, <3>4, <3>5, <3>6, <1>2, <1>3
  <2>6. ASSUME NEW b \in node[v].known, Certified(b)
        PROVE  /\ b \in Block /\ b \in C /\ AncestorsIn(b, C)
               /\ QcFormed(node[v], b) \in NodeState
               /\ Grows(node[v], QcFormed(node[v], b))
               /\ Sound(node[v], H, C) => Sound(QcFormed(node[v], b), H, C)
    <3>1. b \in Headers
      BY <2>00 DEF Sound
    <3>2. b \in Block /\ b \in C /\ AncestorsIn(b, C)
      BY <2>6, <3>1, <1>1 DEF CertifiedBlocks, C
    <3> QED
      BY <2>0, <3>2, QcFormedType, QcFormedSound
  <2>7. ASSUME NEW b \in node[v].known, OnQcFormed(v, b)
        PROVE  CertifiedChains'
    <3>1. /\ Certified(b)
          /\ node' = [node EXCEPT ![v] = QcFormed(node[v], b)]
      BY <2>7 DEF OnQcFormed
    <3> QED
      BY <3>1, <2>6, <1>2, <1>3
  <2>8. ASSUME NEW b \in node[v].known, NEW c \in Payloads \cup {"empty"},
               OnQcFormedAndPropose(v, b, c)
        PROVE  CertifiedChains'
    <3> DEFINE n == QcFormed(node[v], b)
               m == Propose(n, c)
    <3>1. Certified(b) /\ node' = [node EXCEPT ![v] = m]
      BY <2>8 DEF OnQcFormedAndPropose
    <3>2. /\ n \in NodeState
          /\ Grows(node[v], n)
          /\ Sound(node[v], H, C) => Sound(n, H, C)
      BY <3>1, <2>6
    <3>3. c \in Contents
      BY DEF Contents
    <3> HIDE DEF n
    <3>4. /\ m \in NodeState
          /\ Grows(n, m)
          /\ Sound(n, H, C) /\ m.proposed \subseteq H => Sound(m, H, C)
      BY <3>2, <3>3, <1>1, ProposeType, ProposeSound
    <3> HIDE DEF m
    <3>5. Grows(node[v], m)
      BY <3>2, <3>4 DEF Grows
    <3> QED
      BY <3>1, <3>2, <3>4, <3>5, <1>2, <1>3
  <2>9. ASSUME NEW b \in node[v].ready, OnBlockReadyToCommit(v, b)
        PROVE  CertifiedChains'
    <3> DEFINE n == [node[v] EXCEPT !.ready = @ \ {b}]
               w == [n EXCEPT !.waiting =
                       {x \in @ : Height(x) # Height(b)} \cup {b}]
               next == CommittedHeight(n) + 1
    <3>1. /\ b \in Block /\ n \in NodeState /\ w \in NodeState
          /\ Grows(node[v], n) /\ Grows(node[v], w)
      BY <2>0 DEF NodeState, Grows
    <3>2. b \in C
      BY <2>00 DEF Sound
    <3>3. Sound(node[v], H, C) => Sound(n, H, C) /\ Sound(w, H, C)
      BY <2>0, <3>2 DEF NodeState, Sound
    <3>4. \/ node' = [node EXCEPT ![v] = n]
          \/ node' = [node EXCEPT ![v] = w]
          \/ /\ Height(b) = next
             /\ \E k \in next..MaxHeight :
                   /\ DrainsTo(n, next, k)
                   /\ node' = [node EXCEPT ![v] = Commit(n, b, k)]
      BY <2>9 DEF OnBlockReadyToCommit
    <3> HIDE DEF n, w
    <3>5. ASSUME Height(b) = next, NEW k \in next..MaxHeight,
                 DrainsTo(n, next, k),
                 node' = [node EXCEPT ![v] = Commit(n, b, k)]
          PROVE  CertifiedChains'
      <4> DEFINE m == Commit(n, b, k)
      <4>1. /\ m \in NodeState
            /\ Grows(n, m)
            /\ Sound(n, H, C) => Sound(m, H, C)
        BY <3>1, <3>2, <3>5, CommitType, CommitSound
      <4> HIDE DEF m
      <4>2. Grows(node[v], m)
        BY <3>1, <4>1 DEF Grows
      <4>3. node' = [node EXCEPT ![v] = m]
        BY <3>5 DEF m
      <4> QED
        BY <3>3, <4>1, <4>2, <4>3, <1>2, <1>3
    <3>6. CASE node' = [node EXCEPT ![v] = n]
      BY <3>6, <3>1, <3>3, <1>2, <1>3
    <3>7. CASE node' = [node EXCEPT ![v] = w]
      BY <3>7, <3>1, <3>3, <1>2, <1>3
    <3> QED
      BY <3>4, <3>5, <3>6, <3>7
  <2>10. ASSUME NEW b \in Headers, OnSyncedBlock(v, b)
         PROVE  CertifiedChains'
    <3> DEFINE n == AdoptQc(node[v], b)
    <3>1. b \in Block /\ b \in C
      BY <1>1, <2>10 DEF OnSyncedBlock, CertifiedBlocks, C
    <3>2. /\ n \in NodeState
          /\ Grows(node[v], n)
          /\ Sound(node[v], H, C) => Sound(n, H, C)
      BY <2>0, <3>1, AdoptQcType, AdoptQcSound
    <3>3. n.log = node[v].log /\ n.waiting = node[v].waiting
      BY <2>0 DEF AdoptQc, UnlockForQc, NodeState
    <3> HIDE DEF n
    <3>4. PICK k \in Height(b)..MaxHeight :
             /\ DrainsTo(node[v], Height(b), k)
             /\ node' = [node EXCEPT ![v] = Commit(n, b, k)]
      BY <2>10 DEF OnSyncedBlock, n
    <3>5. DrainsTo(n, Height(b), k) /\ Height(b) = CommittedHeight(n) + 1
      BY <2>10, <3>3, <3>4 DEF OnSyncedBlock, DrainsTo, CommittedHeight
    <3> DEFINE m == Commit(n, b, k)
    <3>6. /\ m \in NodeState
          /\ Grows(n, m)
          /\ Sound(n, H, C) => Sound(m, H, C)
      BY <3>1, <3>2, <3>5, CommitType, CommitSound
    <3>7. node' = [node EXCEPT ![v] = m]
      BY <3>4
    <3> HIDE DEF m
    <3>8. Grows(node[v], m)
      BY <3>2, <3>6 DEF Grows
    <3> QED
      BY <3>2, <3>6, <3>7, <3>8, <1>2, <1>3
  <2> QED
    BY <1>5, <2>1, <2>2, <2>3, <2>4, <2>5, <2>7, <2>8, <2>9, <2>10 DEF Handle
<1> QED
  BY <1>0, <1>4, <1>5, <1>6 DEF Next, OnUntimelyHeader

-----------------------------------------------------------------------------
(* The theorems.                                                           *)

\* What every validator adopts, buffers and commits is certified, and what
\* it votes for was proposed on certified ancestors.
THEOREM ChainsCertified == Spec => []CertifiedChains
<1>1. Init => CertifiedChains
  BY DEF Init, InitNode, CertifiedChains, Sound, Genesis
<1>2. TypeOK /\ CertifiedChains /\ [Next]_node => CertifiedChains'
  BY HandlersKeepChains
<1> QED
  BY <1>1, <1>2, TypeCorrect, PTL DEF Spec

\* A vote, also one cast by a late verification callback or for a block that
\* was built on an older certificate, goes to a block whose ancestors are all
\* certified.
THEOREM VotesExtendCertified == Spec => []VotedAncestorsCertified
<1>1. CertifiedChains => VotedAncestorsCertified
  <2> SUFFICES ASSUME CertifiedChains,
                      NEW v \in Validators, NEW b \in node[v].signed
               PROVE  AncestorsIn(b, CertifiedBlocks)
    BY DEF VotedAncestorsCertified, AncestorsIn, CertifiedBlocks
  <2>1. b \in Headers
    BY DEF CertifiedChains, Sound
  <2> QED
    BY <2>1 DEF CertifiedChains, Sound, Headers
<1> QED
  BY <1>1, ChainsCertified, PTL

\* Commits come one height after the other, and only certified blocks are
\* committed, by two-chain commits, buffered commits and sync alike.
THEOREM CommitOrder == Spec => []CommitsInOrder
<1>1. CertifiedChains => CommitsInOrder
  BY DEF CertifiedChains, Sound, CommitsInOrder, CertifiedBlocks
<1> QED
  BY <1>1, ChainsCertified, PTL

\* Without a validator that voted for two blocks of a height there is no
\* fork: not between validators and not within one validator's log.
THEOREM ForksNeedDoubleVotes == Spec => []ForkNeedsDoubleVote
<1>1. ASSUME TypeOK, CertifiedChains,
             NEW b1 \in CertifiedBlocks, NEW b2 \in CertifiedBlocks,
             b1 # b2, NEW h, Height(b1) = h, Height(b2) = h
      PROVE  DoubleVoted(h)
  <2>1. /\ Quorum(Voters(b1)) /\ Quorum(Voters(b2))
        /\ Voters(b1) \in SUBSET Validators
        /\ Voters(b2) \in SUBSET Validators
    BY DEF CertifiedBlocks, Certified, Voters
  <2>2. PICK w : w \in Voters(b1) \cap Voters(b2)
    BY <2>1, QuorumIntersection
  <2> QED
    BY <1>1, <2>2 DEF Voters, DoubleVoted
<1>2. TypeOK /\ CertifiedChains => ForkNeedsDoubleVote
  <2> SUFFICES ASSUME TypeOK, CertifiedChains,
                      NEW u \in Validators, NEW v \in Validators
               PROVE  /\ \A h \in 1..Len(node[u].log) :
                            /\ h <= Len(node[v].log)
                            /\ node[u].log[h] # node[v].log[h]
                            => DoubleVoted(h)
                      /\ \A h \in 2..Len(node[v].log) :
                            Parent(node[v].log[h]) # node[v].log[h - 1]
                            => DoubleVoted(h - 1)
    BY DEF ForkNeedsDoubleVote
  <2>1. \A x \in Validators : \A h \in 1..Len(node[x].log) :
           /\ node[x].log[h] \in CertifiedBlocks
           /\ Height(node[x].log[h]) = h
    BY DEF CertifiedChains, Sound
  <2>2. \A x \in Validators : Len(node[x].log) \in Nat
    BY LenProperties DEF TypeOK, NodeState
  <2>3. ASSUME NEW h \in 1..Len(node[u].log), h <= Len(node[v].log),
               node[u].log[h] # node[v].log[h]
        PROVE  DoubleVoted(h)
    <3>1. h \in 1..Len(node[v].log)
      BY <2>2, <2>3
    <3> QED
      BY <1>1, <2>1, <2>3, <3>1
  <2>4. ASSUME NEW h \in 2..Len(node[v].log),
               Parent(node[v].log[h]) # node[v].log[h - 1]
        PROVE  DoubleVoted(h - 1)
    <3> DEFINE b == node[v].log[h]
    <3>1. h \in 1..Len(node[v].log) /\ h - 1 \in 1..Len(node[v].log)
      BY <2>2
    <3>2. b \in CertifiedBlocks /\ Height(b) = h
      BY <2>1, <3>1
    <3>3. b \in Block /\ AncestorsIn(b, CertifiedBlocks)
      BY <3>2, HeadersType
      DEF CertifiedChains, Sound, Headers, CertifiedBlocks
    <3> HIDE DEF b
    <3>4. Height(Parent(b)) = h - 1 /\ Height(Genesis) = 0
      BY <3>2, <3>3, ParentProperties, EmptySeq DEF Height, Genesis
    <3>5. Parent(b) \in CertifiedBlocks
      BY <3>1, <3>3, <3>4, <2>2, ParentCertified
    <3>6. /\ node[v].log[h - 1] \in CertifiedBlocks
          /\ Height(node[v].log[h - 1]) = h - 1
      BY <2>1, <3>1
    <3>7. Parent(b) # node[v].log[h - 1]
      BY <2>4 DEF b
    <3> QED
      BY <1>1, <3>4, <3>5, <3>6, <3>7
  <2> QED
    BY <2>3, <2>4
<1> QED
  BY <1>2, TypeCorrect, ChainsCertified, PTL
=============================================================================
