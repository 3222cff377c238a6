------------------------ MODULE VoteCollectionProofs ------------------------
(***************************************************************************)
(* Proofs about vote collection, for every committee, distribution of      *)
(* voting power, set of blocks and number of bad votes.  Voting power      *)
(* itself stays opaque: what is proved is that no handler, in whatever     *)
(* order the handlers run, loses a vote or leaves the vote set stuck.      *)
(***************************************************************************)
EXTENDS VoteCollection, TLAPS

BatchType(batch) ==
    /\ batch.block \in Blocks
    /\ batch.verified \in [Validators -> Nat]
    /\ batch.toVerify \subseteq Vote

\* Badly signed votes that wait or are being verified are in the history.
BadRecorded ==
    /\ \A b \in Blocks : voteSets[b] # None =>
          \A x \in voteSets[b].unverified : x.valid \/ <<b, x.voter>> \in bad
    /\ \A batch \in batches : \A x \in batch.toVerify :
          x.valid \/ <<batch.block, x.voter>> \in bad

-----------------------------------------------------------------------------

\* What MaybeTrigger leaves behind: only block b's vote set changes, a batch
\* takes over exactly the buffered votes, and the trigger condition is false.
LEMMA MaybeTriggerFacts ==
    ASSUME TypeOK,
           NEW b \in Blocks, NEW s \in VoteSetState, NEW hdrs, NEW inFlight,
           \A batch \in inFlight : BatchType(batch),
           MaybeTrigger(b, s, hdrs, inFlight)
    PROVE  /\ DOMAIN voteSets' = Blocks
           /\ \A c \in Blocks : c # b => voteSets'[c] = voteSets[c]
           /\ voteSets'[b] \in VoteSetState
           /\ voteSets'[b].seen = s.seen
           /\ voteSets'[b].verified = s.verified
           /\ voteSets'[b].qcBuilt = s.qcBuilt
           /\ voteSets'[b].unverified \subseteq s.unverified
           /\ ~ShouldTrigger(b, voteSets'[b], hdrs)
           /\ inFlight \subseteq batches'
           /\ \A batch \in batches' : BatchType(batch)
           /\ \A batch \in batches' \ inFlight :
                 batch.block = b /\ batch.toVerify = s.unverified
           /\ \/ voteSets'[b] = s
              \/ \E batch \in batches' : /\ batch.block = b
                                         /\ batch.toVerify = s.unverified
<1> DEFINE t == [s EXCEPT !.pending = TRUE, !.unverified = {}]
           new == [id |-> FreshId, block |-> b,
                   verified |-> s.verified, toVerify |-> s.unverified]
<1>1. CASE /\ ShouldTrigger(b, s, hdrs)
           /\ voteSets' = [voteSets EXCEPT ![b] = t]
           /\ batches' = inFlight \cup {new}
  <2>1. /\ t \in VoteSetState /\ t.seen = s.seen /\ t.verified = s.verified
        /\ t.qcBuilt = s.qcBuilt /\ t.unverified = {} /\ t.pending = TRUE
    BY DEF VoteSetState
  <2>2. BatchType(new) /\ new.block = b /\ new.toVerify = s.unverified
    BY DEF VoteSetState, BatchType
  <2>3. ~ShouldTrigger(b, t, hdrs)
    BY <2>1 DEF ShouldTrigger
  <2> HIDE DEF t, new
  <2>4. /\ DOMAIN voteSets' = Blocks
        /\ \A c \in Blocks : c # b => voteSets'[c] = voteSets[c]
        /\ voteSets'[b] = t
    BY <1>1 DEF TypeOK
  <2>5. new \in batches' /\ inFlight \subseteq batches'
    BY <1>1
  <2>6. /\ \A batch \in batches' : BatchType(batch)
        /\ \A batch \in batches' \ inFlight :
              batch.block = b /\ batch.toVerify = s.unverified
    BY <1>1, <2>2
  <2> QED
    BY <2>1, <2>2, <2>3, <2>4, <2>5, <2>6
<1>2. CASE /\ ~ShouldTrigger(b, s, hdrs)
           /\ voteSets' = [voteSets EXCEPT ![b] = s]
           /\ batches' = inFlight
  BY <1>2 DEF TypeOK
<1> QED
  BY <1>1, <1>2 DEF MaybeTrigger

\* The vote set a handler works on, and what buffering, adding and answering
\* make of it.
LEMMA SetOfType ==
    ASSUME TypeOK, NEW b \in Blocks
    PROVE  /\ SetOf(b) \in VoteSetState
           /\ voteSets[b] # None => SetOf(b) = voteSets[b]
           /\ voteSets[b] = None => SetOf(b) = EmptySet
<1>1. EmptySet \in VoteSetState
  BY DEF EmptySet, VoteSetState, NoVotes
<1> QED
  BY <1>1 DEF SetOf, TypeOK

\* buffer_unverified_vote keeps the type and adds one unverified vote.
LEMMA BufferFacts ==
    ASSUME NEW s \in VoteSetState, NEW vote \in Vote
    PROVE  LET t == BufferUnverifiedVote(s, vote)
           IN  /\ t \in VoteSetState
               /\ t.seen = s.seen \cup {vote.voter}
               /\ t.unverified = s.unverified \cup {vote}
               /\ t.verified = s.verified
               /\ t.pending = s.pending
               /\ t.qcBuilt = s.qcBuilt
BY DEF BufferUnverifiedVote, VoteSetState, Vote

\* Plus counts up the validators of W and no others.
LEMMA PlusFacts ==
    ASSUME NEW f \in [Validators -> Nat], NEW W
    PROVE  /\ Plus(f, W) \in [Validators -> Nat]
           /\ \A w \in Validators :
                 /\ Plus(f, W)[w] >= f[w]
                 /\ w \in W => Plus(f, W)[w] > 0
BY DEF Plus

\* add_verified_vote keeps the type and every vote.
LEMMA AddVerifiedFacts ==
    ASSUME NEW s \in VoteSetState, NEW v \in Validators
    PROVE  LET t == AddVerifiedVote(s, v)
           IN  /\ t \in VoteSetState
               /\ t.seen = s.seen \cup {v}
               /\ t.unverified = s.unverified
               /\ t.verified = Plus(s.verified, {v})
               /\ t.pending = s.pending
               /\ t.qcBuilt = s.qcBuilt
<1> DEFINE f == Plus(s.verified, {v})
<1>1. s.verified \in [Validators -> Nat]
  BY DEF VoteSetState
<1>2. f \in [Validators -> Nat]
  BY <1>1, PlusFacts
<1>3. AddVerifiedVote(s, v) = [s EXCEPT !.seen = s.seen \cup {v},
                                        !.verified = f]
  BY DEF AddVerifiedVote, VoteSetState
<1> HIDE DEF f
<1>4. LET t == [s EXCEPT !.seen = s.seen \cup {v}, !.verified = f]
      IN  /\ t \in VoteSetState
          /\ t.seen = s.seen \cup {v}
          /\ t.unverified = s.unverified
          /\ t.verified = f
          /\ t.pending = s.pending
          /\ t.qcBuilt = s.qcBuilt
  BY <1>2 DEF VoteSetState
<1> QED
  BY <1>3, <1>4 DEF f

\* on_votes_verified clears the flag and keeps and adds votes.
LEMMA VotesVerifiedFacts ==
    ASSUME NEW s \in VoteSetState, NEW f \in [Validators -> Nat]
    PROVE  LET t == OnVotesVerified(s, f)
           IN  /\ t \in VoteSetState
               /\ t.seen = s.seen
               /\ t.unverified = s.unverified
               /\ t.pending = FALSE
               /\ t.qcBuilt = s.qcBuilt
               /\ \A w \in Validators : t.verified[w] = s.verified[w] + f[w]
<1> DEFINE g == [w \in Validators |-> s.verified[w] + f[w]]
<1>1. g \in [Validators -> Nat]
  BY DEF VoteSetState
<1>2. OnVotesVerified(s, f) = [s EXCEPT !.pending = FALSE, !.verified = g]
  BY DEF OnVotesVerified, VoteSetState
<1>3. \A w \in Validators : g[w] = s.verified[w] + f[w]
  OBVIOUS
<1> HIDE DEF g
<1>4. LET t == [s EXCEPT !.pending = FALSE, !.verified = g]
      IN  /\ t \in VoteSetState
          /\ t.seen = s.seen
          /\ t.unverified = s.unverified
          /\ t.verified = g
          /\ t.pending = FALSE
          /\ t.qcBuilt = s.qcBuilt
  BY <1>1 DEF VoteSetState
<1> QED
  BY <1>2, <1>3, <1>4

-----------------------------------------------------------------------------

Accounted(s, b, w, B) ==
    \/ s.qcBuilt
    \/ w \in Voters(s.unverified)
    \/ s.verified[w] > 0
    \/ \E batch \in B : batch.block = b /\ w \in Voters(batch.toVerify)

\* The inductive invariant: the three properties need each other only through
\* the types and through the record of bad votes.
IInv ==
    /\ TypeOK
    /\ BadRecorded
    /\ PendingHasBatch
    /\ NoMissedTrigger
    /\ SeenVotesAccounted

\* The part of IInv that is about vote sets and batches.
VotesInv ==
    /\ DOMAIN voteSets = Blocks
    /\ \A b \in Blocks : voteSets[b] = None \/ voteSets[b] \in VoteSetState
    /\ \A batch \in batches : BatchType(batch)
    /\ BadRecorded
    /\ PendingHasBatch
    /\ NoMissedTrigger
    /\ \A b \in Blocks : \A w \in Validators :
          voteSets[b] # None /\ w \in voteSets[b].seen /\ <<b, w>> \notin bad
          => Accounted(voteSets[b], b, w, batches)

\* IInv is TypeOK of the other variables with VotesInv.
LEMMA IInvSplit ==
    IInv <=> TypeOK /\ VotesInv
<1>1. SeenVotesAccounted <=>
        \A b \in Blocks : \A w \in Validators :
          voteSets[b] # None /\ w \in voteSets[b].seen /\ <<b, w>> \notin bad
          => Accounted(voteSets[b], b, w, batches)
  BY DEF SeenVotesAccounted, Accounted, InFlight
<1> QED
  BY <1>1 DEF IInv, VotesInv, TypeOK, BatchType

\* A handler that stores vote set s of block b with MaybeTrigger keeps the
\* invariant when s itself is in order.
LEMMA StoreKeeps ==
    ASSUME TypeOK, VotesInv,
           NEW b \in Blocks, NEW s \in VoteSetState, NEW inFlight,
           inFlight \subseteq batches,
           \A batch \in batches \ inFlight : batch.block = b,
           MaybeTrigger(b, s, headers', inFlight),
           \A c \in Blocks : c # b => (c \in headers' <=> c \in headers),
           bad \subseteq bad',
           s.pending => \E batch \in inFlight : batch.block = b,
           \A x \in s.unverified : x.valid \/ <<b, x.voter>> \in bad',
           \A w \in s.seen : <<b, w>> \notin bad' => Accounted(s, b, w, inFlight)
    PROVE  VotesInv'
<1>0. \A batch \in inFlight : BatchType(batch)
  BY DEF VotesInv
<1>1. /\ DOMAIN voteSets' = Blocks
      /\ \A c \in Blocks : c # b => voteSets'[c] = voteSets[c]
      /\ voteSets'[b] \in VoteSetState
      /\ voteSets'[b].seen = s.seen
      /\ voteSets'[b].verified = s.verified
      /\ voteSets'[b].qcBuilt = s.qcBuilt
      /\ voteSets'[b].unverified \subseteq s.unverified
      /\ ~ShouldTrigger(b, voteSets'[b], headers')
      /\ inFlight \subseteq batches'
      /\ \A batch \in batches' : BatchType(batch)
      /\ \A batch \in batches' \ inFlight :
            batch.block = b /\ batch.toVerify = s.unverified
      /\ \/ voteSets'[b] = s
         \/ \E batch \in batches' : /\ batch.block = b
                                    /\ batch.toVerify = s.unverified
  BY <1>0, MaybeTriggerFacts
<1>2. \A c \in Blocks : voteSets'[c] = None \/ voteSets'[c] \in VoteSetState
  BY <1>1 DEF VotesInv
<1>3. \A batch \in batches : batch.block # b => batch \in batches'
  BY <1>1
<1>4. BadRecorded'
  <2>1. ASSUME NEW c \in Blocks, voteSets'[c] # None,
               NEW x \in voteSets'[c].unverified
        PROVE  x.valid \/ <<c, x.voter>> \in bad'
    BY <2>1, <1>1 DEF VotesInv, BadRecorded
  <2>2. ASSUME NEW batch \in batches', NEW x \in batch.toVerify
        PROVE  x.valid \/ <<batch.block, x.voter>> \in bad'
    <3>1. CASE batch \in inFlight
      BY <3>1 DEF VotesInv, BadRecorded
    <3>2. CASE batch \notin inFlight
      BY <3>2, <1>1
    <3> QED
      BY <3>1, <3>2
  <2> QED
    BY <2>1, <2>2 DEF BadRecorded
<1>5. PendingHasBatch'
  <2> SUFFICES ASSUME NEW c \in Blocks, voteSets'[c] # None,
                      voteSets'[c].pending
               PROVE  \E batch \in batches' : batch.block = c
    BY DEF PendingHasBatch, InFlight
  <2>1. CASE c = b
    BY <2>1, <1>1
  <2>2. CASE c # b
    <3>1. \E batch \in batches : batch.block = c
      BY <2>2, <1>1 DEF VotesInv, PendingHasBatch, InFlight
    <3> QED
      BY <3>1, <2>2, <1>3
  <2> QED
    BY <2>1, <2>2
<1>6. NoMissedTrigger'
  <2> SUFFICES ASSUME NEW c \in Blocks, voteSets'[c] # None
               PROVE  ~ShouldTrigger(c, voteSets'[c], headers')
    BY DEF NoMissedTrigger, ShouldTrigger
  <2>1. CASE c # b
    <3>1. ~ShouldTrigger(c, voteSets[c], headers)
      BY <2>1, <1>1 DEF VotesInv, NoMissedTrigger
    <3> QED
      BY <2>1, <3>1, <1>1 DEF ShouldTrigger
  <2> QED
    BY <2>1, <1>1
<1>7. ASSUME NEW c \in Blocks, NEW w \in Validators, voteSets'[c] # None,
             w \in voteSets'[c].seen, <<c, w>> \notin bad'
      PROVE  Accounted(voteSets'[c], c, w, batches')
  <2>1. CASE c # b
    <3>1. Accounted(voteSets[c], c, w, batches)
      BY <2>1, <1>1, <1>7 DEF VotesInv
    <3> QED
      BY <2>1, <1>1, <1>3, <3>1 DEF Accounted
  <2>2. CASE c = b
    <3>1. Accounted(s, b, w, inFlight)
      BY <2>2, <1>1, <1>7
    <3> QED
      BY <2>2, <1>1, <3>1 DEF Accounted
  <2> QED
    BY <2>1, <2>2
<1> QED
  BY <1>1, <1>2, <1>4, <1>5, <1>6, <1>7 DEF VotesInv

\* The list the crypto pool returns holds every good vote of its batch.
LEMMA AllVerifiedFacts ==
    ASSUME NEW batch, BatchType(batch)
    PROVE  /\ AllVerified(batch) \in [Validators -> Nat]
           /\ \A x \in batch.toVerify :
                 x.valid => AllVerified(batch)[x.voter] > 0
<1> DEFINE W == {x.voter : x \in {y \in batch.toVerify : y.valid}}
<1>1. /\ Plus(batch.verified, W) \in [Validators -> Nat]
      /\ \A w \in Validators : w \in W => Plus(batch.verified, W)[w] > 0
  BY PlusFacts DEF BatchType
<1>2. \A x \in batch.toVerify : x.voter \in Validators
  BY DEF BatchType, Vote
<1> QED
  BY <1>1, <1>2 DEF AllVerified

\* The vote set a handler starts from, new or not, is in order.
LEMMA SetOfInOrder ==
    ASSUME TypeOK, VotesInv, NEW b \in Blocks
    PROVE  /\ SetOf(b).pending => \E batch \in batches : batch.block = b
           /\ \A x \in SetOf(b).unverified :
                 x.valid \/ <<b, x.voter>> \in bad
           /\ \A w \in SetOf(b).seen : /\ w \in Validators
                                       /\ <<b, w>> \notin bad
                 => Accounted(SetOf(b), b, w, batches)
<1>1. CASE voteSets[b] = None
  <2>1. /\ SetOf(b).pending = FALSE
        /\ SetOf(b).unverified = {}
        /\ SetOf(b).seen = {}
    BY <1>1, SetOfType DEF EmptySet
  <2> QED
    BY <2>1
<1>2. CASE voteSets[b] # None
  <2>1. SetOf(b) = voteSets[b]
    BY <1>2, SetOfType
  <2>2. voteSets[b].pending => \E batch \in batches : batch.block = b
    BY <1>2 DEF VotesInv, PendingHasBatch, InFlight
  <2>3. \A x \in voteSets[b].unverified : x.valid \/ <<b, x.voter>> \in bad
    BY <1>2 DEF VotesInv, BadRecorded
  <2>4. \A w \in voteSets[b].seen : w \in Validators /\ <<b, w>> \notin bad
          => Accounted(voteSets[b], b, w, batches)
    BY <1>2 DEF VotesInv
  <2> QED
    BY <2>1, <2>2, <2>3, <2>4
<1> QED
  BY <1>1, <1>2

\* Every step keeps the part of the invariant about vote sets and batches.
LEMMA StepKeepsVotes ==
    ASSUME TypeOK, VotesInv, Next
    PROVE  VotesInv'
<1> USE VoteAssumption
<1>1. ASSUME NEW b \in Blocks, NEW vote \in Vote, OnBlockVote(b, vote)
      PROVE  VotesInv'
  <2> DEFINE s == BufferUnverifiedVote(SetOf(b), vote)
  <2>1. /\ s \in VoteSetState
        /\ s.seen = SetOf(b).seen \cup {vote.voter}
        /\ s.unverified = SetOf(b).unverified \cup {vote}
        /\ s.verified = SetOf(b).verified
        /\ s.pending = SetOf(b).pending
        /\ s.qcBuilt = SetOf(b).qcBuilt
    BY SetOfType, BufferFacts
  <2>2. /\ MaybeTrigger(b, s, headers', batches)
        /\ headers' = headers
        /\ bad' = IF vote.valid THEN bad ELSE bad \cup {<<b, vote.voter>>}
    BY <1>1 DEF OnBlockVote
  <2> HIDE DEF s
  <2>3. s.pending => \E batch \in batches : batch.block = b
    BY <2>1, SetOfInOrder
  <2>4. \A x \in s.unverified : x.valid \/ <<b, x.voter>> \in bad'
    BY <2>1, <2>2, SetOfInOrder
  <2>5. ASSUME NEW w \in s.seen, <<b, w>> \notin bad'
        PROVE  Accounted(s, b, w, batches)
    <3>1. CASE w = vote.voter
      BY <3>1, <2>1 DEF Accounted, Voters
    <3>2. CASE w # vote.voter
      <4>1. w \in SetOf(b).seen /\ w \in Validators
        BY <3>2, <2>1, SetOfType DEF VoteSetState
      <4>2. Accounted(SetOf(b), b, w, batches)
        BY <4>1, <2>2, <2>5, SetOfInOrder
      <4> QED
        BY <4>2, <2>1 DEF Accounted, Voters
    <3> QED
      BY <3>1, <3>2
  <2> QED
    BY <2>1, <2>2, <2>3, <2>4, <2>5, StoreKeeps
<1>2. ASSUME NEW b \in Blocks, OnOwnVote(b)
      PROVE  VotesInv'
  <2> DEFINE s == AddVerifiedVote(SetOf(b), Self)
  <2>1. /\ s \in VoteSetState
        /\ s.seen = SetOf(b).seen \cup {Self}
        /\ s.unverified = SetOf(b).unverified
        /\ s.verified = Plus(SetOf(b).verified, {Self})
        /\ s.pending = SetOf(b).pending
        /\ s.qcBuilt = SetOf(b).qcBuilt
    BY SetOfType, AddVerifiedFacts
  <2>2. MaybeTrigger(b, s, headers', batches) /\ headers' = headers /\ bad' = bad
    BY <1>2 DEF OnOwnVote
  <2>a. /\ SetOf(b).verified \in [Validators -> Nat]
        /\ \A w \in Validators : /\ s.verified[w] \in Nat
                                 /\ s.verified[w] >= SetOf(b).verified[w]
                                 /\ w = Self => s.verified[w] > 0
    <3>1. SetOf(b).verified \in [Validators -> Nat]
      BY SetOfType DEF VoteSetState
    <3> HIDE DEF s
    <3> QED
      BY <3>1, <2>1, PlusFacts
  <2> HIDE DEF s
  <2>3. s.pending => \E batch \in batches : batch.block = b
    BY <2>1, SetOfInOrder
  <2>4. \A x \in s.unverified : x.valid \/ <<b, x.voter>> \in bad'
    BY <2>1, <2>2, SetOfInOrder
  <2>5. ASSUME NEW w \in s.seen, <<b, w>> \notin bad'
        PROVE  Accounted(s, b, w, batches)
    <3>1. CASE w = Self
      BY <3>1, <2>a DEF Accounted
    <3>2. CASE w # Self
      <4>1. w \in SetOf(b).seen /\ w \in Validators
        BY <3>2, <2>1, SetOfType DEF VoteSetState
      <4>2. Accounted(SetOf(b), b, w, batches)
        BY <4>1, <2>2, <2>5, SetOfInOrder
      <4>3. SetOf(b).verified[w] > 0 => s.verified[w] > 0
        BY <4>1, <2>a
      <4> QED
        BY <4>2, <4>3, <2>1 DEF Accounted
    <3> QED
      BY <3>1, <3>2
  <2> QED
    BY <2>1, <2>2, <2>3, <2>4, <2>5, StoreKeeps
<1>3. ASSUME NEW b \in Blocks, OnBlockHeader(b)
      PROVE  VotesInv'
  <2>1. /\ headers' = headers \cup {b}
        /\ bad' = bad
    BY <1>3 DEF OnBlockHeader
  <2>2. CASE voteSets[b] = None /\ UNCHANGED <<voteSets, batches>>
    <3>1. ASSUME NEW c \in Blocks, voteSets'[c] # None
          PROVE  ~ShouldTrigger(c, voteSets'[c], headers')
      <4>1. c # b /\ ~ShouldTrigger(c, voteSets[c], headers)
        BY <2>2, <3>1 DEF VotesInv, NoMissedTrigger
      <4> QED
        BY <4>1, <2>1, <2>2 DEF ShouldTrigger
    <3> QED
      BY <2>1, <2>2, <3>1
         DEF VotesInv, BadRecorded, PendingHasBatch, InFlight, NoMissedTrigger,
             ShouldTrigger
  <2>3. CASE voteSets[b] # None /\ MaybeTrigger(b, voteSets[b], headers', batches)
    <3> DEFINE s == voteSets[b]
    <3>1. s \in VoteSetState
      BY <2>3 DEF VotesInv
    <3>2. s.pending => \E batch \in batches : batch.block = b
      BY <2>3 DEF VotesInv, PendingHasBatch, InFlight
    <3>3. \A x \in s.unverified : x.valid \/ <<b, x.voter>> \in bad'
      BY <2>1, <2>3 DEF VotesInv, BadRecorded
    <3>4. \A w \in s.seen : <<b, w>> \notin bad' => Accounted(s, b, w, batches)
      BY <2>1, <2>3, <3>1 DEF VotesInv, VoteSetState
    <3>5. MaybeTrigger(b, s, headers', batches)
      BY <2>3
    <3> HIDE DEF s
    <3> QED
      BY <2>1, <3>1, <3>2, <3>3, <3>4, <3>5, StoreKeeps
  <2> QED
    BY <1>3, <2>2, <2>3 DEF OnBlockHeader
<1>4. ASSUME NEW batch \in batches, OnQcBuilt(batch)
      PROVE  VotesInv'
  <2> DEFINE b == batch.block
             s == [voteSets[b] EXCEPT !.qcBuilt = TRUE, !.pending = FALSE]
  <2>1. b \in Blocks
    BY DEF VotesInv, BatchType
  <2>2. /\ headers' = headers
        /\ bad' = bad
        /\ batches' = batches \ {batch}
        /\ voteSets[b] = None => voteSets' = voteSets
        /\ voteSets[b] # None => voteSets' = [voteSets EXCEPT ![b] = s]
    BY <1>4 DEF OnQcBuilt
  <2>3. voteSets[b] # None => /\ s \in VoteSetState
                              /\ s.unverified = voteSets[b].unverified
                              /\ s.qcBuilt = TRUE
                              /\ s.pending = FALSE
    BY <2>1 DEF VotesInv, VoteSetState
  <2> HIDE DEF b, s
  <2>4. /\ DOMAIN voteSets' = Blocks
        /\ \A c \in Blocks : c # b => voteSets'[c] = voteSets[c]
        /\ voteSets[b] = None => voteSets'[b] = None
        /\ voteSets[b] # None => voteSets'[b] = s
    BY <2>1, <2>2 DEF VotesInv
  <2>5. \A c \in Blocks : voteSets'[c] = None \/ voteSets'[c] \in VoteSetState
    BY <2>3, <2>4 DEF VotesInv
  <2>6. BadRecorded'
    BY <2>2, <2>3, <2>4 DEF VotesInv, BadRecorded
  <2>7. \A x \in batches : x.block # b => x \in batches'
    BY <2>2 DEF b
  <2>8. PendingHasBatch'
    BY <2>3, <2>4, <2>7 DEF VotesInv, PendingHasBatch, InFlight
  <2>9. \A c \in Blocks : voteSets'[c] # None =>
           ~ShouldTrigger(c, voteSets'[c], headers)
    BY <2>3, <2>4 DEF VotesInv, NoMissedTrigger, ShouldTrigger
  <2>10. NoMissedTrigger'
    BY <2>2, <2>9 DEF NoMissedTrigger, ShouldTrigger
  <2>11. ASSUME NEW c \in Blocks, NEW w \in Validators, voteSets'[c] # None,
                w \in voteSets'[c].seen, <<c, w>> \notin bad'
         PROVE  Accounted(voteSets'[c], c, w, batches')
    BY <2>2, <2>3, <2>4, <2>7, <2>11 DEF VotesInv, Accounted
  <2>12. \A x \in batches' : BatchType(x)
    BY <2>2 DEF VotesInv
  <2> QED
    BY <2>4, <2>5, <2>6, <2>8, <2>10, <2>11, <2>12 DEF VotesInv
<1>5. ASSUME NEW batch \in batches, OnQcNotBuilt(batch)
      PROVE  VotesInv'
  <2> DEFINE b == batch.block
             all == AllVerified(batch)
             rest == batches \ {batch}
             s == OnVotesVerified(voteSets[b], all)
  <2>1. b \in Blocks /\ BatchType(batch)
    BY DEF VotesInv, BatchType
  <2>2. /\ headers' = headers
        /\ bad' = bad
        /\ \/ voteSets[b] = None /\ batches' = rest /\ voteSets' = voteSets
           \/ voteSets[b] # None /\ MaybeTrigger(b, s, headers', rest)
    BY <1>5 DEF OnQcNotBuilt
  <2>3. \A x \in batches : x.block # b => x \in rest
    OBVIOUS
  <2>4. CASE voteSets[b] = None /\ batches' = rest /\ voteSets' = voteSets
    <3> HIDE DEF b, all, s, rest
    <3>0. rest \subseteq batches
      BY DEF rest
    <3>1. \A c \in Blocks : voteSets'[c] # None => c # b
      BY <2>4
    <3>2. BadRecorded'
      BY <2>2, <2>4, <3>0 DEF VotesInv, BadRecorded
    <3>3. PendingHasBatch'
      BY <2>2, <2>3, <2>4, <3>1 DEF VotesInv, PendingHasBatch, InFlight
    <3>4. NoMissedTrigger'
      BY <2>2, <2>4 DEF VotesInv, NoMissedTrigger, ShouldTrigger
    <3>5. ASSUME NEW c \in Blocks, NEW w \in Validators, voteSets'[c] # None,
                 w \in voteSets'[c].seen, <<c, w>> \notin bad'
          PROVE  Accounted(voteSets'[c], c, w, batches')
      BY <2>2, <2>3, <2>4, <3>1, <3>5 DEF VotesInv, Accounted
    <3>6. /\ \A x \in batches' : BatchType(x)
          /\ DOMAIN voteSets' = Blocks
          /\ \A c \in Blocks : voteSets'[c] = None \/ voteSets'[c] \in VoteSetState
      BY <2>4, <3>0 DEF VotesInv
    <3> QED
      BY <3>2, <3>3, <3>4, <3>5, <3>6 DEF VotesInv
  <2>5. CASE voteSets[b] # None /\ MaybeTrigger(b, s, headers', rest)
    <3>1. voteSets[b] \in VoteSetState
      BY <2>1, <2>5 DEF VotesInv
    <3>2. /\ all \in [Validators -> Nat]
          /\ \A x \in batch.toVerify : x.valid => all[x.voter] > 0
      BY <2>1, AllVerifiedFacts
    <3>3. /\ s \in VoteSetState
          /\ s.seen = voteSets[b].seen
          /\ s.unverified = voteSets[b].unverified
          /\ s.pending = FALSE
          /\ s.qcBuilt = voteSets[b].qcBuilt
          /\ \A w \in Validators :
                s.verified[w] = voteSets[b].verified[w] + all[w]
      <4> HIDE DEF all
      <4> QED
        BY <3>1, <3>2, VotesVerifiedFacts
    <3>4. rest \subseteq batches /\ \A x \in batches \ rest : x = batch
      OBVIOUS
    <3>b. \A x \in batches \ rest : x.block = b
      BY <3>4
    <3>c. \A x \in batch.toVerify : x.valid \/ <<b, x.voter>> \in bad
      BY DEF VotesInv, BadRecorded
    <3> HIDE DEF b, all, s, rest
    <3>5. \A x \in s.unverified : x.valid \/ <<b, x.voter>> \in bad'
      BY <2>1, <2>2, <2>5, <3>3 DEF VotesInv, BadRecorded
    <3>6. ASSUME NEW w \in s.seen, <<b, w>> \notin bad'
          PROVE  Accounted(s, b, w, rest)
      <4>1. w \in Validators
        BY <3>3 DEF VoteSetState
      <4>2. Accounted(voteSets[b], b, w, batches)
        BY <2>1, <2>2, <2>5, <3>3, <3>6, <4>1 DEF VotesInv
      <4>3. voteSets[b].verified[w] \in Nat /\ all[w] \in Nat
        BY <3>1, <3>2, <4>1 DEF VoteSetState
      <4>4. voteSets[b].verified[w] > 0 \/ all[w] > 0 => s.verified[w] > 0
        BY <3>3, <4>1, <4>3
      <4>5. w \in Voters(batch.toVerify) => all[w] > 0
        BY <2>2, <3>2, <3>c, <3>6 DEF Voters
      <4> QED
        BY <3>3, <3>4, <4>2, <4>4, <4>5 DEF Accounted
    <3> QED
      BY <2>1, <2>2, <2>5, <3>3, <3>4, <3>b, <3>5, <3>6, StoreKeeps
  <2> QED
    BY <2>2, <2>4, <2>5
<1>6. ASSUME AdvanceRound
      PROVE  VotesInv'
  <2>1. /\ headers' = headers
        /\ bad' = bad
        /\ batches' = batches
        /\ DOMAIN voteSets' = Blocks
        /\ \A b \in Blocks : voteSets'[b] = None \/ voteSets'[b] = voteSets[b]
    BY <1>6 DEF AdvanceRound
  <2>2. NoMissedTrigger'
    BY <2>1 DEF VotesInv, NoMissedTrigger, ShouldTrigger
  <2> QED
    BY <2>1, <2>2
       DEF VotesInv, BadRecorded, PendingHasBatch, InFlight, Accounted
<1>7. ASSUME CommitHeight
      PROVE  VotesInv'
  BY <1>7 DEF CommitHeight, VotesInv, BadRecorded, PendingHasBatch,
              NoMissedTrigger
<1> QED
  BY <1>1, <1>2, <1>3, <1>4, <1>5, <1>6, <1>7 DEF Next

\* Every step keeps the types of the variables that are not vote sets or
\* batches.
LEMMA StepKeepsTypes ==
    ASSUME TypeOK, VotesInv', Next
    PROVE  TypeOK'
<1> USE VoteAssumption
<1> DEFINE Rest ==
        /\ view \in Nat
        /\ committed \in BOOLEAN
        /\ headers \subseteq Blocks
        /\ received \in [Validators -> Blocks \cup {None}]
        /\ \A qc \in qcs : qc.block \in Blocks /\ qc.signers \subseteq Validators
        /\ bad \subseteq Blocks \X Validators
<1>0. SUFFICES Rest'
  BY <1>0 DEF TypeOK, VotesInv, BatchType
<1>1. ASSUME NEW b \in Blocks, NEW vote \in Vote, OnBlockVote(b, vote)
      PROVE  Rest'
  BY <1>1 DEF OnBlockVote, TypeOK, Vote
<1>2. ASSUME NEW b \in Blocks, OnOwnVote(b)
      PROVE  Rest'
  BY <1>2 DEF OnOwnVote, TypeOK
<1>3. ASSUME NEW b \in Blocks, OnBlockHeader(b)
      PROVE  Rest'
  BY <1>3 DEF OnBlockHeader, TypeOK
<1>4. ASSUME NEW batch \in batches, OnQcBuilt(batch)
      PROVE  Rest'
  <2>1. \A f : Signers(f) \subseteq Validators
    BY DEF Signers
  <2>2. batch.block \in Blocks
    BY DEF TypeOK
  <2>3. qcs' = qcs \cup {[block |-> batch.block,
                          signers |-> Signers(AllVerified(batch)),
                          power |-> ListPower(AllVerified(batch))]}
    BY <1>4 DEF OnQcBuilt
  <2>4. \A qc \in qcs' : qc.block \in Blocks /\ qc.signers \subseteq Validators
    BY <2>1, <2>2, <2>3 DEF TypeOK
  <2>5. UNCHANGED <<view, committed, headers, received, bad>>
    BY <1>4 DEF OnQcBuilt
  <2> QED
    BY <2>4, <2>5 DEF TypeOK
<1>5. ASSUME NEW batch \in batches, OnQcNotBuilt(batch)
      PROVE  Rest'
  <2>1. batch.block \in Blocks
    BY DEF TypeOK
  <2>2. received' \in [Validators -> Blocks \cup {None}]
    <3>1. received' = Record(received, Signers(AllVerified(batch)), batch.block)
      BY <1>5 DEF OnQcNotBuilt
    <3> QED
      BY <2>1, <3>1 DEF Record, TypeOK
  <2>3. view' \in Nat
    <3>1. view' = view \/ view' = Round[batch.block]
      BY <1>5 DEF OnQcNotBuilt
    <3> QED
      BY <2>1, <3>1 DEF TypeOK
  <2>4. UNCHANGED <<committed, headers, qcs, bad>>
    BY <1>5 DEF OnQcNotBuilt
  <2> QED
    BY <2>2, <2>3, <2>4 DEF TypeOK
<1>6. ASSUME AdvanceRound
      PROVE  Rest'
  BY <1>6 DEF AdvanceRound, TypeOK
<1>7. ASSUME CommitHeight
      PROVE  Rest'
  BY <1>7 DEF CommitHeight, TypeOK
<1> QED
  BY <1>1, <1>2, <1>3, <1>4, <1>5, <1>6, <1>7 DEF Next

\* The inductive invariant holds for every committee: initially there are no
\* vote sets, and every step keeps it.
THEOREM VotesInOrder == Spec => []IInv
<1> USE VoteAssumption
<1>1. Init => IInv
  <2> SUFFICES ASSUME Init PROVE IInv
    OBVIOUS
  <2>1. TypeOK
    BY DEF Init, TypeOK
  <2>2. BadRecorded /\ PendingHasBatch /\ NoMissedTrigger /\ SeenVotesAccounted
    BY DEF Init, BadRecorded, PendingHasBatch, NoMissedTrigger,
           SeenVotesAccounted
  <2> QED
    BY <2>1, <2>2 DEF IInv
<1>2. IInv /\ [Next]_vars => IInv'
  <2> SUFFICES ASSUME IInv, [Next]_vars PROVE IInv'
    OBVIOUS
  <2>1. TypeOK /\ VotesInv
    BY IInvSplit
  <2>2. CASE Next
    <3>1. VotesInv'
      BY <2>1, <2>2, StepKeepsVotes
    <3>2. TypeOK'
      BY <2>1, <2>2, <3>1, StepKeepsTypes
    <3>3. (TypeOK /\ VotesInv => IInv)'
      BY IInvSplit, PTL
    <3> QED
      BY <3>1, <3>2, <3>3
  <2>3. CASE UNCHANGED vars
    BY <2>3 DEF vars, IInv, TypeOK, BadRecorded, PendingHasBatch, InFlight,
                NoMissedTrigger, ShouldTrigger, SeenVotesAccounted
  <2> QED
    BY <2>2, <2>3
<1> QED
  BY <1>1, <1>2, PTL DEF Spec

\* Every variable keeps its type.
THEOREM VotesTypeCorrect == Spec => []TypeOK
<1>1. IInv => TypeOK
  BY DEF IInv
<1> QED
  BY <1>1, VotesInOrder, PTL

\* pending_verification is set only while the crypto pool works on a batch of
\* the block, so no vote set waits for an answer that never comes.
THEOREM PendingIsAnswered == Spec => []PendingHasBatch
<1>1. IInv => PendingHasBatch
  BY DEF IInv
<1> QED
  BY <1>1, VotesInOrder, PTL

\* Between handlers no vote set satisfies should_trigger_verification.
THEOREM TriggerNotMissed == Spec => []NoMissedTrigger
<1>1. IInv => NoMissedTrigger
  BY DEF IInv
<1> QED
  BY <1>1, VotesInOrder, PTL

\* A well-signed vote that on_block_vote accepted is buffered, being verified
\* or verified until the certificate is there.
THEOREM NoVoteLost == Spec => []SeenVotesAccounted
<1>1. IInv => SeenVotesAccounted
  BY DEF IInv
<1> QED
  BY <1>1, VotesInOrder, PTL
=============================================================================
