---------------------------- MODULE CatchUpProofs ----------------------------
(***************************************************************************)
(* Proofs about CatchUp, for every chain length, window, limit and bound.  *)
(* The invariant relates what the sync manager believes to be on its way   *)
(* to what the state machine holds.                                        *)
(***************************************************************************)
EXTENDS CatchUp, FiniteSetTheorems, TLAPS

\* The manager never runs ahead of the state machine, and every height it
\* counts as in flight has a task that will report.
ManagerBehind ==
    /\ mgrHeight <= committed
    /\ inFlight \subseteq tasks

\* As long as no bad certificate was fetched there is none anywhere.
NothingBad ==
    bads = 0 =>
        \A h \in Heights :
            /\ responses[<<h, "bad">>] = 0 /\ jobs[<<h, "bad">>] = 0
            /\ buffered[h] # "bad" /\ pending[h] # "bad"

\* Only uncommitted heights are buffered or being verified.
HeldAbove ==
    \A h \in Heights : buffered[h] # "none" \/ pending[h] # "none" => h > committed

\* The inductive invariant.
IInv ==
    /\ TypeOK
    /\ ManagerBehind
    /\ NothingBad
    /\ HeldAbove
    /\ ManagerServesSync
    /\ BufferedCommitsComplete
    /\ VerificationOutstanding
    /\ NoHeightLost

\* What does not shrink stays positive.
LEMMA StaysPositive == \A a, b \in Nat : b >= a /\ a > 0 => b > 0
  OBVIOUS

\* Counting one more of some blocks keeps a multiset a multiset.
LEMMA MoreFacts ==
    ASSUME NEW count \in [Fetched -> Nat], NEW xs
    PROVE  /\ More(count, xs) \in [Fetched -> Nat]
           /\ \A x \in Fetched : More(count, xs)[x] >= count[x]
           /\ \A x \in Fetched : x \in xs => More(count, xs)[x] > 0
           /\ \A x \in Fetched : x \notin xs => More(count, xs)[x] = count[x]
  BY DEF More

\* Taking one away as well, when there is one.
LEMMA LessFacts ==
    ASSUME NEW count \in [Fetched -> Nat], NEW y \in Fetched, count[y] > 0
    PROVE  /\ Less(count, y) \in [Fetched -> Nat]
           /\ \A x \in Fetched : x # y => Less(count, y)[x] = count[x]
           /\ \A x \in Fetched : Less(count, y)[x] <= count[x]
  BY DEF Less

\* The window lies above the manager's height and not beyond the target.
LEMMA WindowFacts ==
    ASSUME NEW a \in 0..Tip, NEW goal \in 0..Tip
    PROVE  /\ Window(a, goal) \subseteq Heights
           /\ \A h \in Window(a, goal) : h \in (a + 1)..goal
           /\ \A b \in 0..a : \A h \in Window(b, goal) : h > a => h \in Window(a, goal)
  BY ConstantsAssumption DEF Window, Smaller, Heights

\* What is above a height survives cleanup_old_state, and only that.
LEMMA AboveFacts ==
    ASSUME NEW Q, "none" \in Q, NEW f \in [Heights -> Q], NEW a \in 0..Tip
    PROVE  /\ Above(f, a) \in [Heights -> Q]
           /\ \A h \in Heights : h > a => Above(f, a)[h] = f[h]
           /\ \A h \in Heights : h <= a => Above(f, a)[h] = "none"
  BY ConstantsAssumption DEF Above, Heights

Kinds == Quality \cup {"none"}

\* What committing up to `last` and draining the buffer does to the blocks
\* that are held: those above `last` stay, buffered ones may move to
\* verification and then have a job, and nothing else becomes pending.
Drained(last, coms, buf, pend, ver, work) ==
    /\ committed' = last /\ commits' = coms /\ awaiting' \in SUBSET Heights
    /\ verified' = {h \in ver : h > last}
    /\ blocks' \in [Heights -> {"none", "incomplete", "complete"}]
    /\ pending' \in [Heights -> Kinds] /\ buffered' \in [Heights -> Kinds]
    /\ jobs' \in [Fetched -> Nat]
    /\ \A h \in Heights : h <= last => pending'[h] = "none" /\ buffered'[h] = "none"
    /\ \A h \in Heights : h > last =>
        /\ blocks'[h] = blocks[h]
        /\ pend[h] # "none" => pending'[h] = pend[h]
        /\ buf[h] # "none" => pending'[h] # "none" \/ buffered'[h] # "none"
        /\ pend[h] = "none" /\ pending'[h] # "none" =>
                pending'[h] = buf[h] /\ jobs'[<<h, buf[h]>>] > 0
        /\ buffered'[h] = "none" \/ buffered'[h] = buf[h]
    /\ \A x \in Fetched : jobs'[x] >= work[x]
    /\ \A h \in Heights, q \in Quality : jobs'[<<h, q>>] = work[<<h, q>>] \/ buf[h] = q

\* commit_block_and_buffered, with cleanup_old_state and the drain, does this.
LEMMA CommitAndDrainFacts ==
    ASSUME TypeOK,
           NEW last \in committed..Tip, NEW coms \in SUBSET Heights,
           NEW buf \in [Heights -> Kinds], NEW pend \in [Heights -> Kinds],
           NEW ver \in SUBSET Heights, NEW work \in [Fetched -> Nat],
           CommitAndDrain(last, coms, buf, pend, ver, work)
    PROVE  Drained(last, coms, buf, pend, ver, work)
<1> DEFINE buf0 == Above(buf, last)
           pend0 == Above(pend, last)
<1>0. /\ committed \in 0..Tip /\ Tip \in Nat /\ last \in 0..Tip
      /\ blocks \in [Heights -> {"none", "incomplete", "complete"}]
      /\ awaiting \subseteq Heights
  BY ConstantsAssumption DEF TypeOK
<1>1. PICK top \in last..Tip, end \in last..Tip :
        LET drained == (top + 1)..end
        IN  /\ Drains(last, buf0, pend0, top, end)
            /\ committed' = last
            /\ commits' = coms
            /\ blocks' = Above(blocks, last)
            /\ awaiting' = {h \in awaiting : h > last}
            /\ verified' = {h \in ver : h > last}
            /\ pending' = [h \in Heights |-> IF h \in drained THEN buf0[h] ELSE pend0[h]]
            /\ buffered' = [h \in Heights |-> IF h \in drained THEN "none" ELSE buf0[h]]
            /\ jobs' = More(work, {<<h, buf0[h]>> : h \in drained})
  BY DEF CommitAndDrain
<1> DEFINE drained == (top + 1)..end
<1>2. /\ buf0 \in [Heights -> Kinds] /\ pend0 \in [Heights -> Kinds]
      /\ \A h \in Heights : h > last => buf0[h] = buf[h] /\ pend0[h] = pend[h]
      /\ \A h \in Heights : h <= last => buf0[h] = "none" /\ pend0[h] = "none"
  <2>1. "none" \in Kinds
    BY DEF Kinds
  <2>2. /\ Above(buf, last) \in [Heights -> Kinds]
        /\ \A h \in Heights : h > last => Above(buf, last)[h] = buf[h]
        /\ \A h \in Heights : h <= last => Above(buf, last)[h] = "none"
    BY <1>0, <2>1, AboveFacts
  <2>3. /\ Above(pend, last) \in [Heights -> Kinds]
        /\ \A h \in Heights : h > last => Above(pend, last)[h] = pend[h]
        /\ \A h \in Heights : h <= last => Above(pend, last)[h] = "none"
    BY <1>0, <2>1, AboveFacts
  <2> QED BY <2>2, <2>3
<1>3. /\ Above(blocks, last) \in [Heights -> {"none", "incomplete", "complete"}]
      /\ \A h \in Heights : h > last => Above(blocks, last)[h] = blocks[h]
  <2> DEFINE Data == {"none", "incomplete", "complete"}
  <2>1. "none" \in Data /\ blocks \in [Heights -> Data]
    BY <1>0
  <2> HIDE DEF Data
  <2>2. /\ Above(blocks, last) \in [Heights -> Data]
        /\ \A h \in Heights : h > last => Above(blocks, last)[h] = blocks[h]
    BY <1>0, <2>1, AboveFacts
  <2> QED BY <2>2 DEF Data
<1>4. /\ \A h \in Heights : pend0[h] # "none" => h <= top
      /\ \A h \in drained : buf0[h] # "none"
  BY <1>1 DEF Drains, PendingHeights
<1>5. drained \subseteq Heights /\ \A h \in drained : h > last /\ h > top
  BY <1>0 DEF Heights
<1>6. /\ jobs' \in [Fetched -> Nat]
      /\ \A x \in Fetched : jobs'[x] >= work[x]
      /\ \A x \in Fetched : x \in {<<h, buf0[h]>> : h \in drained} => jobs'[x] > 0
      /\ \A x \in Fetched : x \notin {<<h, buf0[h]>> : h \in drained} => jobs'[x] = work[x]
  BY <1>1, MoreFacts
<1>7. \A h \in Heights : h \in Int
  BY <1>0 DEF Heights
<1> HIDE DEF buf0, pend0, drained
<1>8. pending' \in [Heights -> Kinds] /\ buffered' \in [Heights -> Kinds]
  BY <1>1, <1>2 DEF Kinds, drained
<1>9. \A h \in Heights : /\ pending'[h] = IF h \in drained THEN buf0[h] ELSE pend0[h]
                         /\ buffered'[h] = IF h \in drained THEN "none" ELSE buf0[h]
  BY <1>1 DEF drained
<1>10. \A h \in drained : buf0[h] \in Quality /\ <<h, buf0[h]>> \in Fetched
  BY <1>2, <1>4, <1>5 DEF Kinds, Fetched
<1>11. \A h \in Heights : h <= last => pending'[h] = "none" /\ buffered'[h] = "none"
  BY <1>0, <1>2, <1>5, <1>7, <1>9
<1>12. ASSUME NEW h \in Heights, h > last
       PROVE  /\ pend[h] # "none" => pending'[h] = pend[h]
              /\ buf[h] # "none" => pending'[h] # "none" \/ buffered'[h] # "none"
              /\ pend[h] = "none" /\ pending'[h] # "none" =>
                    pending'[h] = buf[h] /\ jobs'[<<h, buf[h]>>] > 0
              /\ buffered'[h] = "none" \/ buffered'[h] = buf[h]
  <2>1. buf0[h] = buf[h] /\ pend0[h] = pend[h]
    BY <1>2, <1>12
  <2>2. CASE h \in drained
    <3>1. pend[h] = "none"
      BY <1>0, <1>4, <1>5, <1>7, <2>1, <2>2
    <3>2. jobs'[<<h, buf[h]>>] > 0
      BY <1>6, <1>10, <2>1, <2>2
    <3> QED BY <1>4, <1>9, <2>1, <2>2, <3>1, <3>2
  <2>3. CASE h \notin drained
    BY <1>9, <2>1, <2>3
  <2> QED BY <2>2, <2>3
<1>13. ASSUME NEW h \in Heights, NEW q \in Quality
       PROVE  jobs'[<<h, q>>] = work[<<h, q>>] \/ buf[h] = q
  <2>1. CASE h \in drained /\ buf0[h] = q
    BY <1>2, <1>5, <2>1
  <2>2. CASE ~(h \in drained /\ buf0[h] = q)
    <3>1. <<h, q>> \notin {<<i, buf0[i]>> : i \in drained}
      BY <2>2
    <3>2. <<h, q>> \in Fetched
      BY DEF Fetched
    <3> QED BY <1>6, <3>1, <3>2
  <2> QED BY <2>1, <2>2
<1>14. /\ committed' = last /\ commits' = coms /\ awaiting' \in SUBSET Heights
       /\ verified' = {h \in ver : h > last}
       /\ blocks' \in [Heights -> {"none", "incomplete", "complete"}]
       /\ \A h \in Heights : h > last => blocks'[h] = blocks[h]
  BY <1>0, <1>1, <1>3
<1> QED BY <1>6, <1>8, <1>11, <1>12, <1>13, <1>14 DEF Drained

\* The manager's variables have their types.
ManagerTypes ==
    /\ target \in 0..Tip /\ mgrHeight \in 0..Tip
    /\ queued \subseteq Heights /\ inFlight \subseteq Heights /\ tasks \subseteq Heights

\* Every height of the window is queued or in flight.
WindowUnderWay ==
    target # 0 => Window(mgrHeight, target) \subseteq queued \cup (inFlight \cap tasks)

\* After a commit the manager has the whole window under way, and has told
\* the state machine if the sync is over.
LEMMA EmitCommittedFacts ==
    ASSUME TypeOK, ManagerBehind, ManagerServesSync,
           NEW last \in (committed + 1)..Tip, EmitCommitted(last)
    PROVE  /\ ManagerTypes' /\ WindowUnderWay'
           /\ mgrHeight' = last /\ inFlight' \subseteq tasks'
           /\ target' # 0 => syncing' /\ last < target'
           /\ syncing' \in BOOLEAN /\ syncsDone' \in BOOLEAN /\ timer' \in BOOLEAN
<1>0. /\ target \in 0..Tip /\ committed \in 0..Tip /\ Tip \in Nat /\ last \in 0..Tip
      /\ queued \subseteq Heights /\ inFlight \subseteq Heights /\ tasks \subseteq Heights
      /\ inFlight \subseteq tasks
      /\ syncing \in BOOLEAN /\ syncsDone \in BOOLEAN /\ timer \in BOOLEAN
      /\ target # 0 => syncing
  BY ConstantsAssumption DEF TypeOK, ManagerBehind, ManagerServesSync
<1>1. /\ mgrHeight' = last /\ inFlight' = {h \in inFlight : h > last} /\ tasks' = tasks
      /\ timer' = timer
  BY DEF EmitCommitted, SetCommittedHeight
<1>2. Window(last, target) \subseteq Heights
  BY <1>0, WindowFacts
<1>3. CASE target # 0 /\ last >= target
  <2>1. target' = 0 /\ queued' = {} /\ syncing' = FALSE /\ syncsDone' = TRUE
    BY <1>3 DEF EmitCommitted, SetCommittedHeight
  <2>2. ManagerTypes' /\ WindowUnderWay' /\ inFlight' \subseteq tasks'
    BY <1>0, <1>1, <2>1 DEF ManagerTypes, WindowUnderWay
  <2>3. syncing' \in BOOLEAN /\ syncsDone' \in BOOLEAN /\ timer' \in BOOLEAN
    BY <1>0, <1>1, <2>1
  <2> QED BY <1>1, <2>1, <2>2, <2>3
<1>4. CASE ~(target # 0 /\ last >= target)
  <2>1. /\ target' = target /\ syncing' = syncing /\ syncsDone' = syncsDone
        /\ queued' = {h \in queued : h > last} \cup
                  (IF target = 0 THEN {} ELSE Window(last, target) \ inFlight')
    BY <1>4 DEF EmitCommitted, SetCommittedHeight
  <2>2. WindowUnderWay'
    BY <1>0, <1>1, <2>1 DEF WindowUnderWay
  <2>3. target # 0 => last < target
    BY <1>0, <1>4
  <2>4. ManagerTypes'
    BY <1>0, <1>1, <1>2, <2>1 DEF ManagerTypes
  <2> QED BY <1>0, <1>1, <2>1, <2>2, <2>3, <2>4
<1> QED BY <1>3, <1>4

\* StartSync, given to an idle manager, puts the whole window under way.
LEMMA StartSyncFacts ==
    ASSUME TypeOK, ManagerBehind, target = 0,
           NEW goal \in (committed + 1)..Tip, StartSync(goal)
    PROVE  /\ ManagerTypes' /\ WindowUnderWay'
           /\ mgrHeight' = mgrHeight /\ inFlight' \subseteq tasks'
           /\ target' = goal
<1>0. /\ committed \in 0..Tip /\ Tip \in Nat /\ goal \in 1..Tip /\ mgrHeight \in 0..Tip
      /\ queued \subseteq Heights /\ inFlight \subseteq Heights /\ tasks \subseteq Heights
      /\ inFlight \subseteq tasks
  BY ConstantsAssumption DEF TypeOK, ManagerBehind
<1> DEFINE queue == queued \cup (Window(mgrHeight, goal) \ inFlight)
<1>1. PICK S \in SUBSET queue :
        /\ target' = goal
        /\ queued' = queue \ S
        /\ inFlight' = inFlight \cup S
        /\ tasks' = tasks \cup S
        /\ mgrHeight' = mgrHeight
  <2>1. ~(target >= goal)
    BY <1>0
  <2> QED BY <2>1 DEF StartSync
<1>2. Window(mgrHeight, goal) \subseteq Heights
  BY <1>0, WindowFacts
<1>3. ManagerTypes'
  BY <1>0, <1>1, <1>2 DEF ManagerTypes
<1>4. Window(mgrHeight, goal) \subseteq queued' \cup (inFlight' \cap tasks')
  BY <1>0, <1>1
<1>5. WindowUnderWay'
  BY <1>1, <1>4 DEF WindowUnderWay
<1> QED BY <1>0, <1>1, <1>3, <1>5

\* What the rest of the invariant says about heights, with the fetched blocks
\* buf, pend and the answers `resp` in place of the variables.
Covered(h, buf, pend, resp) ==
    \/ h <= committed
    \/ h \in queued \cup (inFlight \cap tasks)
    \/ \E q \in Quality : resp[<<h, q>>] > 0
    \/ buf[h] # "none"
    \/ pend[h] # "none"

\* The variables of BftState and of the crypto pool have their types.
BftTypes ==
    /\ committed \in 0..Tip
    /\ blocks \in [Heights -> {"none", "incomplete", "complete"}]
    /\ commits \subseteq Heights /\ awaiting \subseteq Heights
    /\ buffered \in [Heights -> Kinds] /\ pending \in [Heights -> Kinds]
    /\ verified \subseteq Heights /\ jobs \in [Fetched -> Nat]
    /\ syncing \in BOOLEAN /\ syncsDone \in BOOLEAN /\ timer \in BOOLEAN

\* The invariant, of the blocks a step starts from.
Ready(last, coms, buf, pend, ver, work) ==
    /\ bads = 0 => \A h \in Heights :
         /\ buf[h] # "bad" /\ pend[h] # "bad"
         /\ work[<<h, "bad">>] = 0 /\ responses'[<<h, "bad">>] = 0
    /\ \A h \in Heights : pend[h] # "none" /\ h \notin ver =>
         \E q \in Quality : work[<<h, q>>] > 0
    /\ \A h \in coms : h > last => blocks[h] = "complete"
    /\ bads = 0 /\ target # 0 =>
         \A h \in Window(mgrHeight, target) : Covered(h, buf, pend, responses')

\* A step that commits up to `last`, drains the buffer and reports to the
\* manager preserves the invariant, if the blocks it starts from satisfy it.
LEMMA CommitStep ==
    ASSUME TypeOK, ManagerBehind, ManagerServesSync,
           NEW last \in committed..Tip, NEW coms \in SUBSET Heights,
           NEW buf \in [Heights -> Kinds], NEW pend \in [Heights -> Kinds],
           NEW ver \in SUBSET Heights, NEW work \in [Fetched -> Nat],
           CommitAndDrain(last, coms, buf, pend, ver, work),
           bads' = bads, responses' \in [Fetched -> Nat],
           Ready(last, coms, buf, pend, ver, work)
    PROVE  /\ BftTypes' /\ ManagerTypes' /\ ManagerBehind' /\ NothingBad' /\ HeldAbove'
           /\ ManagerServesSync' /\ BufferedCommitsComplete'
           /\ VerificationOutstanding' /\ NoHeightLost'
<1>. USE DEF Ready
<1>0. /\ committed \in 0..Tip /\ Tip \in Nat /\ last \in 0..Tip /\ target \in 0..Tip
      /\ mgrHeight \in 0..Tip
      /\ \A h \in Heights : h \in Int
      /\ \A h \in Heights, q \in Quality : <<h, q>> \in Fetched
      /\ "bad" \in Quality
  BY ConstantsAssumption DEF TypeOK, Heights, Fetched, Quality
<1>1. Drained(last, coms, buf, pend, ver, work)
  BY CommitAndDrainFacts
<1>2. /\ ManagerTypes' /\ inFlight' \subseteq tasks' /\ mgrHeight' <= last
      /\ target' # 0 => syncing' /\ mgrHeight' < target'
      /\ syncing' \in BOOLEAN /\ syncsDone' \in BOOLEAN /\ timer' \in BOOLEAN
      /\ \/ WindowUnderWay'
         \/ last = committed /\ UNCHANGED <<target, queued, inFlight, mgrHeight, tasks>>
  <2>1. CASE last > committed
    <3>1. last \in (committed + 1)..Tip /\ EmitCommitted(last)
      BY <1>0, <2>1 DEF CommitAndDrain
    <3> QED BY <1>0, <3>1, EmitCommittedFacts
  <2>2. CASE ~(last > committed)
    <3>1. /\ last = committed
          /\ UNCHANGED <<target, queued, inFlight, mgrHeight, tasks, syncing, syncsDone, timer>>
      BY <1>0, <2>2 DEF CommitAndDrain, mgrVars
    <3> QED BY <3>1 DEF TypeOK, ManagerBehind, ManagerServesSync, ManagerTypes
  <2> QED BY <2>1, <2>2
<1>3. BftTypes'
  BY <1>0, <1>1, <1>2 DEF BftTypes, Drained
<1>4. ManagerBehind' /\ ManagerServesSync'
  BY <1>1, <1>2 DEF ManagerBehind, ManagerServesSync, Drained
<1>5. NothingBad'
  <2>1. SUFFICES ASSUME bads = 0, NEW h \in Heights
                 PROVE  /\ responses'[<<h, "bad">>] = 0 /\ jobs'[<<h, "bad">>] = 0
                        /\ buffered'[h] # "bad" /\ pending'[h] # "bad"
    BY DEF NothingBad
  <2>2. jobs'[<<h, "bad">>] = 0
    BY <1>0, <1>1, <2>1 DEF Drained
  <2>3. buf[h] # "bad" /\ pend[h] # "bad"
    BY <2>1
  <2>4. CASE h <= last
    BY <1>1, <2>1, <2>2, <2>4 DEF Drained
  <2>5. CASE h > last
    <3>1. /\ pend[h] # "none" => pending'[h] = pend[h]
          /\ pend[h] = "none" /\ pending'[h] # "none" => pending'[h] = buf[h]
          /\ buffered'[h] = "none" \/ buffered'[h] = buf[h]
      BY <1>1, <2>5 DEF Drained
    <3> QED BY <2>1, <2>2, <2>3, <3>1
  <2> QED BY <1>0, <2>1, <2>2, <2>4, <2>5
<1>6. HeldAbove'
  BY <1>0, <1>1 DEF HeldAbove, Drained
<1>7. BufferedCommitsComplete'
  BY <1>0, <1>1 DEF BufferedCommitsComplete, Drained
<1>8. VerificationOutstanding'
  <2>1. SUFFICES ASSUME NEW h \in Heights, pending'[h] # "none", h \notin verified'
                 PROVE  \E q \in Quality : jobs'[<<h, q>>] > 0
    BY DEF VerificationOutstanding, PendingHeights
  <2>2. h > last /\ h \notin ver
    BY <1>0, <1>1, <2>1 DEF Drained
  <2>3. CASE pend[h] # "none"
    <3>1. PICK q \in Quality : work[<<h, q>>] > 0
      BY <2>2, <2>3, SMTT(90)
    <3>2. jobs'[<<h, q>>] >= work[<<h, q>>] /\ jobs'[<<h, q>>] \in Nat /\ work[<<h, q>>] \in Nat
      BY <1>0, <1>1 DEF Drained
    <3>3. jobs'[<<h, q>>] > 0
      BY <3>1, <3>2, StaysPositive, Zenon
    <3> QED BY <3>3, Zenon
  <2>4. CASE pend[h] = "none"
    <3>1. pending'[h] = buf[h] /\ jobs'[<<h, buf[h]>>] > 0
      BY <1>1, <2>1, <2>2, <2>4, SMTT(90) DEF Drained
    <3>2. buf[h] \in Quality
      BY <2>1, <3>1, SMTT(90) DEF Kinds
    <3> QED BY <3>1, <3>2
  <2> QED BY <2>3, <2>4
<1>9. NoHeightLost'
  <2>1. SUFFICES ASSUME bads = 0, target' # 0, NEW h \in Window(mgrHeight, target)'
                 PROVE  \/ h <= committed'
                        \/ h \in queued' \cup (inFlight' \cap tasks')
                        \/ \E q \in Quality : responses'[<<h, q>>] > 0
                        \/ buffered'[h] # "none"
                        \/ pending'[h] # "none"
    BY DEF NoHeightLost
  <2>2. CASE WindowUnderWay'
    BY <2>1, <2>2 DEF WindowUnderWay
  <2>3. CASE last = committed /\ UNCHANGED <<target, queued, inFlight, mgrHeight, tasks>>
    <3>1. h \in Window(mgrHeight, target) /\ h \in Heights /\ Covered(h, buf, pend, responses')
      BY <1>0, <2>1, <2>3, WindowFacts DEF Window
    <3>2. CASE h <= committed
      BY <1>1, <2>3, <3>2 DEF Drained
    <3>3. CASE h \in queued \cup (inFlight \cap tasks)
      BY <2>3, <3>3
    <3>4. CASE \E q \in Quality : responses'[<<h, q>>] > 0
      BY <3>4
    <3>5. CASE ~(h <= committed) /\ (buf[h] # "none" \/ pend[h] # "none")
      <4>1. h > last
        BY <1>0, <2>3, <3>1, <3>5
      <4>2. /\ pend[h] # "none" => pending'[h] = pend[h]
            /\ buf[h] # "none" => pending'[h] # "none" \/ buffered'[h] # "none"
        BY <1>1, <3>1, <4>1 DEF Drained
      <4> QED BY <3>5, <4>2
    <3> QED BY <3>1, <3>2, <3>3, <3>4, <3>5 DEF Covered
  <2> QED BY <1>2, <2>2, <2>3
<1> QED BY <1>2, <1>3, <1>4, <1>5, <1>6, <1>7, <1>8, <1>9

\* The variables that CommitStep does not speak of.
OtherTypes ==
    /\ latestQc \in 0..Tip /\ persisted \subseteq 0..Tip
    /\ responses \in [Fetched -> Nat]
    /\ failures \in Nat /\ bads \in Nat /\ restarts \in Nat

\* The pieces make up the type invariant, after a step too.
LEMMA TypesAssemble ==
    /\ BftTypes /\ ManagerTypes /\ OtherTypes => TypeOK
    /\ BftTypes' /\ ManagerTypes' /\ OtherTypes' => TypeOK'
<1>1. BftTypes /\ ManagerTypes /\ OtherTypes => TypeOK
  BY DEF TypeOK, BftTypes, ManagerTypes, OtherTypes, Kinds
<1>2. BftTypes' /\ ManagerTypes' /\ OtherTypes' => TypeOK'
  BY DEF TypeOK, BftTypes, ManagerTypes, OtherTypes, Kinds
<1> QED BY <1>1, <1>2

\* The invariant holds initially.
LEMMA InitHolds == Init => IInv
<1> SUFFICES ASSUME Init PROVE IInv
  OBVIOUS
<1>1. /\ Tip \in Nat \ {0}
      /\ NoBlocks \in [Heights -> Kinds]
      /\ NoBlocks \in [Heights -> {"none", "incomplete", "complete"}]
      /\ \A h \in Heights : NoBlocks[h] = "none"
      /\ Nothing \in [Fetched -> Nat]
      /\ \A h \in Heights : Nothing[<<h, "bad">>] = 0
  BY ConstantsAssumption DEF NoBlocks, Nothing, Kinds, Fetched, Quality
<1>2. BftTypes
  <2>1. syncing \in BOOLEAN /\ syncsDone \in BOOLEAN /\ timer \in BOOLEAN
    BY DEF Init
  <2> QED BY <1>1, <2>1 DEF Init, BftTypes
<1>3. ManagerTypes /\ OtherTypes /\ ManagerBehind /\ ManagerServesSync
  BY <1>1 DEF Init, ManagerTypes, OtherTypes, ManagerBehind, ManagerServesSync
<1>4. NothingBad /\ HeldAbove /\ VerificationOutstanding
  BY <1>1 DEF Init, NothingBad, HeldAbove, VerificationOutstanding, PendingHeights
<1>5. BufferedCommitsComplete /\ NoHeightLost
  BY DEF Init, BufferedCommitsComplete, NoHeightLost
<1> QED BY <1>2, <1>3, <1>4, <1>5, TypesAssemble DEF IInv

\* The process restarts with nothing but the committed height.
LEMMA RestartHolds == IInv /\ Restart => IInv'
<1> SUFFICES ASSUME IInv, Restart PROVE IInv'
  OBVIOUS
<1>1. /\ Tip \in Nat \ {0}
      /\ NoBlocks \in [Heights -> Kinds]
      /\ NoBlocks \in [Heights -> {"none", "incomplete", "complete"}]
      /\ \A h \in Heights : NoBlocks[h] = "none"
      /\ Nothing \in [Fetched -> Nat]
      /\ \A h \in Heights : Nothing[<<h, "bad">>] = 0
  BY ConstantsAssumption DEF NoBlocks, Nothing, Kinds, Fetched, Quality
<1>2. /\ committed' \in 0..Tip /\ persisted' \subseteq 0..Tip
      /\ failures \in Nat /\ bads \in Nat /\ restarts \in Nat
  BY DEF IInv, TypeOK, Restart
<1>3. timer' \in BOOLEAN /\ syncing' \in BOOLEAN /\ syncsDone' \in BOOLEAN
  BY DEF Restart
<1>4. BftTypes'
  BY <1>1, <1>2, <1>3 DEF Restart, BftTypes
<1>5. ManagerTypes' /\ OtherTypes' /\ ManagerBehind' /\ ManagerServesSync'
  BY <1>1, <1>2 DEF Restart, ManagerTypes, OtherTypes, ManagerBehind, ManagerServesSync
<1>6. NothingBad' /\ HeldAbove' /\ VerificationOutstanding'
  BY <1>1 DEF Restart, NothingBad, HeldAbove, VerificationOutstanding, PendingHeights
<1>7. BufferedCommitsComplete' /\ NoHeightLost'
  BY DEF Restart, BufferedCommitsComplete, NoHeightLost
<1> QED BY <1>4, <1>5, <1>6, <1>7, TypesAssemble DEF IInv

\* Stuttering changes nothing.
LEMMA StutterHolds == IInv /\ UNCHANGED vars => IInv'
<1> SUFFICES ASSUME IInv, UNCHANGED vars PROVE IInv'
  OBVIOUS
<1> USE DEF vars, bftVars, mgrVars, bounds
<1>1. TypeOK'
  BY DEF IInv, TypeOK
<1>2. ManagerBehind' /\ NothingBad' /\ HeldAbove' /\ ManagerServesSync'
  BY DEF IInv, ManagerBehind, NothingBad, HeldAbove, ManagerServesSync
<1>3. BufferedCommitsComplete' /\ VerificationOutstanding'
  BY DEF IInv, BufferedCommitsComplete, VerificationOutstanding, PendingHeights
<1>4. NoHeightLost'
  BY DEF IInv, NoHeightLost, Window, Smaller
<1> QED BY <1>1, <1>2, <1>3, <1>4 DEF IInv

\* A step that commits blocks the validator holds, or that sync verified.
LEMMA CommitHolds ==
    ASSUME IInv,
           NEW last \in committed..Tip, NEW coms \in SUBSET commits,
           NEW ver \in SUBSET Heights, NEW work \in [Fetched -> Nat],
           CommitAndDrain(last, coms, buffered, pending, ver, work),
           UNCHANGED <<responses, bounds>>, latestQc' \in 0..Tip, persisted' \subseteq 0..Tip,
           bads = 0 => \A h \in Heights : work[<<h, "bad">>] = 0,
           \A h \in Heights : pending[h] # "none" /\ h \notin ver =>
                \E q \in Quality : work[<<h, q>>] > 0
    PROVE  IInv'
<1>1. /\ TypeOK /\ ManagerBehind /\ ManagerServesSync
      /\ coms \in SUBSET Heights
      /\ buffered \in [Heights -> Kinds] /\ pending \in [Heights -> Kinds]
      /\ bads' = bads /\ responses' = responses /\ responses \in [Fetched -> Nat]
  BY DEF IInv, TypeOK, Kinds, bounds
<1>2. bads = 0 => \A h \in Heights :
            /\ buffered[h] # "bad" /\ pending[h] # "bad"
            /\ work[<<h, "bad">>] = 0 /\ responses'[<<h, "bad">>] = 0
  BY <1>1 DEF IInv, NothingBad
<1>3. \A h \in coms : h > last => blocks[h] = "complete"
  <2>1. committed \in Int /\ last \in Int /\ last >= committed /\ \A h \in coms : h \in Int
    BY <1>1, ConstantsAssumption DEF TypeOK, Heights
  <2> QED BY <2>1 DEF IInv, BufferedCommitsComplete
<1>4. bads = 0 /\ target # 0 =>
        \A h \in Window(mgrHeight, target) : Covered(h, buffered, pending, responses')
  BY <1>1 DEF IInv, NoHeightLost, Covered
<1>5. Ready(last, coms, buffered, pending, ver, work)
  BY <1>2, <1>3, <1>4 DEF Ready
<1>6. /\ BftTypes' /\ ManagerTypes' /\ ManagerBehind' /\ NothingBad' /\ HeldAbove'
      /\ ManagerServesSync' /\ BufferedCommitsComplete'
      /\ VerificationOutstanding' /\ NoHeightLost'
  BY <1>1, <1>5, CommitStep
<1>7. OtherTypes'
  BY <1>1 DEF OtherTypes, IInv, TypeOK, bounds
<1> QED BY <1>6, <1>7, TypesAssemble DEF IInv

\* NoHeightLost looks at the manager, the channel and the buffers only.
LEMMA NoHeightLostElsewhere ==
    ASSUME NoHeightLost,
           UNCHANGED <<bads, target, mgrHeight, committed, queued, inFlight, tasks,
                       responses, buffered, pending>>
    PROVE  NoHeightLost'
BY DEF NoHeightLost

\* A step that changes only what the validator knows of the chain.
LEMMA KnowledgeHolds ==
    ASSUME IInv,
           UNCHANGED <<committed, buffered, pending, verified, jobs, responses,
                       mgrVars, syncing, syncsDone, timer, bounds>>,
           latestQc' \in 0..Tip, persisted' \subseteq 0..Tip,
           blocks' \in [Heights -> {"none", "incomplete", "complete"}],
           commits' \in SUBSET Heights, awaiting' \in SUBSET Heights,
           BufferedCommitsComplete'
    PROVE  IInv'
<1> USE DEF mgrVars, bounds
<1>1. TypeOK'
  BY SMTT(90) DEF IInv, TypeOK
<1>2. ManagerBehind' /\ NothingBad' /\ HeldAbove' /\ ManagerServesSync'
  <2>1. ManagerBehind /\ NothingBad /\ HeldAbove /\ ManagerServesSync
    BY DEF IInv
  <2>2. ManagerBehind' /\ ManagerServesSync'
    BY <2>1 DEF ManagerBehind, ManagerServesSync
  <2>3. NothingBad'
    BY <2>1 DEF NothingBad
  <2>4. HeldAbove'
    BY <2>1 DEF HeldAbove
  <2> QED BY <2>2, <2>3, <2>4
<1>3. VerificationOutstanding'
  BY DEF IInv, VerificationOutstanding, PendingHeights
<1>4. NoHeightLost'
  BY NoHeightLostElsewhere DEF IInv
<1> QED BY <1>1, <1>2, <1>3, <1>4 DEF IInv

\* on_block_ready_to_commit and commit_block_and_buffered.
LEMMA BlockReadyToCommitHolds ==
    ASSUME IInv, NEW h \in Heights, BlockReadyToCommit(h),
           UNCHANGED <<latestQc, persisted, responses, bounds>>
    PROVE  IInv'
<1>0. /\ committed \in 0..Tip /\ Tip \in Nat /\ latestQc' \in 0..Tip /\ persisted' \subseteq 0..Tip
      /\ blocks \in [Heights -> {"none", "incomplete", "complete"}]
      /\ commits \in SUBSET Heights /\ awaiting \in SUBSET Heights
      /\ verified \in SUBSET Heights /\ jobs \in [Fetched -> Nat]
  BY ConstantsAssumption DEF IInv, TypeOK
<1>1. CASE /\ blocks[h] = "incomplete"
           /\ awaiting' = awaiting \cup {h}
           /\ UNCHANGED <<committed, blocks, commits, buffered, pending, verified,
                          mgrVars, syncing, syncsDone, timer, jobs>>
  <2>1. BufferedCommitsComplete'
    BY <1>1 DEF IInv, BufferedCommitsComplete
  <2> QED BY <1>0, <1>1, <2>1, KnowledgeHolds
<1>2. CASE /\ blocks[h] = "complete" /\ h # committed + 1
           /\ commits' = commits \cup {h}
           /\ UNCHANGED <<committed, blocks, awaiting, buffered, pending, verified,
                          mgrVars, syncing, syncsDone, timer, jobs>>
  <2>1. BufferedCommitsComplete'
    BY <1>2 DEF IInv, BufferedCommitsComplete
  <2> QED BY <1>0, <1>2, <2>1, KnowledgeHolds
<1>3. CASE /\ h = committed + 1
           /\ \E last \in h..Tip : CommitAndDrain(last, commits \ ((h + 1)..(last + 1)),
                                                  buffered, pending, verified, jobs)
  <2>1. PICK last \in h..Tip : CommitAndDrain(last, commits \ ((h + 1)..(last + 1)),
                                              buffered, pending, verified, jobs)
    BY <1>3
  <2>2. last \in committed..Tip /\ commits \ ((h + 1)..(last + 1)) \in SUBSET commits
    BY <1>0, <1>3
  <2>3. /\ bads = 0 => \A i \in Heights : jobs[<<i, "bad">>] = 0
        /\ \A i \in Heights : pending[i] # "none" /\ i \notin verified =>
                \E q \in Quality : jobs[<<i, q>>] > 0
    BY DEF IInv, NothingBad, VerificationOutstanding, PendingHeights
  <2> QED BY <1>0, <2>1, <2>2, <2>3, CommitHolds
<1> QED BY <1>1, <1>2, <1>3 DEF BlockReadyToCommit

\* A block that becomes complete.
LEMMA BlockCompletedHolds ==
    ASSUME IInv, NEW h \in Heights, BlockCompleted(h)
    PROVE  IInv'
<1>0. /\ committed \in 0..Tip /\ Tip \in Nat /\ latestQc' \in 0..Tip /\ persisted' \subseteq 0..Tip
      /\ blocks \in [Heights -> {"none", "incomplete", "complete"}]
      /\ commits \in SUBSET Heights /\ awaiting \in SUBSET Heights
      /\ verified \in SUBSET Heights /\ jobs \in [Fetched -> Nat]
      /\ UNCHANGED <<responses, bounds>>
  BY ConstantsAssumption DEF IInv, TypeOK, BlockCompleted
<1>1. CASE h \notin awaiting
  <2>1. /\ blocks' = [blocks EXCEPT ![h] = "complete"]
        /\ UNCHANGED <<committed, commits, awaiting, buffered, pending, verified,
                       mgrVars, syncing, syncsDone, timer, jobs>>
    BY <1>1 DEF BlockCompleted
  <2>2. BufferedCommitsComplete'
    BY <1>0, <2>1 DEF IInv, BufferedCommitsComplete
  <2> QED BY <1>0, <2>1, <2>2, KnowledgeHolds
<1>2. CASE h \in awaiting /\ h # committed + 1
  <2>1. /\ blocks' = [blocks EXCEPT ![h] = "complete"]
        /\ awaiting' = awaiting \ {h}
        /\ commits' = commits \cup {h}
        /\ UNCHANGED <<committed, buffered, pending, verified,
                       mgrVars, syncing, syncsDone, timer, jobs>>
    BY <1>2 DEF BlockCompleted
  <2>2. BufferedCommitsComplete'
    BY <1>0, <2>1 DEF IInv, BufferedCommitsComplete
  <2> QED BY <1>0, <2>1, <2>2, KnowledgeHolds
<1>3. CASE h \in awaiting /\ h = committed + 1
  <2>1. PICK last \in h..Tip : CommitAndDrain(last, commits \ ((h + 1)..(last + 1)),
                                              buffered, pending, verified, jobs)
    BY <1>3 DEF BlockCompleted
  <2>2. last \in committed..Tip /\ commits \ ((h + 1)..(last + 1)) \in SUBSET commits
    BY <1>0, <1>3
  <2>3. /\ bads = 0 => \A i \in Heights : jobs[<<i, "bad">>] = 0
        /\ \A i \in Heights : pending[i] # "none" /\ i \notin verified =>
                \E q \in Quality : jobs[<<i, q>>] > 0
    BY DEF IInv, NothingBad, VerificationOutstanding, PendingHeights
  <2> QED BY <1>0, <2>1, <2>2, <2>3, CommitHolds
<1> QED BY <1>1, <1>2, <1>3

\* on_synced_block_ready: a block leaves the event channel and is filtered,
\* submitted or buffered.
LEMMA OnSyncedBlockReadyHolds ==
    ASSUME IInv, NEW h \in Heights, NEW q \in Quality, OnSyncedBlockReady(h, q)
    PROVE  IInv'
<1>0. /\ committed \in 0..Tip /\ Tip \in Nat /\ target \in 0..Tip /\ mgrHeight \in 0..Tip
      /\ <<h, q>> \in Fetched /\ q \in Kinds /\ q # "none"
      /\ responses \in [Fetched -> Nat] /\ jobs \in [Fetched -> Nat]
      /\ buffered \in [Heights -> Kinds] /\ pending \in [Heights -> Kinds]
      /\ commits \in SUBSET Heights /\ verified \in SUBSET Heights
      /\ \A i \in Heights, r \in Quality : <<i, r>> \in Fetched
      /\ "bad" \in Quality
  BY ConstantsAssumption DEF IInv, TypeOK, Fetched, Kinds, Quality
<1>1. /\ responses[<<h, q>>] > 0 /\ responses' = Less(responses, <<h, q>>)
      /\ UNCHANGED bounds /\ bads' = bads
  BY DEF OnSyncedBlockReady, bounds
<1>2. /\ responses' \in [Fetched -> Nat]
      /\ \A x \in Fetched : x # <<h, q>> => responses'[x] = responses[x]
      /\ \A x \in Fetched : responses'[x] <= responses[x]
  BY <1>0, <1>1, LessFacts
<1>3. bads = 0 => q = "good" /\ \A i \in Heights : responses'[<<i, "bad">>] = 0
  <2>1. bads = 0 => \A i \in Heights : responses[<<i, "bad">>] = 0
    BY DEF IInv, NothingBad
  <2>2. bads = 0 => q # "bad"
    BY <1>1, <2>1
  <2> QED BY <1>0, <1>2, <2>1, <2>2 DEF Quality
<1>4. ASSUME NEW i \in Heights, i # h, NEW r \in Quality
      PROVE  responses'[<<i, r>>] = responses[<<i, r>>]
  BY <1>0, <1>2, <1>4
<1>5. latestQc' \in 0..Tip /\ persisted' \subseteq 0..Tip /\ OtherTypes'
  BY <1>1, <1>2 DEF OnSyncedBlockReady, IInv, TypeOK, OtherTypes, bftVars, bounds
<1>6. \A i \in Window(mgrHeight, target) : i \in Heights
  BY <1>0, WindowFacts
<1>7. CASE h <= committed \/ pending[h] # "none" \/ buffered[h] # "none"
  <2>1. UNCHANGED <<bftVars, mgrVars, syncing, syncsDone, timer, jobs>>
    BY <1>7 DEF OnSyncedBlockReady
  <2> USE <2>1 DEF bftVars, mgrVars
  <2>2. TypeOK'
    BY <1>2, <1>5 DEF IInv, TypeOK, OtherTypes
  <2>3. ManagerBehind' /\ HeldAbove' /\ ManagerServesSync' /\ BufferedCommitsComplete'
    BY DEF IInv, ManagerBehind, HeldAbove, ManagerServesSync, BufferedCommitsComplete
  <2>4. VerificationOutstanding'
    BY DEF IInv, VerificationOutstanding, PendingHeights
  <2>5. NothingBad'
    BY <1>1, <1>3 DEF IInv, NothingBad
  <2>6. NoHeightLost'
    <3>1. Window(mgrHeight, target)' = Window(mgrHeight, target)
      BY DEF Window, Smaller
    <3>2. ASSUME bads = 0, target # 0, NEW i \in Window(mgrHeight, target)
          PROVE  \/ i <= committed
                 \/ i \in queued \cup (inFlight \cap tasks)
                 \/ \E r \in Quality : responses'[<<i, r>>] > 0
                 \/ buffered[i] # "none"
                 \/ pending[i] # "none"
      <4>1. CASE i = h
        BY <1>7, <4>1
      <4>2. CASE i # h
        BY <1>4, <1>6, <3>2, <4>2 DEF IInv, NoHeightLost
      <4> QED BY <4>1, <4>2
    <3> QED BY <1>1, <3>1, <3>2 DEF NoHeightLost
  <2> QED BY <2>2, <2>3, <2>4, <2>5, <2>6 DEF IInv
<1>8. CASE h > committed /\ pending[h] = "none" /\ buffered[h] = "none" /\ h = committed + 1
  <2>1. /\ pending' = [pending EXCEPT ![h] = q]
        /\ jobs' = More(jobs, {<<h, q>>})
        /\ UNCHANGED <<committed, latestQc, persisted, blocks, commits, awaiting, buffered,
                       verified, mgrVars, syncing, syncsDone, timer>>
    BY <1>0, <1>8 DEF OnSyncedBlockReady
  <2>2. /\ jobs' \in [Fetched -> Nat]
        /\ \A x \in Fetched : jobs'[x] >= jobs[x]
        /\ jobs'[<<h, q>>] > 0
        /\ \A x \in Fetched : x # <<h, q>> => jobs'[x] = jobs[x]
    BY <1>0, <2>1, MoreFacts
  <2>3. /\ pending' \in [Heights -> Kinds] /\ pending'[h] = q
        /\ \A i \in Heights : i # h => pending'[i] = pending[i]
    BY <1>0, <2>1
  <2> USE DEF mgrVars
  <2>4. TypeOK'
    BY <1>2, <1>5, <2>1, <2>2, <2>3 DEF IInv, TypeOK, OtherTypes, Kinds
  <2>5. ManagerBehind' /\ ManagerServesSync' /\ BufferedCommitsComplete'
    BY <2>1 DEF IInv, ManagerBehind, ManagerServesSync, BufferedCommitsComplete
  <2>6. HeldAbove'
    BY <1>0, <1>8, <2>1, <2>3 DEF IInv, HeldAbove
  <2>7. VerificationOutstanding'
    <3>1. SUFFICES ASSUME NEW i \in Heights, pending'[i] # "none", i \notin verified'
                   PROVE  \E r \in Quality : jobs'[<<i, r>>] > 0
      BY DEF VerificationOutstanding, PendingHeights
    <3>2. CASE i = h
      BY <2>2, <3>2
    <3>3. CASE i # h
      <4>1. PICK r \in Quality : jobs[<<i, r>>] > 0
        BY <2>1, <2>3, <3>1, <3>3, SMTT(90) DEF IInv, VerificationOutstanding, PendingHeights
      <4>2. jobs'[<<i, r>>] >= jobs[<<i, r>>] /\ jobs'[<<i, r>>] \in Nat /\ jobs[<<i, r>>] \in Nat
        BY <1>0, <2>2
      <4>3. jobs'[<<i, r>>] > 0
        BY <4>1, <4>2, StaysPositive, Zenon
      <4> QED BY <4>3, Zenon
    <3> QED BY <3>2, <3>3
  <2>8. NothingBad'
    <3>1. SUFFICES ASSUME bads = 0, NEW i \in Heights
                   PROVE  /\ responses'[<<i, "bad">>] = 0 /\ jobs'[<<i, "bad">>] = 0
                          /\ buffered'[i] # "bad" /\ pending'[i] # "bad"
      BY <1>1 DEF NothingBad
    <3>2. <<i, "bad">> # <<h, q>>
      BY <1>3, <3>1
    <3>3. jobs[<<i, "bad">>] = 0 /\ buffered[i] # "bad" /\ pending[i] # "bad"
      BY <3>1 DEF IInv, NothingBad
    <3> QED BY <1>0, <1>3, <2>1, <2>2, <2>3, <3>1, <3>2, <3>3
  <2>9. NoHeightLost'
    <3>1. Window(mgrHeight, target)' = Window(mgrHeight, target)
      BY <2>1 DEF Window, Smaller
    <3>2. ASSUME bads = 0, target # 0, NEW i \in Window(mgrHeight, target)
          PROVE  \/ i <= committed
                 \/ i \in queued \cup (inFlight \cap tasks)
                 \/ \E r \in Quality : responses'[<<i, r>>] > 0
                 \/ buffered[i] # "none"
                 \/ pending'[i] # "none"
      <4>1. CASE i = h
        BY <1>0, <2>3, <4>1, SMTT(90)
      <4>2. CASE i # h
        <5>1. i \in Heights
          BY <1>6
        <5>2. \/ i <= committed
              \/ i \in queued \cup (inFlight \cap tasks)
              \/ \E r \in Quality : responses[<<i, r>>] > 0
              \/ buffered[i] # "none"
              \/ pending[i] # "none"
          BY <3>2 DEF IInv, NoHeightLost
        <5> QED BY <1>4, <2>3, <4>2, <5>1, <5>2
      <4> QED BY <4>1, <4>2
    <3> QED BY <1>1, <2>1, <3>1, <3>2 DEF NoHeightLost
  <2> QED BY <2>4, <2>5, <2>6, <2>7, <2>8, <2>9 DEF IInv
<1>9. CASE h > committed /\ pending[h] = "none" /\ buffered[h] = "none" /\ h # committed + 1
  <2> DEFINE buf == [buffered EXCEPT ![h] = q]
  <2>1. CommitAndDrain(committed, commits, buf, pending, verified, jobs)
    BY <1>0, <1>9 DEF OnSyncedBlockReady, Heights
  <2>2. /\ buf \in [Heights -> Kinds] /\ buf[h] = q
        /\ \A i \in Heights : i # h => buf[i] = buffered[i]
    BY <1>0
  <2> HIDE DEF buf
  <2>3. Ready(committed, commits, buf, pending, verified, jobs)
    <3>1. bads = 0 => \A i \in Heights :
             /\ buf[i] # "bad" /\ pending[i] # "bad"
             /\ jobs[<<i, "bad">>] = 0 /\ responses'[<<i, "bad">>] = 0
      BY <1>3, <2>2 DEF IInv, NothingBad
    <3>2. \A i \in Heights : pending[i] # "none" /\ i \notin verified =>
             \E r \in Quality : jobs[<<i, r>>] > 0
      BY DEF IInv, VerificationOutstanding, PendingHeights
    <3>3. \A i \in commits : i > committed => blocks[i] = "complete"
      BY DEF IInv, BufferedCommitsComplete
    <3>4. ASSUME bads = 0, target # 0, NEW i \in Window(mgrHeight, target)
          PROVE  Covered(i, buf, pending, responses')
      <4>1. CASE i = h
        BY <1>0, <2>2, <4>1, SMTT(90) DEF Covered
      <4>2. CASE i # h
        <5>1. i \in Heights
          BY <1>6
        <5>2. \/ i <= committed
              \/ i \in queued \cup (inFlight \cap tasks)
              \/ \E r \in Quality : responses[<<i, r>>] > 0
              \/ buffered[i] # "none"
              \/ pending[i] # "none"
          BY <3>4 DEF IInv, NoHeightLost
        <5> QED BY <1>4, <2>2, <4>2, <5>1, <5>2 DEF Covered
      <4> QED BY <4>1, <4>2
    <3> QED BY <3>1, <3>2, <3>3, <3>4 DEF Ready
  <2>4. TypeOK /\ ManagerBehind /\ ManagerServesSync /\ committed \in committed..Tip
    BY <1>0 DEF IInv
  <2>5. /\ BftTypes' /\ ManagerTypes' /\ ManagerBehind' /\ NothingBad' /\ HeldAbove'
        /\ ManagerServesSync' /\ BufferedCommitsComplete'
        /\ VerificationOutstanding' /\ NoHeightLost'
    BY <1>0, <1>1, <1>2, <2>1, <2>2, <2>3, <2>4, CommitStep
  <2> QED BY <1>5, <2>5, TypesAssemble DEF IInv
<1> QED
  <2>1. h > committed \/ h <= committed
    BY <1>0 DEF Heights
  <2> QED BY <1>7, <1>8, <1>9, <2>1

\* on_qc_signature_verified: a synced block is dropped, or the next ones are
\* applied.
LEMMA OnQcSignatureVerifiedHolds ==
    ASSUME IInv, NEW h \in Heights, NEW q \in Quality, OnQcSignatureVerified(h, q)
    PROVE  IInv'
<1> DEFINE work == Less(jobs, <<h, q>>)
<1>0. /\ committed \in 0..Tip /\ Tip \in Nat /\ target \in 0..Tip /\ mgrHeight \in 0..Tip
      /\ latestQc \in 0..Tip /\ persisted \subseteq 0..Tip
      /\ <<h, q>> \in Fetched /\ jobs \in [Fetched -> Nat]
      /\ commits \in SUBSET Heights /\ verified \in SUBSET Heights
      /\ \A i \in Heights, r \in Quality : <<i, r>> \in Fetched
      /\ "bad" \in Quality
  BY ConstantsAssumption DEF IInv, TypeOK, Fetched, Quality
<1>1. jobs[<<h, q>>] > 0 /\ UNCHANGED <<responses, bounds>> /\ bads' = bads
  BY DEF OnQcSignatureVerified, bounds
<1>2. /\ work \in [Fetched -> Nat]
      /\ \A x \in Fetched : x # <<h, q>> => work[x] = jobs[x]
      /\ \A x \in Fetched : work[x] <= jobs[x]
  BY <1>0, <1>1, LessFacts
<1>3. bads = 0 => q # "bad" /\ \A i \in Heights : work[<<i, "bad">>] = 0
  <2>1. bads = 0 => \A i \in Heights : jobs[<<i, "bad">>] = 0
    BY DEF IInv, NothingBad
  <2>2. bads = 0 => q # "bad"
    BY <1>1, <2>1
  <2> QED BY <1>0, <1>2, <2>1, <2>2
<1>4. ASSUME NEW i \in Heights, i # h, pending[i] # "none", i \notin verified
      PROVE  \E r \in Quality : work[<<i, r>>] > 0
  <2>1. PICK r \in Quality : jobs[<<i, r>>] > 0
    BY <1>4 DEF IInv, VerificationOutstanding, PendingHeights
  <2>2. work[<<i, r>>] = jobs[<<i, r>>]
    BY <1>0, <1>2, <1>4, SMTT(90)
  <2> QED BY <2>1, <2>2
<1> HIDE DEF work
<1>5. \/ pending[h] = "none" /\ jobs' = work
         /\ UNCHANGED <<bftVars, mgrVars, syncing, syncsDone, timer>>
      \/ /\ pending[h] # "none" /\ q = "bad"
         /\ jobs' = work /\ pending' = NoBlocks /\ verified' = {}
         /\ UNCHANGED <<committed, latestQc, persisted, blocks, commits, awaiting, buffered,
                        mgrVars, syncing, syncsDone, timer>>
      \/ pending[h] # "none" /\ q = "good" /\ ApplyVerified(verified \cup {h}, work)
  BY DEF OnQcSignatureVerified, work
<1>6. CASE pending[h] = "none" /\ jobs' = work
           /\ UNCHANGED <<bftVars, mgrVars, syncing, syncsDone, timer>>
  <2> USE <1>1, <1>6 DEF bftVars, mgrVars, bounds
  <2>1. TypeOK'
    BY <1>2 DEF IInv, TypeOK
  <2>2. ManagerBehind' /\ HeldAbove' /\ ManagerServesSync' /\ BufferedCommitsComplete'
    BY DEF IInv, ManagerBehind, HeldAbove, ManagerServesSync, BufferedCommitsComplete
  <2>3. NothingBad'
    BY <1>3 DEF IInv, NothingBad
  <2>4. VerificationOutstanding'
    <3>1. ASSUME NEW i \in Heights, pending[i] # "none", i \notin verified
          PROVE  \E r \in Quality : work[<<i, r>>] > 0
      BY <1>4, <3>1
    <3>2. pending' = pending /\ verified' = verified /\ jobs' = work
      OBVIOUS
    <3> QED BY <3>1, <3>2 DEF VerificationOutstanding, PendingHeights
  <2>5. NoHeightLost'
    BY NoHeightLostElsewhere DEF IInv
  <2> QED BY <2>1, <2>2, <2>3, <2>4, <2>5 DEF IInv
<1>7. CASE /\ pending[h] # "none" /\ q = "bad"
           /\ jobs' = work /\ pending' = NoBlocks /\ verified' = {}
           /\ UNCHANGED <<committed, latestQc, persisted, blocks, commits, awaiting, buffered,
                          mgrVars, syncing, syncsDone, timer>>
  <2> USE <1>1, <1>7 DEF mgrVars, bounds
  <2>1. /\ NoBlocks \in [Heights -> Quality \cup {"none"}]
        /\ \A i \in Heights : NoBlocks[i] = "none"
    BY DEF NoBlocks
  <2>2. TypeOK'
    BY <1>2, <2>1 DEF IInv, TypeOK
  <2>3. ManagerBehind' /\ HeldAbove' /\ ManagerServesSync' /\ BufferedCommitsComplete'
    BY <2>1 DEF IInv, ManagerBehind, HeldAbove, ManagerServesSync, BufferedCommitsComplete
  <2>4. bads' # 0
    BY <1>3
  <2>5. VerificationOutstanding'
    BY <2>1 DEF VerificationOutstanding, PendingHeights
  <2> QED BY <2>2, <2>3, <2>4, <2>5 DEF IInv, NothingBad, NoHeightLost
<1>8. CASE pending[h] # "none" /\ q = "good" /\ ApplyVerified(verified \cup {h}, work)
  <2> DEFINE ver == verified \cup {h}
  <2>1. ver \in SUBSET Heights
    BY <1>0
  <2>2. /\ bads = 0 => \A i \in Heights : work[<<i, "bad">>] = 0
        /\ \A i \in Heights : pending[i] # "none" /\ i \notin ver =>
                \E r \in Quality : work[<<i, r>>] > 0
    BY <1>3, <1>4, SMTT(90)
  <2> HIDE DEF ver
  <2>3. CASE committed + 1 \notin ver
    <3>1. /\ CommitAndDrain(committed, commits, buffered, pending, ver, work)
          /\ latestQc' \in 0..Tip /\ persisted' \subseteq 0..Tip
      BY <1>0, <1>8, <2>3 DEF ApplyVerified, ver
    <3>2. committed \in committed..Tip /\ commits \in SUBSET commits
      BY <1>0
    <3> QED BY <1>1, <1>2, <2>1, <2>2, <3>1, <3>2, CommitHolds
  <2>4. CASE committed + 1 \in ver
    <3>1. PICK last \in (committed + 1)..Tip :
             /\ CommitAndDrain(last, commits \ ((committed + 2)..(last + 1)),
                               buffered, pending, ver, work)
             /\ latestQc' = Larger(latestQc, last)
             /\ persisted' = persisted \cup {committed + 1}
                                \cup (((committed + 2)..last) \ Committable)
      BY <1>8, <2>4 DEF ApplyVerified, ver
    <3>2. /\ last \in committed..Tip /\ latestQc' \in 0..Tip
          /\ commits \ ((committed + 2)..(last + 1)) \in SUBSET commits
      BY <1>0, <3>1 DEF Larger
    <3>3. persisted' \subseteq 0..Tip
      <4>1. committed + 1 \in 0..Tip /\ (committed + 2)..last \subseteq 0..Tip
        BY <1>0
      <4> QED BY <1>0, <3>1, <4>1
    <3>4. CommitAndDrain(last, commits \ ((committed + 2)..(last + 1)),
                         buffered, pending, ver, work)
      BY <3>1
    <3> QED BY <1>1, <1>2, <2>1, <2>2, <3>2, <3>3, <3>4, CommitHolds
  <2> QED BY <2>3, <2>4
<1> QED BY <1>5, <1>6, <1>7, <1>8

\* A sync that starts, from a header or from check_sync_health.
LEMMA StartSyncHolds ==
    ASSUME IInv, target = 0, NEW goal \in (committed + 1)..Tip, StartSync(goal),
           syncing' = TRUE, latestQc' \in 0..Tip, persisted' \subseteq 0..Tip,
           blocks' \in [Heights -> {"none", "incomplete", "complete"}],
           BufferedCommitsComplete',
           UNCHANGED <<committed, commits, awaiting, buffered, pending, verified,
                       jobs, responses, timer, bounds, syncsDone>>
    PROVE  IInv'
<1>0. committed \in 0..Tip /\ Tip \in Nat /\ mgrHeight \in 0..Tip /\ mgrHeight <= committed
  BY ConstantsAssumption DEF IInv, TypeOK, ManagerBehind
<1>1. /\ ManagerTypes' /\ WindowUnderWay' /\ mgrHeight' = mgrHeight
      /\ inFlight' \subseteq tasks' /\ target' = goal
  BY StartSyncFacts DEF IInv
<1> USE DEF bounds
<1>2. TypeOK'
  <2>1. syncing' \in BOOLEAN
    OBVIOUS
  <2> QED BY <1>1, <2>1 DEF IInv, TypeOK, ManagerTypes
<1>3. ManagerBehind' /\ ManagerServesSync'
  BY <1>0, <1>1 DEF ManagerBehind, ManagerServesSync
<1>4. NothingBad' /\ HeldAbove'
  BY DEF IInv, NothingBad, HeldAbove
<1>5. VerificationOutstanding'
  BY DEF IInv, VerificationOutstanding, PendingHeights
<1>6. NoHeightLost'
  BY <1>1 DEF NoHeightLost, WindowUnderWay
<1> QED BY <1>2, <1>3, <1>4, <1>5, <1>6 DEF IInv

\* on_block_header, with or without a sync.
LEMMA OnBlockHeaderHolds ==
    ASSUME IInv, NEW h \in Heights, NEW data \in {"incomplete", "complete"},
           NEW late \in BOOLEAN, OnBlockHeader(h, data, late)
    PROVE  IInv'
<1> DEFINE missing == h > 1 /\ ~HasCompleteBlock(h - 1)
           returns == h <= committed \/ late \/ blocks[h] # "none"
<1>0. /\ committed \in 0..Tip /\ Tip \in Nat /\ latestQc \in 0..Tip /\ h \in 1..Tip
      /\ blocks \in [Heights -> {"none", "incomplete", "complete"}]
      /\ target # 0 => syncing
  BY ConstantsAssumption DEF IInv, TypeOK, ManagerServesSync, Heights
<1>1. /\ syncing' = (syncing \/ missing)
      /\ latestQc' = IF h > 1 /\ ~missing THEN Larger(latestQc, h - 1) ELSE latestQc
      /\ blocks' = IF returns THEN blocks ELSE [blocks EXCEPT ![h] = data]
      /\ IF missing /\ ~syncing /\ ~returns THEN StartSync(h - 1) ELSE UNCHANGED mgrVars
      /\ UNCHANGED <<committed, persisted, commits, awaiting, buffered, pending, verified,
                     jobs, responses, timer, bounds, syncsDone>>
  BY DEF OnBlockHeader
<1>2. missing => h - 1 \in (committed + 1)..Tip
  BY <1>0 DEF HasCompleteBlock
<1>3. returns \/ blocks[h] = "none"
  OBVIOUS
<1> HIDE DEF missing, returns
<1>4. latestQc' \in 0..Tip /\ persisted' \subseteq 0..Tip
  BY <1>0, <1>1 DEF Larger, IInv, TypeOK
<1>5. blocks' \in [Heights -> {"none", "incomplete", "complete"}]
  BY <1>0, <1>1
<1>6. BufferedCommitsComplete'
  <2>1. \A i \in commits : i > committed => blocks[i] = "complete" /\ i \in Heights
    BY DEF IInv, TypeOK, BufferedCommitsComplete
  <2>2. \A i \in Heights : blocks[i] = "complete" => blocks'[i] = "complete"
    BY <1>0, <1>1, <1>3
  <2> QED BY <1>1, <2>1, <2>2 DEF BufferedCommitsComplete
<1>7. CASE missing /\ ~syncing /\ ~returns
  <2>1. target = 0 /\ StartSync(h - 1) /\ syncing' = TRUE
    BY <1>0, <1>1, <1>7
  <2> QED BY <1>1, <1>2, <1>4, <1>5, <1>6, <1>7, <2>1, StartSyncHolds
<1>8. CASE ~(missing /\ ~syncing /\ ~returns)
  <2> USE <1>1, <1>8 DEF mgrVars, bounds
  <2>1. UNCHANGED mgrVars /\ (syncing => syncing')
    OBVIOUS
  <2>2. syncing' \in BOOLEAN
    BY DEF IInv, TypeOK
  <2>3. TypeOK'
    BY <1>4, <1>5, <2>1, <2>2 DEF IInv, TypeOK
  <2>4. ManagerBehind' /\ NothingBad' /\ HeldAbove' /\ ManagerServesSync'
    BY <2>1 DEF IInv, ManagerBehind, NothingBad, HeldAbove, ManagerServesSync
  <2>5. VerificationOutstanding'
    BY DEF IInv, VerificationOutstanding, PendingHeights
  <2>6. NoHeightLost'
    BY <2>1 DEF IInv, NoHeightLost, Window, Smaller
  <2> QED BY <1>6, <2>3, <2>4, <2>5, <2>6 DEF IInv
<1> QED BY <1>7, <1>8

\* on_qc_formed.
LEMMA OnQcFormedHolds ==
    ASSUME IInv, NEW h \in Heights, OnQcFormed(h)
    PROVE  IInv'
<1>1. latestQc' \in 0..Tip /\ persisted' \subseteq 0..Tip
  BY ConstantsAssumption DEF OnQcFormed, Larger, IInv, TypeOK, Heights
<1>2. BufferedCommitsComplete'
  BY DEF OnQcFormed, IInv, BufferedCommitsComplete
<1>3. /\ UNCHANGED <<committed, buffered, pending, verified, jobs, responses,
                     mgrVars, syncing, syncsDone, timer, bounds>>
      /\ blocks' \in [Heights -> {"none", "incomplete", "complete"}]
      /\ commits' \in SUBSET Heights /\ awaiting' \in SUBSET Heights
  BY DEF OnQcFormed, IInv, TypeOK
<1> QED BY <1>1, <1>2, <1>3, KnowledgeHolds

\* check_sync_health.
LEMMA CheckSyncHealthHolds ==
    ASSUME IInv, CheckSyncHealth
    PROVE  IInv'
<1>1. /\ target = 0 /\ syncing' = TRUE /\ StartSync(latestQc)
      /\ UNCHANGED <<bftVars, jobs, responses, timer, bounds, syncsDone>>
      /\ latestQc \in (committed + 1)..Tip /\ latestQc \in 0..Tip
  BY ConstantsAssumption DEF CheckSyncHealth, IInv, TypeOK, ManagerServesSync
<1>2. BufferedCommitsComplete'
  BY <1>1 DEF IInv, BufferedCommitsComplete, bftVars
<1>3. /\ blocks' \in [Heights -> {"none", "incomplete", "complete"}]
      /\ latestQc' \in 0..Tip /\ persisted' \subseteq 0..Tip
  BY <1>1 DEF IInv, TypeOK, bftVars
<1> QED BY <1>1, <1>2, <1>3, StartSyncHolds DEF bftVars

\* SyncManager::tick: what was being fetched is delivered or queued again.
LEMMA TickHolds ==
    ASSUME IInv, NEW D \in SUBSET tasks, NEW out \in [D -> Quality \cup {"failed"}],
           NEW peers \in BOOLEAN, Tick(D, out, peers)
    PROVE  IInv'
<1> DEFINE Failed == {h \in D : out[h] = "failed"}
           Bad == {h \in D : out[h] = "bad"}
           queue == queued \cup Failed
           news == Delivered(D, out)
<1>0. /\ Tip \in Nat /\ D \subseteq Heights /\ committed \in 0..Tip
      /\ target \in 0..Tip /\ mgrHeight \in 0..Tip
      /\ queued \subseteq Heights /\ inFlight \subseteq tasks /\ tasks \subseteq Heights
      /\ responses \in [Fetched -> Nat] /\ failures \in Nat /\ bads \in Nat
  BY ConstantsAssumption DEF IInv, TypeOK, ManagerBehind
<1>1. IsFiniteSet(Failed) /\ IsFiniteSet(Bad)
  <2>1. IsFiniteSet(Heights)
    BY <1>0, FS_Interval DEF Heights
  <2>2. Failed \subseteq Heights /\ Bad \subseteq Heights
    BY <1>0
  <2> HIDE DEF Failed, Bad
  <2> QED BY <2>1, <2>2, FS_Subset
<1>2. PICK S \in SUBSET queue :
        /\ queued' = queue \ S
        /\ inFlight' = (inFlight \ D) \cup S
        /\ tasks' = (tasks \ D) \cup S
        /\ responses' = More(responses, news)
        /\ failures' = failures + Cardinality(Failed)
        /\ bads' = bads + Cardinality(Bad)
        /\ UNCHANGED <<bftVars, syncing, jobs, target, mgrHeight, timer,
                       restarts, syncsDone>>
  BY DEF Tick
<1>3. /\ failures' \in Nat /\ bads' \in Nat
      /\ bads' = 0 => bads = 0 /\ Bad = {}
  <2> HIDE DEF Failed, Bad
  <2>1. /\ Cardinality(Failed) \in Nat /\ Cardinality(Bad) \in Nat
        /\ Cardinality(Bad) = 0 <=> Bad = {}
    BY <1>1, FS_CardinalityType, FS_EmptySet
  <2> QED BY <1>0, <1>2, <2>1
<1>4. /\ responses' \in [Fetched -> Nat]
      /\ \A x \in Fetched : responses'[x] >= responses[x]
      /\ \A x \in Fetched : x \in news => responses'[x] > 0
      /\ \A x \in Fetched : x \notin news => responses'[x] = responses[x]
  BY <1>0, <1>2, MoreFacts
<1>5. queued' \subseteq Heights /\ inFlight' \subseteq tasks' /\ tasks' \subseteq Heights
  BY <1>0, <1>2, SMTT(90)
<1>6. ASSUME NEW h \in D, h \notin Failed
      PROVE  h \in Heights /\ out[h] \in Quality /\ responses'[<<h, out[h]>>] > 0
  <2>1. h \in Heights /\ out[h] \in Quality
    BY <1>0, <1>6
  <2>2. <<h, out[h]>> \in Fetched /\ <<h, out[h]>> \in news
    BY <2>1 DEF Fetched, Delivered
  <2> QED BY <1>4, <2>1, <2>2
<1>7. bads' = 0 => \A h \in Heights : <<h, "bad">> \notin news
  BY <1>3, SMTT(90) DEF Delivered
<1> HIDE DEF news
<1>8. TypeOK'
  BY <1>2, <1>3, <1>4, <1>5 DEF IInv, TypeOK, bftVars
<1>9. ManagerBehind' /\ HeldAbove' /\ ManagerServesSync' /\ BufferedCommitsComplete'
  BY <1>2, <1>5, SMTT(90) DEF IInv, ManagerBehind, HeldAbove, ManagerServesSync,
                    BufferedCommitsComplete, bftVars
<1>10. VerificationOutstanding'
  BY <1>2 DEF IInv, VerificationOutstanding, PendingHeights, bftVars
<1>11. NothingBad'
  <2>1. \A h \in Heights : <<h, "bad">> \in Fetched
    BY DEF Fetched, Quality
  <2> QED BY <1>2, <1>3, <1>4, <1>7, <2>1 DEF IInv, NothingBad, bftVars
<1>12. NoHeightLost'
  <2>1. Window(mgrHeight, target)' = Window(mgrHeight, target)
    BY <1>2 DEF Window, Smaller
  <2>2. ASSUME bads' = 0, target # 0, NEW h \in Window(mgrHeight, target)
        PROVE  \/ h <= committed
               \/ h \in queued' \cup (inFlight' \cap tasks')
               \/ \E q \in Quality : responses'[<<h, q>>] > 0
               \/ buffered[h] # "none"
               \/ pending[h] # "none"
    <3>1. h \in Heights
      BY <1>0, WindowFacts, SMTT(90)
    <3>2. CASE h \in queued \/ h \in Failed
      <4>1. h \in queue
        BY <3>2
      <4>2. /\ queued' = queue \ S
            /\ inFlight' = (inFlight \ D) \cup S
            /\ tasks' = (tasks \ D) \cup S
        BY <1>2
      <4> HIDE DEF queue
      <4>3. h \in queued' \cup (inFlight' \cap tasks')
        BY <4>1, <4>2
      <4> QED BY <4>3, Zenon
    <3>3. CASE h \in D /\ h \notin Failed
      BY <1>6, <3>3, SMTT(90)
    <3>4. CASE h \in (inFlight \cap tasks) \ D
      BY <1>2, <3>4
    <3>5. CASE \E q \in Quality : responses[<<h, q>>] > 0
      <4>1. PICK q \in Quality : responses[<<h, q>>] > 0
        BY <3>5
      <4>2. /\ responses'[<<h, q>>] >= responses[<<h, q>>]
            /\ responses'[<<h, q>>] \in Nat /\ responses[<<h, q>>] \in Nat
        BY <1>0, <1>4, <3>1 DEF Fetched
      <4>3. responses'[<<h, q>>] > 0
        BY <4>1, <4>2, StaysPositive, Zenon
      <4> QED BY <4>3, Zenon
    <3>6. \/ h <= committed
          \/ h \in queued \cup (inFlight \cap tasks)
          \/ \E q \in Quality : responses[<<h, q>>] > 0
          \/ buffered[h] # "none"
          \/ pending[h] # "none"
      BY <1>3, <2>2 DEF IInv, NoHeightLost
    <3> HIDE DEF Failed
    <3> QED BY <3>2, <3>3, <3>4, <3>5, <3>6
  <2> QED BY <1>2, <2>1, <2>2 DEF NoHeightLost, bftVars
<1> QED BY <1>8, <1>9, <1>10, <1>11, <1>12 DEF IInv

\* Every step of CatchUp preserves the invariant.
LEMMA NextHolds == IInv /\ [Next]_vars => IInv'
<1> SUFFICES ASSUME IInv, [Next]_vars PROVE IInv'
  OBVIOUS
<1>0. Proposals \subseteq Heights
  BY ConstantsAssumption
<1>1. CASE \E peers \in BOOLEAN : TickReporting({}, peers)
  BY <1>1, TickHolds DEF TickReporting
<1>2. CASE \E h \in Heights, q \in Quality : OnSyncedBlockReady(h, q)
  BY <1>2, OnSyncedBlockReadyHolds
<1>3. CASE \E h \in Heights, q \in Quality : OnQcSignatureVerified(h, q)
  BY <1>3, OnQcSignatureVerifiedHolds
<1>4. CASE \E h \in Proposals, data \in {"incomplete", "complete"}, late \in BOOLEAN :
              OnBlockHeader(h, data, late)
  BY <1>0, <1>4, OnBlockHeaderHolds
<1>5. CASE \E h \in Heights : OnQcFormed(h)
  BY <1>5, OnQcFormedHolds
<1>6. CASE \E h \in Heights : OnBlockReadyToCommit(h)
  BY <1>6, BlockReadyToCommitHolds DEF OnBlockReadyToCommit
<1>7. CASE \E h \in Heights : BlockCompleted(h)
  BY <1>7, BlockCompletedHolds
<1>8. CASE CheckSyncHealth
  BY <1>8, CheckSyncHealthHolds
<1>9. CASE Restart
  BY <1>9, RestartHolds
<1>10. CASE UNCHANGED vars
  BY <1>10, StutterHolds
<1> QED BY <1>1, <1>2, <1>3, <1>4, <1>5, <1>6, <1>7, <1>8, <1>9, <1>10 DEF Next

\* The relation between the manager and the state machine is invariant.
THEOREM CatchUpInvariant == Spec => []IInv
  BY InitHolds, NextHolds, PTL DEF Spec

\* Types of all variables, for every chain and every bound.
THEOREM CatchUpTypeCorrect == Spec => []TypeOK
<1>1. IInv => TypeOK
  BY DEF IInv
<1> QED BY <1>1, CatchUpInvariant, PTL

\* No height of the window is lost between the manager's queue, the fetch
\* tasks, the event channel and the buffers of BftState.
THEOREM CatchUpNoHeightLost == Spec => []NoHeightLost
<1>1. IInv => NoHeightLost
  BY DEF IInv
<1> QED BY <1>1, CatchUpInvariant, PTL

\* Every synced block under verification has a verification outstanding.
THEOREM CatchUpVerificationOutstanding == Spec => []VerificationOutstanding
<1>1. IInv => VerificationOutstanding
  BY DEF IInv
<1> QED BY <1>1, CatchUpInvariant, PTL

\* A commit that was buffered out of order finds its block complete.
THEOREM CatchUpBufferedCommitsComplete == Spec => []BufferedCommitsComplete
<1>1. IInv => BufferedCommitsComplete
  BY DEF IInv
<1> QED BY <1>1, CatchUpInvariant, PTL

\* The manager works only for a state machine in sync mode, towards a height
\* it has not reached.
THEOREM CatchUpManagerServesSync == Spec => []ManagerServesSync
<1>1. IInv => ManagerServesSync
  BY DEF IInv
<1> QED BY <1>1, CatchUpInvariant, PTL

-----------------------------------------------------------------------------
(* The blocks under verification                                           *)

\* Zenon from here on, unless a step names another prover.
USE ZenonT(60)

\* The heights under verification run from the next one to `end`, and are at
\* most MAX_PARALLEL_SYNC_VERIFICATIONS.
RunTo(pend, low, end) ==
    /\ end - low <= MaxParallel
    /\ PendingHeights(pend) = (low + 1)..end

\* VerificationInSequence, of any table and height.
InSequence(pend, low) ==
    LET n == Cardinality(PendingHeights(pend))
    IN  n <= MaxParallel /\ PendingHeights(pend) = (low + 1)..(low + n)

\* VerificationInSequence is InSequence of the table and the height.
LEMMA SequenceDef ==
    /\ VerificationInSequence <=> InSequence(pending, committed)
    /\ VerificationInSequence' <=> InSequence(pending', committed')
  BY DEF VerificationInSequence, InSequence, PendingHeights

\* A run of heights, told by its end instead of by its length.
LEMMA RunIsSequence ==
    ASSUME NEW pend, NEW low \in 0..Tip
    PROVE  InSequence(pend, low) <=> \E end \in low..Tip : RunTo(pend, low, end)
<1> DEFINE P == PendingHeights(pend)
           n == Cardinality(P)
<1>0. /\ low \in 0..Tip /\ Tip \in Nat /\ MaxParallel \in Nat
      /\ P \subseteq 1..Tip
  BY ConstantsAssumption DEF PendingHeights, Heights
<1>1. ASSUME NEW end \in low..Tip, RunTo(pend, low, end)
      PROVE  InSequence(pend, low)
  <2>1. P = (low + 1)..end /\ end - low <= MaxParallel /\ end \in Int
    BY <1>0, <1>1, SMTT(60) DEF RunTo
  <2>2. Cardinality((low + 1)..end)
          = IF low + 1 > end THEN 0 ELSE end - (low + 1) + 1
    BY <1>0, <2>1, FS_Interval, SMTT(60)
  <2>3. n = end - low
    BY <1>0, <1>1, <2>1, <2>2, SMTT(60)
  <2> HIDE DEF P, n
  <2>4. n <= MaxParallel /\ P = (low + 1)..(low + n)
    BY <1>0, <2>1, <2>3, SMTT(60)
  <2> QED BY <2>4 DEF InSequence, P, n
<1>2. ASSUME InSequence(pend, low)
      PROVE  \E end \in low..Tip : RunTo(pend, low, end)
  <2>1. n <= MaxParallel /\ P = (low + 1)..(low + n)
    BY <1>2 DEF InSequence
  <2>2. n \in Nat
    <3>1. IsFiniteSet(1..Tip)
      BY <1>0, FS_Interval, SMTT(60)
    <3>2. IsFiniteSet(P)
      BY <1>0, <3>1, FS_Subset
    <3> QED BY <3>2, FS_CardinalityType
  <2> HIDE DEF P, n
  <2>3. low + n \in low..Tip
    <3>1. CASE n = 0
      BY <1>0, <3>1, SMTT(60)
    <3>2. CASE n # 0
      <4>1. low + n \in P
        BY <1>0, <2>1, <2>2, <3>2, SMTT(60)
      <4> QED BY <1>0, <2>2, <4>1, SMTT(60)
    <3> QED BY <3>1, <3>2
  <2>4. RunTo(pend, low, low + n)
    BY <1>0, <2>1, <2>2, SMTT(60) DEF RunTo, P
  <2> QED BY <2>3, <2>4
<1> QED BY <1>1, <1>2

\* A commit leaves the rest of the run, and the drain continues it without a
\* gap and within the limit.
LEMMA DrainContinuesRun ==
    ASSUME TypeOK, VerificationInSequence,
           NEW last \in committed..Tip, NEW coms,
           NEW buf \in [Heights -> Kinds], NEW ver, NEW work,
           CommitAndDrain(last, coms, buf, pending, ver, work)
    PROVE  \E end \in last..Tip : committed' = last /\ RunTo(pending', last, end)
<1> DEFINE buf0 == Above(buf, last)
           pend0 == Above(pending, last)
<1>0. /\ committed \in 0..Tip /\ Tip \in Nat /\ last \in 0..Tip /\ MaxParallel \in Nat
      /\ pending \in [Heights -> Kinds] /\ last >= committed
      /\ Heights = 1..Tip
  BY ConstantsAssumption, SMTT(60) DEF TypeOK, Kinds, Heights
<1>1. PICK top \in last..Tip, end \in last..Tip :
        /\ Drains(last, buf0, pend0, top, end)
        /\ committed' = last
        /\ pending' = [h \in Heights |-> IF h \in (top + 1)..end THEN buf0[h] ELSE pend0[h]]
  BY DEF CommitAndDrain
<1>2. PICK e \in committed..Tip : RunTo(pending, committed, e)
  BY <1>0, RunIsSequence, SequenceDef
<1>3. /\ \A h \in Heights : pend0[h] # "none" <=> h > last /\ pending[h] # "none"
      /\ \A h \in Heights : buf0[h] # "none" <=> h > last /\ buf[h] # "none"
      /\ pend0 \in [Heights -> Kinds] /\ buf0 \in [Heights -> Kinds]
  BY <1>0 DEF Above, Kinds
<1>4. PendingHeights(pend0) = (last + 1)..e
  BY <1>0, <1>2, <1>3, SMTT(60) DEF RunTo, PendingHeights
<1> HIDE DEF buf0, pend0
<1>5. PICK m \in last..Tip : m - last <= MaxParallel /\ (last + 1)..e = (last + 1)..m
  <2>1. CASE e <= last
    <3>1. last \in last..Tip /\ last - last <= MaxParallel
          /\ (last + 1)..e = (last + 1)..last
      BY <1>0, <1>2, <2>1, SMTT(60)
    <3> QED BY <3>1
  <2>2. CASE e > last
    <3>1. e \in last..Tip /\ e - last <= MaxParallel
      BY <1>0, <1>2, <2>2, SMTT(60) DEF RunTo
    <3> QED BY <3>1
  <2> QED BY <1>0, <1>2, <2>1, <2>2, SMTT(60)
<1>6. Cardinality((last + 1)..m) = m - last
  <2>1. Cardinality((last + 1)..m) = IF last + 1 > m THEN 0 ELSE m - (last + 1) + 1
    BY <1>0, FS_Interval, SMTT(60)
  <2> QED BY <1>0, <2>1, SMTT(60)
<1>7. /\ top = m
      /\ end - top <= MaxParallel - (m - last) \/ end = top
      /\ \A h \in (top + 1)..end : buf0[h] # "none"
  <2>1. PendingHeights(pend0) = (last + 1)..m
    BY <1>4, <1>5
  <2>2. /\ \A h \in (last + 1)..m : h <= top
        /\ top = last \/ top \in (last + 1)..m
        /\ \A h \in (top + 1)..end : buf0[h] # "none"
        /\ end > top => end - top <= MaxParallel - (m - last)
        /\ top <= end
    BY <1>1, <1>6, <2>1 DEF Drains
  <2>3. top = m
    <3>1. CASE m = last
      BY <1>0, <2>2, <3>1, SMTT(60)
    <3>2. CASE m # last
      <4>1. m \in (last + 1)..m
        BY <1>0, <3>2, SMTT(60)
      <4> QED BY <1>0, <2>2, <4>1, SMTT(60)
    <3> QED BY <3>1, <3>2
  <2>4. end > top \/ end = top
    BY <1>0, <2>2, SMTT(60)
  <2> QED BY <2>2, <2>3, <2>4
<1>8. /\ PendingHeights(pending') = (last + 1)..end
      /\ end - last <= MaxParallel
  <2>1. end >= top
    BY <1>1 DEF Drains
  <2>2. end - last <= MaxParallel
    BY <1>0, <1>5, <1>7, <2>1, SMTT(60)
  <2>3. \A h \in Heights : pending'[h] # "none" <=> h \in (last + 1)..end
    <3> SUFFICES ASSUME NEW h \in Heights
                 PROVE  pending'[h] # "none" <=> h \in (last + 1)..end
      OBVIOUS
    <3>1. h \in (top + 1)..end => pending'[h] # "none" /\ h \in (last + 1)..end
      BY <1>0, <1>1, <1>7, SMTT(60)
    <3>2. pend0[h] # "none" <=> h \in (last + 1)..m
      BY <1>4, <1>5 DEF PendingHeights
    <3>3. h \notin (top + 1)..end => pending'[h] = pend0[h]
      BY <1>1
    <3> QED BY <1>0, <1>7, <2>1, <3>1, <3>2, <3>3, SMTT(60)
  <2> QED BY <1>0, <2>2, <2>3, SMTT(60) DEF PendingHeights
<1> QED BY <1>1, <1>8 DEF RunTo

\* The drain in terms of the property.
LEMMA DrainKeepsSequence ==
    ASSUME TypeOK, TypeOK', VerificationInSequence,
           NEW last \in committed..Tip, NEW coms,
           NEW buf \in [Heights -> Kinds], NEW ver, NEW work,
           CommitAndDrain(last, coms, buf, pending, ver, work)
    PROVE  VerificationInSequence'
<1>1. PICK end \in last..Tip : committed' = last /\ RunTo(pending', last, end)
  BY DrainContinuesRun
<1>2. end \in committed'..Tip /\ RunTo(pending', committed', end)
  BY <1>1
<1>3. committed' \in 0..Tip
  BY DEF TypeOK
<1> QED BY <1>2, <1>3, RunIsSequence, SequenceDef

\* Nothing under verification is a run of no height.
LEMMA NothingPending ==
    ASSUME NEW low \in Int
    PROVE  InSequence(NoBlocks, low)
<1>1. PendingHeights(NoBlocks) = {}
  BY DEF NoBlocks, PendingHeights
<1>2. Cardinality({}) = 0
  BY FS_EmptySet
<1>3. {} = (low + 1)..(low + 0)
  BY SMTT(60)
<1> QED BY <1>1, <1>2, <1>3, ConstantsAssumption, SMTT(60) DEF InSequence

\* A step that leaves the verifications and the height alone keeps it.
LEMMA SequenceUnchanged ==
    VerificationInSequence /\ UNCHANGED <<pending, committed>> => VerificationInSequence'
  BY DEF VerificationInSequence, PendingHeights

\* The commit of the next block and of the run of blocks buffered after it.
LEMMA CommitKeepsSequence ==
    ASSUME TypeOK, TypeOK', VerificationInSequence,
           NEW h \in Heights, h = committed + 1, NEW last \in h..Tip,
           NEW coms, NEW ver, NEW work,
           CommitAndDrain(last, coms, buffered, pending, ver, work)
    PROVE  VerificationInSequence'
<1>1. last \in committed..Tip /\ buffered \in [Heights -> Kinds]
  BY ConstantsAssumption, SMTT(60) DEF TypeOK, Kinds, Heights
<1> QED BY <1>1, DrainKeepsSequence

\* A fetched block whose signature is to be verified.
LEMMA SyncedBlockKeepsSequence ==
    ASSUME TypeOK, TypeOK', VerificationInSequence,
           NEW h \in Heights, NEW q \in Quality, OnSyncedBlockReady(h, q)
    PROVE  VerificationInSequence'
<1>0. /\ committed \in 0..Tip /\ Tip \in Nat /\ MaxParallel \in Nat \ {0}
      /\ Heights = 1..Tip /\ committed \in committed..Tip
      /\ pending \in [Heights -> Kinds] /\ buffered \in [Heights -> Kinds]
      /\ [buffered EXCEPT ![h] = q] \in [Heights -> Kinds]
      /\ q # "none"
  BY ConstantsAssumption, SMTT(60) DEF TypeOK, Kinds, Heights, Quality
<1>1. CASE UNCHANGED <<pending, committed>>
  BY <1>1, SequenceUnchanged
<1>2. CASE CommitAndDrain(committed, commits, [buffered EXCEPT ![h] = q],
                          pending, verified, jobs)
  BY <1>0, <1>2, DrainKeepsSequence
<1>3. CASE /\ pending[h] = "none" /\ h = committed + 1
           /\ pending' = [pending EXCEPT ![h] = q]
           /\ committed' = committed
  <2>1. PICK e \in committed..Tip : RunTo(pending, committed, e)
    BY <1>0, RunIsSequence, SequenceDef
  <2>2. h \notin PendingHeights(pending)
    BY <1>3 DEF PendingHeights
  <2>3. e = committed
    BY <1>0, <1>3, <2>1, <2>2, SMTT(60) DEF RunTo
  <2>4. \A x \in Heights : pending[x] = "none"
    <3>1. (committed + 1)..e = {}
      BY <1>0, <2>3, SMTT(60)
    <3> QED BY <2>1, <3>1 DEF RunTo, PendingHeights
  <2>5. PendingHeights(pending') = {h}
    BY <1>0, <1>3, <2>4 DEF PendingHeights
  <2>6. {h} = (committed + 1)..(committed + 1) /\ (committed + 1) \in committed..Tip
        /\ (committed + 1) - committed <= MaxParallel
    BY <1>0, <1>3, SMTT(60)
  <2>7. RunTo(pending', committed', committed + 1) /\ (committed + 1) \in committed'..Tip
    BY <1>3, <2>5, <2>6 DEF RunTo
  <2>8. committed' \in 0..Tip
    BY DEF TypeOK
  <2> QED BY <2>7, <2>8, RunIsSequence, SequenceDef
<1> QED BY <1>1, <1>2, <1>3 DEF OnSyncedBlockReady, bftVars

\* The answer about the signature of a fetched block.
LEMMA SignatureKeepsSequence ==
    ASSUME TypeOK, TypeOK', VerificationInSequence,
           NEW h \in Heights, NEW q \in Quality, OnQcSignatureVerified(h, q)
    PROVE  VerificationInSequence'
<1>0. /\ committed \in 0..Tip /\ Tip \in Nat
      /\ Heights = 1..Tip /\ committed \in committed..Tip
      /\ buffered \in [Heights -> Kinds]
  BY ConstantsAssumption, SMTT(60) DEF TypeOK, Kinds, Heights
<1> DEFINE work == Less(jobs, <<h, q>>)
           ver == verified \cup {h}
<1>1. CASE UNCHANGED <<pending, committed>>
  BY <1>1, SequenceUnchanged
<1>2. CASE pending' = NoBlocks /\ committed' = committed
  <2>1. pending' = NoBlocks /\ committed' \in Int
    BY <1>0, <1>2, SMTT(60)
  <2> QED BY <2>1, NothingPending, SequenceDef
<1>3. CASE CommitAndDrain(committed, commits, buffered, pending, ver, work)
  BY <1>0, <1>3, DrainKeepsSequence
<1>4. CASE \E last \in (committed + 1)..Tip :
             CommitAndDrain(last, commits \ ((committed + 2)..(last + 1)),
                            buffered, pending, ver, work)
  <2>1. PICK last \in (committed + 1)..Tip :
             CommitAndDrain(last, commits \ ((committed + 2)..(last + 1)),
                            buffered, pending, ver, work)
    BY <1>4
  <2>2. last \in committed..Tip
    BY <1>0, SMTT(60)
  <2> QED BY <1>0, <2>1, <2>2, DrainKeepsSequence
<1> HIDE DEF work, ver
<1>5. \/ UNCHANGED <<pending, committed>>
      \/ pending' = NoBlocks /\ committed' = committed
      \/ ApplyVerified(ver, work)
  BY DEF OnQcSignatureVerified, bftVars, work, ver
<1>6. ApplyVerified(ver, work) =>
        \/ CommitAndDrain(committed, commits, buffered, pending, ver, work)
        \/ \E last \in (committed + 1)..Tip :
             CommitAndDrain(last, commits \ ((committed + 2)..(last + 1)),
                            buffered, pending, ver, work)
  BY DEF ApplyVerified
<1> QED BY <1>1, <1>2, <1>3, <1>4, <1>5, <1>6

\* A block with a certificate is ready to commit, or is completed.
LEMMA BlockReadyKeepsSequence ==
    ASSUME TypeOK, TypeOK', VerificationInSequence, NEW h \in Heights,
           OnBlockReadyToCommit(h) \/ BlockCompleted(h)
    PROVE  VerificationInSequence'
<1>1. CASE UNCHANGED <<pending, committed>>
  BY <1>1, SequenceUnchanged
<1>2. CASE /\ h = committed + 1
           /\ \E last \in h..Tip :
                CommitAndDrain(last, commits \ ((h + 1)..(last + 1)),
                               buffered, pending, verified, jobs)
  BY <1>2, CommitKeepsSequence
<1> QED BY <1>1, <1>2 DEF OnBlockReadyToCommit, BlockReadyToCommit, BlockCompleted

\* Verification of synced blocks stays in sequence and within the limit.
LEMMA SequenceKept ==
    TypeOK /\ TypeOK' /\ VerificationInSequence /\ [Next]_vars => VerificationInSequence'
<1> SUFFICES ASSUME TypeOK, TypeOK', VerificationInSequence, [Next]_vars
             PROVE  VerificationInSequence'
  OBVIOUS
<1>1. CASE \E peers \in BOOLEAN : TickReporting({}, peers)
  <2>1. UNCHANGED <<pending, committed>>
    BY <1>1, SMTT(60) DEF TickReporting, Tick, bftVars
  <2> QED BY <2>1, SequenceUnchanged
<1>2. CASE \E h \in Heights, q \in Quality : OnSyncedBlockReady(h, q)
  BY <1>2, SyncedBlockKeepsSequence
<1>3. CASE \E h \in Heights, q \in Quality : OnQcSignatureVerified(h, q)
  BY <1>3, SignatureKeepsSequence
<1>4. CASE \E h \in Proposals, data \in {"incomplete", "complete"}, late \in BOOLEAN :
              OnBlockHeader(h, data, late)
  <2>1. UNCHANGED <<pending, committed>>
    BY <1>4 DEF OnBlockHeader
  <2> QED BY <2>1, SequenceUnchanged
<1>5. CASE \E h \in Heights : OnQcFormed(h)
  <2>1. UNCHANGED <<pending, committed>>
    BY <1>5 DEF OnQcFormed
  <2> QED BY <2>1, SequenceUnchanged
<1>6. CASE \E h \in Heights : OnBlockReadyToCommit(h) \/ BlockCompleted(h)
  BY <1>6, BlockReadyKeepsSequence
<1>7. CASE CheckSyncHealth
  <2>1. UNCHANGED <<pending, committed>>
    BY <1>7 DEF CheckSyncHealth, bftVars
  <2> QED BY <2>1, SequenceUnchanged
<1>8. CASE Restart
  <2>1. pending' = NoBlocks /\ committed' \in Int
    BY <1>8, ConstantsAssumption, SMTT(60) DEF Restart, TypeOK
  <2> QED BY <2>1, NothingPending, SequenceDef
<1>9. CASE UNCHANGED vars
  <2>1. UNCHANGED <<pending, committed>>
    BY <1>9 DEF vars, bftVars
  <2> QED BY <2>1, SequenceUnchanged
<1> QED BY <1>1, <1>2, <1>3, <1>4, <1>5, <1>6, <1>7, <1>8, <1>9 DEF Next

\* The blocks being verified are the next ones to commit, without a gap, and
\* never more than MAX_PARALLEL_SYNC_VERIFICATIONS, whichever way heights are
\* committed meanwhile.
THEOREM CatchUpVerificationInSequence == Spec => []VerificationInSequence
<1>1. Init => VerificationInSequence
  <2>1. Init => pending = NoBlocks /\ committed \in Int
    BY SMTT(60) DEF Init
  <2> QED BY <2>1, NothingPending, SequenceDef
<1> QED BY <1>1, SequenceKept, CatchUpTypeCorrect, PTL DEF Spec

=============================================================================
