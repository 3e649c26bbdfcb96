--------------------------- MODULE RestartProofs ----------------------------
(***************************************************************************)
(* Proofs about the lineage of a task across restarts, for any number of   *)
(* rows and starts and any caps.                                           *)
(***************************************************************************)
EXTENDS RestartLineage, TLAPS

\* A write of one row keeps the table well-formed when the new row is.
LEMMA RowWrite ==
    ASSUME row \in [Ids -> Row], NEW t \in Ids, NEW r \in Row
    PROVE  [row EXCEPT ![t] = r] \in [Ids -> Row]
OBVIOUS

\* The field updates the actions make keep a row well-formed.
LEMMA RowFields ==
    ASSUME NEW r \in Row
    PROVE  /\ \A s \in Live \cup Terminal : [r EXCEPT !.status = s] \in Row
           /\ \A s \in Live \cup Terminal, w \in Reasons :
                 [r EXCEPT !.status = s, !.reason = w] \in Row
           /\ \A s \in Live \cup Terminal :
                 [r EXCEPT !.status = s, !.retries = @ + 1] \in Row
           /\ \A a \in Ids \cup {None} : [r EXCEPT !.as = a] \in Row
<1>1. ASSUME NEW s \in Live \cup Terminal PROVE [r EXCEPT !.status = s] \in Row
  BY DEF Row
<1>2. ASSUME NEW s \in Live \cup Terminal, NEW w \in Reasons
      PROVE  [r EXCEPT !.status = s, !.reason = w] \in Row
  BY DEF Row
<1>3. ASSUME NEW s \in Live \cup Terminal
      PROVE  [r EXCEPT !.status = s, !.retries = @ + 1] \in Row
  <2> DEFINE k == r.retries + 1
  <2>1. k \in Nat
    BY DEF Row
  <2>2. [r EXCEPT !.status = s, !.retries = @ + 1] = [r EXCEPT !.status = s, !.retries = k]
    BY DEF Row
  <2> HIDE DEF k
  <2> QED
    BY <2>1, <2>2 DEF Row
<1>4. ASSUME NEW a \in Ids \cup {None} PROVE [r EXCEPT !.as = a] \in Row
  BY DEF Row
<1> QED
  BY <1>1, <1>2, <1>3, <1>4

\* A clone is a well-formed row (createTask of a resubmission).
LEMMA CloneRow ==
    ASSUME TypeOK, NEW t \in Ids, n < MaxRows,
           NEW s \in {"queued", "pending"}, NEW who \in {"startup", "await"}
    PROVE  insertClone(t, s, who) \in [Ids -> Row] /\ n + 1 \in Ids
<1> USE LineageAssumption
<1>1. n + 1 \in Ids
  BY DEF TypeOK, Ids
<1>2. row[t].count + 1 \in Nat /\ epoch \in Nat
  BY DEF TypeOK, Row
<1> DEFINE r == [Absent EXCEPT !.status = s, !.from = t, !.by = who,
                               !.count = row[t].count + 1, !.epoch = epoch]
<1>3. Absent \in Row
  BY DEF Absent, Row, Reasons
<1>4. r \in Row
  <2> DEFINE k == row[t].count + 1
  <2>1. k \in Nat /\ s \in Live
    BY <1>2 DEF Live
  <2> HIDE DEF k
  <2>2. \A x \in Row : [x EXCEPT !.status = s, !.from = t, !.by = who,
                                 !.count = k, !.epoch = epoch] \in Row
    BY <1>2, <2>1 DEF Row
  <2> QED
    BY <1>3, <2>2 DEF k
<1> HIDE DEF r
<1>5. [row EXCEPT ![n + 1] = r] \in [Ids -> Row]
  BY <1>1, <1>4, RowWrite DEF TypeOK
<1>6. insertClone(t, s, who) = [row EXCEPT ![n + 1] = r]
  BY DEF insertClone, r
<1> QED
  BY <1>1, <1>5, <1>6

\* Every action of Execute, Await and Reconcile writes at most one existing
\* row and adds at most one.
LEMMA RowStepType ==
    ASSUME TypeOK, NEW t \in Rows, Execute(t) \/ Await(t) \/ Reconcile(t)
    PROVE  TypeOK'
<1> USE LineageAssumption
<1>0. t \in Ids /\ row[t] \in Row /\ row \in [Ids -> Row] /\ n \in Ids
  BY DEF TypeOK, Rows, Ids
<1>1. ASSUME NEW s \in Live \cup Terminal, SetStatus(t, s) PROVE row' \in [Ids -> Row]
  <2>1. row' = [row EXCEPT ![t] = [row[t] EXCEPT !.status = s]]
    BY <1>1 DEF SetStatus
  <2> QED
    BY <1>0, <2>1, RowFields, RowWrite
<1>2. ASSUME NEW why \in Reasons, Cancel(t, why) PROVE row' \in [Ids -> Row]
  <2>1. row' = [row EXCEPT ![t] = [row[t] EXCEPT !.status = "cancelled", !.reason = why]]
    BY <1>0, <1>2 DEF Cancel
  <2>2. "cancelled" \in Live \cup Terminal
    BY DEF Terminal
  <2> QED
    BY <1>0, <2>1, <2>2, RowFields, RowWrite
<1>3. ASSUME NEW s \in Live,
             row' = [row EXCEPT ![t].status = s, ![t].retries = @ + 1]
      PROVE  row' \in [Ids -> Row]
  <2>1. row' = [row EXCEPT ![t] = [row[t] EXCEPT !.status = s, !.retries = @ + 1]]
    BY <1>0, <1>3
  <2> QED
    BY <1>0, <2>1, RowFields, RowWrite
<1>4. \A s \in {"pending", "queued", "running", "retry_scheduled"} : s \in Live
  BY DEF Live
<1>5. \A s \in {"completed", "failed", "cancelled"} : s \in Terminal
  BY DEF Terminal
<1>6. ASSUME row' \in [Ids -> Row], n' = n, UNCHANGED <<fixed, closed, epoch, server>>,
             tracked' \subseteq Ids, alive' \subseteq Ids, logged' \subseteq Ids,
             todo' \subseteq Ids, clone' \in [of : Ids \cup {None}, new : Ids \cup {None}]
      PROVE  TypeOK'
  BY <1>6 DEF TypeOK, fixed
<1>7. CASE Execute(t)
  <2>0. /\ n' = n /\ UNCHANGED <<fixed, closed, epoch, server>> /\ todo' = todo /\ clone' = clone
        /\ tracked' \subseteq Ids /\ alive' \subseteq Ids /\ logged' \subseteq Ids
    BY <1>0, <1>7 DEF Execute, startTask, finalizeTask, retryTimer, promotePending, cancelTask,
       exitUnseen, reapSubprocess, startup, procs, TypeOK
  <2>1. row' \in [Ids -> Row]
    <3>1. CASE startTask(t) \/ retryTimer(t) \/ promotePending(t)
      BY <1>1, <1>4, <3>1 DEF startTask, retryTimer, promotePending
    <3>2. CASE finalizeTask(t)
      BY <1>0, <1>1, <1>3, <1>4, <1>5, <3>2 DEF finalizeTask
    <3>3. CASE cancelTask(t)
      BY <1>0, <1>2, <3>3 DEF cancelTask, Reasons
    <3>4. CASE exitUnseen(t) \/ reapSubprocess(t)
      BY <1>0, <3>4 DEF exitUnseen, reapSubprocess
    <3> QED
      BY <1>7, <3>1, <3>2, <3>3, <3>4 DEF Execute
  <2> QED
    BY <1>6, <2>0, <2>1 DEF TypeOK
<1>8. CASE awaitRequeue(t) \/ awaitCancelOrphan(t)
  <2>1. row' \in [Ids -> Row]
    BY <1>2, <1>3, <1>4, <1>8 DEF awaitRequeue, awaitCancelOrphan, Reasons
  <2>2. n' = n /\ UNCHANGED <<fixed, closed, epoch, server, procs, startup>>
    BY <1>8 DEF awaitRequeue, awaitCancelOrphan
  <2> QED
    BY <2>1, <2>2 DEF TypeOK, fixed, procs, startup
<1>9. CASE awaitResubmit(t)
  <2>1. PICK s \in {"queued", "pending"} :
           row' = [insertClone(t, s, "await") EXCEPT ![t].as = n + 1]
    BY <1>9 DEF awaitResubmit
  <2>2. insertClone(t, s, "await") \in [Ids -> Row] /\ n + 1 \in Ids
    BY <1>0, <1>9, CloneRow DEF awaitResubmit
  <2> DEFINE table == insertClone(t, s, "await")
  <2>3. [table[t] EXCEPT !.as = n + 1] \in Row
    BY <1>0, <2>2, RowFields
  <2> HIDE DEF table
  <2>4. row' = [table EXCEPT ![t] = [table[t] EXCEPT !.as = n + 1]]
    BY <2>1 DEF table
  <2>5. row' \in [Ids -> Row]
    BY <1>0, <2>2, <2>3, <2>4 DEF table
  <2>6. n' = n + 1 /\ UNCHANGED <<fixed, closed, epoch, server, procs, startup>>
    BY <1>9 DEF awaitResubmit
  <2> QED
    BY <2>2, <2>5, <2>6 DEF TypeOK, fixed, procs, startup
<1>10. CASE Reconcile(t)
  <2>0. /\ n' = n /\ UNCHANGED <<fixed, closed, epoch, server>> /\ todo' \subseteq Ids
        /\ tracked' \subseteq Ids /\ alive' = alive /\ logged' = logged
        /\ clone' \in [of : Ids \cup {None}, new : Ids \cup {None}]
    BY <1>0, <1>10 DEF Reconcile, reconcileRetry, skipCandidate, blockedByWorkItem, reAdopt,
       completeFinishedOrphan, notEligible, failMissingWorkingDirectory, cancelInterrupted,
       Done, procs, TypeOK, NoClone
  <2>1. row' \in [Ids -> Row]
    <3>1. CASE reconcileRetry(t) \/ completeFinishedOrphan(t)
      BY <1>1, <1>4, <1>5, <3>1 DEF reconcileRetry, completeFinishedOrphan
    <3>2. CASE skipCandidate(t) \/ reAdopt(t) \/ notEligible(t)
      BY <1>0, <3>2 DEF skipCandidate, reAdopt, notEligible
    <3>3. CASE blockedByWorkItem(t) \/ cancelInterrupted(t)
      BY <1>2, <3>3 DEF blockedByWorkItem, cancelInterrupted, Reasons
    <3>4. CASE failMissingWorkingDirectory(t)
      <4> DEFINE w == IF Status(t) = "cancelled" THEN "none" ELSE row[t].reason
      <4>1. row' = [row EXCEPT ![t] = [row[t] EXCEPT !.status = "failed", !.reason = w]]
        BY <1>0, <3>4 DEF failMissingWorkingDirectory
      <4>2. w \in Reasons
        BY <1>0 DEF Row, Reasons
      <4> HIDE DEF w
      <4> QED
        BY <1>0, <1>5, <4>1, <4>2, RowFields, RowWrite
    <3> QED
      BY <1>10, <3>1, <3>2, <3>3, <3>4 DEF Reconcile
  <2> QED
    BY <1>6, <2>0, <2>1 DEF TypeOK
<1> QED
  BY <1>7, <1>8, <1>9, <1>10 DEF Await

LEMMA LineageTypeNext == TypeOK /\ [Next]_vars => TypeOK'
<1> SUFFICES ASSUME TypeOK, [Next]_vars PROVE TypeOK'
  OBVIOUS
<1> USE LineageAssumption
<1>0. row \in [Ids -> Row] /\ n \in Ids
  BY DEF TypeOK
<1>1. ASSUME NEW t \in Rows, Execute(t) \/ Await(t) \/ Reconcile(t) PROVE TypeOK'
  BY <1>1, RowStepType
<1>2. CASE workItemChanges
  BY <1>2 DEF TypeOK, workItemChanges, fixed, procs, startup
<1>3. CASE shutdown
  <2>1. \A t \in Ids : [row[t] EXCEPT !.status = "cancelled", !.reason = "server_restart"] \in Row
    BY <1>0, RowFields DEF Terminal, Reasons
  <2>2. row' \in [Ids -> Row]
    BY <1>0, <1>3, <2>1 DEF shutdown
  <2> QED
    BY <1>3, <2>2 DEF TypeOK, shutdown, fixed, procs, startup, Survivors
<1>4. CASE crash
  BY <1>4 DEF TypeOK, crash, fixed, Survivors, NoClone
<1>5. CASE boot
  <2>1. \A t \in Ids : cleanupOrphan(row[t]) \in Row
    BY <1>0, RowFields DEF cleanupOrphan, Live, Terminal
  <2>2. row' \in [Ids -> Row]
    BY <1>5, <2>1 DEF boot
  <2>3. todo' \subseteq Ids /\ epoch' \in 1..MaxEpoch
    BY <1>0, <1>5 DEF boot, Rows, Ids, TypeOK
  <2> QED
    BY <1>5, <2>2, <2>3 DEF TypeOK, boot, fixed, procs
<1>6. CASE createClone
  <2>1. CASE indexAllows(clone.of)
    <3>1. clone.of \in Ids /\ n < MaxRows
      BY <1>6, <2>1 DEF createClone, TypeOK
    <3>2. row' \in [Ids -> Row] /\ n' \in Ids
      BY <1>6, <2>1, <3>1, CloneRow DEF createClone
    <3>3. clone' \in [of : Ids \cup {None}, new : Ids \cup {None}]
      BY <1>6, <2>1, <3>2 DEF createClone, TypeOK
    <3> QED
      BY <1>6, <3>2, <3>3 DEF TypeOK, createClone, fixed, procs
  <2>2. CASE ~ indexAllows(clone.of)
    BY <1>6, <2>2 DEF TypeOK, createClone, fixed, procs, NoClone
  <2> QED
    BY <2>1, <2>2
<1>7. CASE patchOriginalMetadata
  <2>1. row' \in [Ids -> Row]
    <3>1. CASE clone.of \in Ids
      <4>1. [row[clone.of] EXCEPT !.as = clone.new] \in Row
        BY <1>0, <3>1, RowFields DEF TypeOK
      <4>2. row' = [row EXCEPT ![clone.of] = [row[clone.of] EXCEPT !.as = clone.new]]
        BY <1>7 DEF patchOriginalMetadata
      <4> QED
        BY <1>0, <3>1, <4>1, <4>2
    <3>2. CASE clone.of \notin Ids
      BY <1>0, <1>7, <3>2 DEF patchOriginalMetadata
    <3> QED
      BY <3>1, <3>2
  <2> QED
    BY <1>7, <2>1 DEF TypeOK, patchOriginalMetadata, fixed, procs, NoClone
<1>8. CASE startupDone
  BY <1>8 DEF TypeOK, startupDone, fixed, procs, startup
<1>9. CASE UNCHANGED vars
  BY <1>9 DEF TypeOK, vars
<1> QED
  BY <1>1, <1>2, <1>3, <1>4, <1>5, <1>6, <1>7, <1>8, <1>9 DEF Next

LEMMA InitType == Init => TypeOK
<1>1. Absent \in Row /\ [Absent EXCEPT !.status = "queued", !.epoch = 1] \in Row
  BY DEF Absent, Row, Reasons, Live
<1>2. Init => row \in [Ids -> Row]
  BY <1>1 DEF Init
<1>3. Init => n \in Ids /\ epoch \in 1..MaxEpoch
  BY LineageAssumption DEF Init, Ids
<1>4. Init => clone \in [of : Ids \cup {None}, new : Ids \cup {None}]
  BY DEF Init, NoClone
<1>5. Init => server \in {"up", "stopping", "down", "starting"} /\ closed \in BOOLEAN
  BY DEF Init
<1>6. Init => tracked \subseteq Ids /\ alive \subseteq Ids /\ logged \subseteq Ids /\ todo \subseteq Ids
  BY DEF Init
<1>7. Init => eligible \in BOOLEAN /\ detached \in BOOLEAN
  BY DEF Init
<1> QED
  BY <1>2, <1>3, <1>4, <1>5, <1>6, <1>7 DEF TypeOK

\* The rows, the reconciler's candidates and its half-made clone are
\* well-formed in every order of starts, crashes and awaits.
THEOREM RestartTypeCorrect == Spec => []TypeOK
BY InitType, LineageTypeNext, PTL DEF Spec

-----------------------------------------------------------------------------
(* The shape of the lineage, and where a start of the server is in it. *)

Open(t) == row[t].status # "cancelled"
InterruptedByRestart(t) == row[t].status = "cancelled" /\ row[t].reason = "server_restart"

\* A clone is younger than its original, whichever of the two links tells;
\* only a start of the server has candidates or a half-made clone.
Links ==
    /\ \A c \in Rows : /\ row[c].from < c
                       /\ row[c].as # None => row[c].as \in (c + 1)..n
    /\ todo \subseteq Rows
    /\ clone.of # None => clone.of \in Rows /\ server = "starting"
    /\ clone.new # None => clone.of # None /\ clone.new \in (clone.of + 1)..n
    /\ server # "starting" => todo = {}
    /\ (server \in {"down", "starting"} /\ ~ detached) => tracked = {}

\* The candidates are those the start selected and has not yet reached: it
\* takes the newest first.
Sweep ==
    server = "starting" =>
        /\ \A t \in todo : isCandidate(row[t])
        /\ \A t \in Rows : isCandidate(row[t]) => t \in todo \/ \A u \in todo : u < t

\* What the start has passed it has recovered: the row or a younger one is
\* not cancelled, unless its clone is being made.
Recovered ==
    (server = "starting" /\ eligible /\ ~ closed) =>
        /\ clone.new # None => Open(clone.new)
        /\ \A t \in Rows : (InterruptedByRestart(t) /\ row[t].count < Cap) =>
             \/ t \in todo \/ t = clone.of \/ t \in tracked
             \/ \E u \in t..n : Open(u)

StartInv == TypeOK /\ Links /\ Sweep /\ Recovered

Least(a, b) == IF a < b THEN a ELSE b
Last == Least(n, Cap)

\* Without awaits each clone is made of the row before it, and past the cap
\* of the last row the cap lets clone.
Chain ==
    /\ row[1].count = 0
    /\ \A c \in 2..n : row[c].from = Least(c - 1, Cap) /\ row[c].count = Least(c - 1, Cap)

\* The search for descendants from a row below the cap meets every younger row.
Reach ==
    \A t \in 1..Last : \A seen \in SUBSET Rows :
        (t \in seen /\ \A c \in Rows : row[c].from \in seen => c \in seen) => t..n \subseteq seen

\* At most one row is not cancelled, and none that has a clone below the cap.
OneOpen == \A t \in Rows : Open(t) => t >= Last /\ \A u \in Rows : Open(u) => u = t

\* A clone is made only of the last row, when nothing else is left.
CloneReady ==
    (clone.of # None /\ clone.new = None) => clone.of = Last /\ \A t \in Rows : ~ Open(t)

LineInv == (OnlyRestarts /\ ~ detached) => Chain /\ Reach /\ OneOpen /\ CloneReady

-----------------------------------------------------------------------------
(* What the steps leave alone. *)

\* The links of a row are written when it is inserted and when its clone is.
Same(c) ==
    /\ row'[c].from = row[c].from /\ row'[c].as = row[c].as
    /\ row'[c].count = row[c].count /\ row'[c].by = row[c].by

LEMMA RowsAreIds == TypeOK => n \in Nat \ {0} /\ Rows \subseteq Ids /\ \A t \in Rows : row[t] \in Row
BY LineageAssumption DEF TypeOK, Rows, Ids

\* A step of one row writes its status, its reason and its retries only.
LEMMA TableStep ==
    ASSUME TypeOK, NEW t \in Rows,
           Execute(t) \/ Reconcile(t) \/ awaitRequeue(t) \/ awaitCancelOrphan(t)
    PROVE  n' = n /\ \A c \in Rows : Same(c) /\ (c # t => row'[c] = row[c])
<1>0. row \in [Ids -> Row] /\ Rows \subseteq Ids /\ t \in Ids
  BY RowsAreIds DEF TypeOK
<1>1. ASSUME NEW s, row' = [row EXCEPT ![t].status = s]
      PROVE  \A c \in Rows : Same(c) /\ (c # t => row'[c] = row[c])
  BY <1>0, <1>1 DEF Same, Row
<1>2. ASSUME NEW s, NEW w, row' = [row EXCEPT ![t].status = s, ![t].reason = w]
      PROVE  \A c \in Rows : Same(c) /\ (c # t => row'[c] = row[c])
  BY <1>0, <1>2 DEF Same, Row
<1>3. ASSUME NEW s, NEW k, row' = [row EXCEPT ![t].status = s, ![t].retries = k]
      PROVE  \A c \in Rows : Same(c) /\ (c # t => row'[c] = row[c])
  BY <1>0, <1>3 DEF Same, Row
<1>4. row' = row => \A c \in Rows : Same(c) /\ (c # t => row'[c] = row[c])
  BY DEF Same
<1>5. CASE Execute(t)
  BY <1>1, <1>2, <1>3, <1>4, <1>5 DEF Execute, startTask, finalizeTask, retryTimer,
     promotePending, cancelTask, exitUnseen, reapSubprocess, SetStatus, Cancel
<1>6. CASE Reconcile(t)
  BY <1>1, <1>2, <1>3, <1>4, <1>6 DEF Reconcile, reconcileRetry, skipCandidate,
     blockedByWorkItem, reAdopt, completeFinishedOrphan, notEligible,
     failMissingWorkingDirectory, cancelInterrupted, Done, SetStatus, Cancel
<1>7. CASE awaitRequeue(t) \/ awaitCancelOrphan(t)
  BY <1>2, <1>3, <1>7 DEF awaitRequeue, awaitCancelOrphan, Cancel
<1> QED
  BY <1>5, <1>6, <1>7

\* Shutdown and start write the whole table, but no link in it.
LEMMA ServerStep ==
    ASSUME TypeOK, shutdown \/ boot
    PROVE  n' = n /\ \A c \in Rows : Same(c)
<1>0. row \in [Ids -> Row] /\ Rows \subseteq Ids
  BY RowsAreIds DEF TypeOK
<1>1. CASE shutdown
  BY <1>0, <1>1 DEF shutdown, Same, Row
<1>2. CASE boot
  BY <1>0, <1>2 DEF boot, cleanupOrphan, Same, Row
<1> QED
  BY <1>1, <1>2

\* A new row: the others stay, but for the pointer of its original.
LEMMA InsertStep ==
    ASSUME TypeOK, NEW t \in Rows, n < MaxRows, NEW s \in Live, NEW who,
           \/ row' = insertClone(t, s, who)
           \/ row' = [insertClone(t, s, who) EXCEPT ![t].as = n + 1]
    PROVE  /\ \A c \in Rows : /\ row'[c].status = row[c].status /\ row'[c].reason = row[c].reason
                              /\ row'[c].from = row[c].from /\ row'[c].count = row[c].count
                              /\ row'[c].by = row[c].by
                              /\ row'[c].as = row[c].as \/ (c = t /\ row'[c].as = n + 1)
           /\ row'[n + 1].status = s /\ row'[n + 1].from = t /\ row'[n + 1].as = None
           /\ row'[n + 1].count = row[t].count + 1 /\ row'[n + 1].by = who
           /\ row'[n + 1].reason = "none"
<1>0. /\ row \in [Ids -> Row] /\ Rows \subseteq Ids /\ t \in Ids /\ n + 1 \in Ids
      /\ t # n + 1 /\ \A c \in Rows : c # n + 1
  BY LineageAssumption DEF TypeOK, Rows, Ids
<1> DEFINE r == [Absent EXCEPT !.status = s, !.from = t, !.by = who,
                               !.count = row[t].count + 1, !.epoch = epoch]
<1>1. /\ r.status = s /\ r.from = t /\ r.as = None /\ r.count = row[t].count + 1
      /\ r.by = who /\ r.reason = "none"
  BY DEF Absent
<1>2. insertClone(t, s, who) = [row EXCEPT ![n + 1] = r]
  BY DEF insertClone
<1> HIDE DEF r
<1> DEFINE table == [row EXCEPT ![n + 1] = r]
<1>3. table[n + 1] = r /\ \A c \in Rows : table[c] = row[c]
  BY <1>0
<1>4. \A c \in Rows : row[c] \in Row
  BY <1>0
<1>5. CASE row' = table
  BY <1>1, <1>3, <1>5
<1>6. CASE row' = [table EXCEPT ![t].as = n + 1]
  <2>1. table \in [Ids -> {table[c] : c \in Ids}]
    BY <1>0
  <2>2. row'[t] = [row[t] EXCEPT !.as = n + 1]
    BY <1>0, <1>3, <1>6, <2>1
  <2>3. \A c \in Ids : c # t => row'[c] = table[c]
    BY <1>0, <1>6, <2>1
  <2>4. /\ row'[t].status = row[t].status /\ row'[t].reason = row[t].reason
        /\ row'[t].from = row[t].from /\ row'[t].count = row[t].count
        /\ row'[t].by = row[t].by /\ row'[t].as = n + 1
    BY <1>4, <2>2 DEF Row
  <2> HIDE DEF table
  <2> QED
    BY <1>0, <1>1, <1>3, <2>3, <2>4
<1> QED
  BY <1>2, <1>5, <1>6

\* A step that writes no link and starts no clone keeps the links in order.
LEMMA LinksKept ==
    ASSUME Links, n' = n, \A c \in Rows : Same(c), todo' \subseteq todo,
           clone' = clone \/ clone' = NoClone, server' = server, detached' = detached,
           (server \in {"down", "starting"} /\ ~ detached) => tracked' = {}
    PROVE  Links'
BY DEF Links, Same, Rows, NoClone

LEMMA LinksNext == TypeOK /\ Links /\ [Next]_vars => Links'
<1> SUFFICES ASSUME TypeOK, Links, [Next]_vars PROVE Links'
  OBVIOUS
<1> USE LineageAssumption
<1>0. n \in Nat \ {0} /\ n' \in Nat
  BY LineageTypeNext, RowsAreIds DEF TypeOK, Ids
<1>1. ASSUME NEW t \in Rows, Execute(t) \/ Reconcile(t) \/ awaitRequeue(t) \/ awaitCancelOrphan(t)
      PROVE  Links'
  <2>1. n' = n /\ \A c \in Rows : Same(c)
    BY <1>1, TableStep
  <2>2. CASE ~ cancelInterrupted(t)
    <3>1. /\ todo' \subseteq todo /\ clone' = clone /\ server' = server /\ detached' = detached
          /\ (server \in {"down", "starting"} /\ ~ detached) => tracked' = {}
      BY <1>1, <2>2 DEF Execute, startTask, finalizeTask, retryTimer, promotePending, cancelTask,
         exitUnseen, reapSubprocess, awaitRequeue, awaitCancelOrphan, Reconcile, reconcileRetry,
         skipCandidate, blockedByWorkItem, reAdopt, completeFinishedOrphan, notEligible,
         failMissingWorkingDirectory, Done, Considered, fixed, procs, startup, Links
    <3> QED
      BY <2>1, <3>1, LinksKept
  <2>3. CASE cancelInterrupted(t)
    <3>1. /\ todo' \subseteq todo /\ server' = server /\ detached' = detached /\ tracked' = tracked
          /\ server = "starting"
          /\ clone' = NoClone \/ clone' = [of |-> t, new |-> None]
      BY <2>3 DEF cancelInterrupted, Interrupted, Considered, IsNext, fixed, procs
    <3>2. CASE clone' = NoClone
      BY <2>1, <3>1, <3>2, LinksKept DEF Links
    <3>3. CASE clone' = [of |-> t, new |-> None]
      BY <1>1, <2>1, <3>1, <3>3 DEF Links, Same, Rows
    <3> QED
      BY <3>1, <3>2, <3>3
  <2> QED
    BY <2>2, <2>3
<1>2. ASSUME NEW t \in Rows, awaitResubmit(t) PROVE Links'
  <2>1. PICK s \in {"queued", "pending"} :
           row' = [insertClone(t, s, "await") EXCEPT ![t].as = n + 1]
    BY <1>2 DEF awaitResubmit
  <2>2. /\ n < MaxRows /\ n' = n + 1 /\ todo' = todo /\ clone' = clone /\ server' = server
        /\ detached' = detached /\ tracked' = tracked
    BY <1>2 DEF awaitResubmit, fixed, procs, startup
  <2>3. /\ \A c \in Rows : row'[c].from = row[c].from /\ row'[c].as \in {row[c].as, n + 1}
        /\ row'[n + 1].from = t /\ row'[n + 1].as = None
    BY <2>1, <2>2, InsertStep DEF Live
  <2> QED
    BY <1>0, <2>2, <2>3 DEF Links, Rows, None
<1>3. CASE createClone
  <2>1. CASE indexAllows(clone.of)
    <3>1. /\ n < MaxRows /\ n' = n + 1 /\ todo' = todo /\ server' = server /\ server = "starting"
          /\ detached' = detached /\ tracked' = tracked /\ clone' = [clone EXCEPT !.new = n + 1]
          /\ row' = insertClone(clone.of, "queued", "startup") /\ clone.of \in Rows
      BY <1>3, <2>1 DEF createClone, fixed, procs, Links
    <3>2. /\ \A c \in Rows : row'[c].from = row[c].from /\ row'[c].as \in {row[c].as, n + 1}
          /\ row'[n + 1].from = clone.of /\ row'[n + 1].as = None
      BY <3>1, InsertStep DEF Live
    <3>3. clone'.of = clone.of /\ clone'.new = n + 1
      BY <3>1 DEF TypeOK
    <3> QED
      BY <1>0, <3>1, <3>2, <3>3 DEF Links, Rows, None
  <2>2. CASE ~ indexAllows(clone.of)
    BY <1>3, <2>2, LinksKept DEF createClone, fixed, procs, Same, Links
  <2> QED
    BY <2>1, <2>2
<1>4. CASE patchOriginalMetadata
  <2>1. /\ clone.of \in Rows /\ clone.new \in (clone.of + 1)..n /\ n' = n /\ todo' = todo
        /\ server' = server /\ detached' = detached /\ tracked' = tracked /\ clone' = NoClone
    BY <1>4 DEF patchOriginalMetadata, Links, fixed, procs
  <2>2. \A c \in Rows : /\ row'[c].from = row[c].from
                        /\ row'[c].as = row[c].as \/ (c = clone.of /\ row'[c].as = clone.new)
    <3>1. \A c \in Rows : row[c] \in Row /\ c \in Ids
      BY RowsAreIds
    <3>2. row'[clone.of] = [row[clone.of] EXCEPT !.as = clone.new]
      BY <1>4, <2>1, <3>1 DEF patchOriginalMetadata, TypeOK
    <3>3. \A c \in Rows : c # clone.of => row'[c] = row[c]
      BY <1>4, <3>1 DEF patchOriginalMetadata, TypeOK
    <3> QED
      BY <2>1, <3>1, <3>2, <3>3 DEF Row
  <2> QED
    BY <1>0, <2>1, <2>2 DEF Links, Rows, NoClone
<1>5. CASE shutdown \/ boot
  <2>1. n' = n /\ \A c \in Rows : Same(c)
    BY <1>5, ServerStep
  <2>2. CASE shutdown
    BY <2>1, <2>2, LinksKept DEF shutdown, Links, Same, Rows, startup
  <2>3. CASE boot
    <3>1. /\ todo' \subseteq Rows /\ clone' = clone /\ server' = "starting" /\ server = "down"
          /\ detached' = detached /\ tracked' = tracked
      BY <2>3 DEF boot, fixed, procs
    <3> QED
      BY <2>1, <3>1 DEF Links, Same, Rows
  <2> QED
    BY <1>5, <2>2, <2>3
<1>6. CASE crash
  BY <1>6 DEF crash, Links, Rows, NoClone, fixed
<1>7. CASE workItemChanges
  BY <1>7, LinksKept DEF workItemChanges, Links, Same, fixed, procs, startup
<1>9. CASE startupDone
  <2>1. /\ row' = row /\ n' = n /\ todo' = {} /\ server' = "up"
        /\ clone'.of = None /\ clone'.new = None
    BY <1>9 DEF startupDone, startup, NoClone
  <2> QED
    BY <2>1 DEF Links, Rows
<1>8. CASE UNCHANGED vars
  BY <1>8 DEF vars, Links, Rows
<1> QED
  BY <1>1, <1>2, <1>3, <1>4, <1>5, <1>6, <1>7, <1>8, <1>9 DEF Next, Await

\* Each step of the reconciler takes the newest candidate off its list.
LEMMA ReconcileStep ==
    ASSUME NEW t \in Rows, Reconcile(t)
    PROVE  /\ IsNext(t) /\ todo' = todo \ {t} /\ server' = server /\ server = "starting"
           /\ closed' = closed /\ eligible' = eligible /\ detached' = detached
           /\ clone = NoClone /\ tracked \subseteq tracked'
BY DEF Reconcile, reconcileRetry, skipCandidate, blockedByWorkItem, reAdopt,
   completeFinishedOrphan, notEligible, failMissingWorkingDirectory, cancelInterrupted,
   Interrupted, Considered, Done, IsNext, fixed, procs

\* Writing the pointer to the clone changes that one field of the original.
LEMMA PatchStep ==
    ASSUME TypeOK, Links, patchOriginalMetadata
    PROVE  /\ server = "starting" /\ server' = server /\ n' = n /\ todo' = todo
           /\ closed' = closed /\ eligible' = eligible /\ detached' = detached
           /\ tracked' = tracked /\ clone' = NoClone /\ clone.new \in Rows
           /\ \A c \in Rows : /\ row'[c].status = row[c].status /\ row'[c].reason = row[c].reason
                              /\ row'[c].from = row[c].from /\ row'[c].count = row[c].count
                              /\ row'[c].by = row[c].by
<1>1. /\ clone.of \in Rows /\ clone.new \in Rows
      /\ \A c \in Rows : row[c] \in Row /\ c \in Ids
  BY RowsAreIds DEF patchOriginalMetadata, Links, Rows
<1>2. row'[clone.of] = [row[clone.of] EXCEPT !.as = clone.new]
  BY <1>1 DEF patchOriginalMetadata, TypeOK
<1>3. \A c \in Rows : c # clone.of => row'[c] = row[c]
  BY <1>1 DEF patchOriginalMetadata, TypeOK
<1>4. \A c \in Rows : /\ row'[c].status = row[c].status /\ row'[c].reason = row[c].reason
                      /\ row'[c].from = row[c].from /\ row'[c].count = row[c].count
                      /\ row'[c].by = row[c].by
  BY <1>1, <1>2, <1>3 DEF Row
<1> QED
  BY <1>1, <1>4 DEF patchOriginalMetadata, fixed, procs

\* createClone inserts a queued clone, or finds that one exists.
LEMMA CreateStep ==
    ASSUME TypeOK, Links, createClone
    PROVE  /\ server = "starting" /\ server' = server /\ todo' = todo
           /\ closed' = closed /\ eligible' = eligible /\ detached' = detached
           /\ tracked' = tracked /\ clone.of \in Rows /\ clone.new = None
           /\ \/ /\ n' = n /\ row' = row /\ clone' = NoClone
                 /\ \E c \in Rows : Open(c) /\ row[c].from = clone.of
              \/ /\ n' = n + 1 /\ clone'.of = clone.of /\ clone'.new = n + 1
                 /\ \A c \in Rows : /\ row'[c].status = row[c].status
                                    /\ row'[c].reason = row[c].reason
                                    /\ row'[c].from = row[c].from
                                    /\ row'[c].count = row[c].count
                                    /\ row'[c].by = row[c].by
                 /\ row'[n + 1].status = "queued" /\ row'[n + 1].from = clone.of
                 /\ row'[n + 1].count = row[clone.of].count + 1
<1>1. /\ server = "starting" /\ server' = server /\ todo' = todo
      /\ closed' = closed /\ eligible' = eligible /\ detached' = detached
      /\ tracked' = tracked /\ clone.of \in Rows /\ clone.new = None
  BY DEF createClone, fixed, procs, Links
<1>2. CASE ~ indexAllows(clone.of)
  BY <1>1, <1>2 DEF createClone, indexAllows, Open, Status
<1>3. CASE indexAllows(clone.of)
  <2>1. /\ n < MaxRows /\ n' = n + 1 /\ row' = insertClone(clone.of, "queued", "startup")
        /\ clone' = [clone EXCEPT !.new = n + 1]
    BY <1>3 DEF createClone
  <2>2. clone'.of = clone.of /\ clone'.new = n + 1
    BY <2>1 DEF TypeOK
  <2>3. "queued" \in Live
    BY DEF Live
  <2>4. /\ \A c \in Rows : /\ row'[c].status = row[c].status /\ row'[c].reason = row[c].reason
                           /\ row'[c].from = row[c].from /\ row'[c].count = row[c].count
                           /\ row'[c].by = row[c].by
        /\ row'[n + 1].status = "queued" /\ row'[n + 1].from = clone.of
        /\ row'[n + 1].count = row[clone.of].count + 1
    BY <1>1, <2>1, <2>3, InsertStep
  <2> QED
    BY <1>1, <2>1, <2>2, <2>4
<1> QED
  BY <1>2, <1>3

LEMMA SweepNext == TypeOK /\ Links /\ Sweep /\ [Next]_vars => Sweep'
<1> SUFFICES ASSUME TypeOK, Links, Sweep, [Next]_vars, server' = "starting" PROVE Sweep'
  BY DEF Sweep
<1>0. n \in Nat \ {0} /\ todo \subseteq Rows
  BY RowsAreIds DEF Links
<1>1. ASSUME NEW t \in Rows, Reconcile(t) PROVE Sweep'
  <2>1. n' = n /\ \A c \in Rows : c # t => row'[c] = row[c]
    BY <1>1, TableStep
  <2>2. todo' = todo \ {t} /\ server = "starting" /\ \A u \in todo : u <= t
    BY <1>1, ReconcileStep DEF IsNext
  <2>3. \A u \in todo' : isCandidate(row'[u])
    BY <1>0, <2>1, <2>2 DEF Sweep
  <2>4. \A u \in todo' : u < t
    BY <1>0, <2>2 DEF Rows
  <2>5. \A v \in Rows : isCandidate(row'[v]) => v \in todo' \/ \A u \in todo' : u < v
    BY <2>1, <2>2, <2>4 DEF Sweep
  <2> QED
    BY <2>1, <2>3, <2>5 DEF Sweep, Rows, isCandidate
<1>2. ASSUME NEW t \in Rows, Execute(t) \/ Await(t) PROVE Sweep'
  <2>1. exitUnseen(t)
    BY <1>2 DEF Execute, Await, startTask, finalizeTask, retryTimer, promotePending, cancelTask,
       reapSubprocess, awaitRequeue, awaitCancelOrphan, awaitResubmit, MayAwait
  <2> QED
    BY <2>1 DEF exitUnseen, startup, Sweep, Rows, isCandidate
<1>3. CASE createClone
  <2>1. CASE n' = n /\ row' = row
    BY <1>3, <2>1, CreateStep DEF Sweep, Rows, isCandidate
  <2>2. CASE n' # n
    <3>1. /\ n' = n + 1 /\ todo' = todo /\ server = "starting" /\ row'[n + 1].status = "queued"
          /\ \A c \in Rows : row'[c].status = row[c].status /\ row'[c].reason = row[c].reason
      BY <1>3, <2>2, CreateStep
    <3> QED
      BY <1>0, <3>1 DEF Sweep, Rows, isCandidate
  <2> QED
    BY <1>0, <1>3, <2>1, <2>2, CreateStep
<1>4. CASE patchOriginalMetadata
  BY <1>0, <1>4, PatchStep DEF Sweep, Rows, isCandidate
<1>5. CASE boot
  <2>1. \A t \in Rows : row'[t] = cleanupOrphan(row[t])
    BY <1>5, RowsAreIds DEF boot
  <2>2. n' = n /\ todo' = {t \in Rows : isCandidate(cleanupOrphan(row[t]))}
    BY <1>5 DEF boot
  <2>3. \A t \in Rows : isCandidate(row'[t]) <=> t \in todo'
    BY <2>1, <2>2
  <2> QED
    BY <2>2, <2>3 DEF Sweep, Rows, isCandidate
<1>6. CASE UNCHANGED vars
  BY <1>6 DEF vars, Sweep, Rows, isCandidate
<1>7. ~ (workItemChanges \/ shutdown \/ crash \/ startupDone)
  BY DEF workItemChanges, shutdown, crash, startupDone
<1> QED
  BY <1>1, <1>2, <1>3, <1>4, <1>5, <1>6, <1>7 DEF Next

\* When the search of findNonCancelledResubmissionDescendant succeeds, a row
\* younger than the one it starts from is not cancelled.
LEMMA SearchFinds ==
    ASSUME TypeOK, Links, NEW t \in Rows, hasNonCancelledDescendant(t)
    PROVE  \E u \in (t + 1)..n : Open(u)
<1> SUFFICES ASSUME \A u \in (t + 1)..n : Status(u) = "cancelled" PROVE FALSE
  BY DEF Open, Status
<1> DEFINE seen == t..n
<1>0. n \in Nat \ {0} /\ t \in 1..n
  BY RowsAreIds DEF Rows
<1>1. seen \in SUBSET Rows /\ t \in seen
  BY <1>0 DEF Rows
<1>2. \A s \in seen : resubmissions(s) \subseteq seen
  BY <1>0 DEF Links, Rows, resubmissions
<1>3. \A s \in seen \ {t} : Status(s) = "cancelled"
  BY <1>0
<1> HIDE DEF seen
<1> QED
  BY <1>1, <1>2, <1>3 DEF hasNonCancelledDescendant

\* What the reconciler does with a candidate leaves it recovered.
LEMMA CandidateRecovered ==
    ASSUME TypeOK, Links, NEW t \in Rows, Reconcile(t), eligible, ~ closed,
           InterruptedByRestart(t)', row'[t].count < Cap
    PROVE  \/ t = clone'.of \/ t \in tracked' \/ \E u \in t..n : Open(u)'
<1>0. /\ row \in [Ids -> Row] /\ t \in Ids /\ n \in Nat
      /\ row'[t].status = "cancelled" /\ row'[t].count = row[t].count
  BY RowsAreIds, TableStep DEF TypeOK, InterruptedByRestart, Same
<1>1. \A s : SetStatus(t, s) => s = "cancelled"
  BY <1>0 DEF SetStatus, Row
<1>2. ~ (reconcileRetry(t) \/ completeFinishedOrphan(t))
  BY <1>1 DEF reconcileRetry, completeFinishedOrphan
<1>3. ~ failMissingWorkingDirectory(t)
  BY <1>0 DEF failMissingWorkingDirectory, Row
<1>4. ~ (blockedByWorkItem(t) \/ notEligible(t))
  BY DEF blockedByWorkItem, notEligible
<1>5. CASE skipCandidate(t)
  <2>1. row' = row /\ hasNonCancelledDescendant(t)
    BY <1>0, <1>5, LineageAssumption DEF skipCandidate, PassedOver, Row
  <2>2. \E u \in (t + 1)..n : Open(u)
    BY <2>1, SearchFinds
  <2> QED
    BY <1>0, <2>1, <2>2 DEF Open, Rows
<1>6. CASE reAdopt(t)
  BY <1>6 DEF reAdopt
<1>7. CASE cancelInterrupted(t)
  BY <1>0, <1>7, LineageAssumption DEF cancelInterrupted, Row
<1> QED
  BY <1>2, <1>3, <1>4, <1>5, <1>6, <1>7 DEF Reconcile

LEMMA RecoveredNext ==
    TypeOK /\ Links /\ Sweep /\ Recovered /\ [Next]_vars => Recovered'
<1> SUFFICES ASSUME TypeOK, Links, Sweep, Recovered, [Next]_vars,
                    server' = "starting", eligible', ~ closed'
             PROVE  Recovered'
  BY DEF Recovered
<1> DEFINE Safe(v) == \/ v \in todo \/ v = clone.of \/ v \in tracked
                      \/ \E u \in v..n : Open(u)
<1>0. n \in Nat \ {0} /\ todo \subseteq Rows
  BY RowsAreIds DEF Links
<1>1. ASSUME NEW t \in Rows, Reconcile(t) PROVE Recovered'
  <2>1. /\ n' = n /\ \A c \in Rows : row'[c].count = row[c].count /\ (c # t => row'[c] = row[c])
    BY <1>1, TableStep DEF Same
  <2>2. /\ todo' = todo \ {t} /\ server = "starting" /\ eligible /\ ~ closed
        /\ clone = NoClone /\ tracked \subseteq tracked' /\ t \in todo
    BY <1>1, ReconcileStep DEF IsNext
  <2>3. clone'.new = None
    BY <1>1 DEF Reconcile, reconcileRetry, skipCandidate, blockedByWorkItem, reAdopt,
       completeFinishedOrphan, notEligible, failMissingWorkingDirectory, cancelInterrupted,
       Interrupted, Considered, Done, IsNext, NoClone
  <2>4. ASSUME NEW v \in Rows, InterruptedByRestart(v)', row'[v].count < Cap
        PROVE  Safe(v)'
    <3>1. CASE v = t
      BY <1>1, <2>1, <2>2, <2>4, <3>1, CandidateRecovered
    <3>2. CASE v # t
      <4>1. row'[v] = row[v]
        BY <2>1, <3>2
      <4>2. Safe(v) /\ isCandidate(row[v])
        BY <2>2, <2>4, <4>1 DEF Recovered, InterruptedByRestart, isCandidate
      <4>3. v \in todo \/ t < v
        BY <2>2, <4>2 DEF Sweep
      <4>4. ASSUME NEW u \in v..n, Open(u), v \notin todo PROVE Open(u)'
        <5>1. u \in Rows /\ u # t
          BY <1>0, <4>3, <4>4 DEF Rows
        <5> QED
          BY <2>1, <4>4, <5>1 DEF Open
      <4>5. v # clone.of
        BY <1>0, <2>2 DEF Rows, None, NoClone
      <4> QED
        BY <2>1, <2>2, <3>2, <4>2, <4>4, <4>5
    <3> QED
      BY <3>1, <3>2
  <2> QED
    BY <2>1, <2>3, <2>4 DEF Recovered, Rows
<1>2. ASSUME NEW t \in Rows, Execute(t) \/ Await(t) PROVE Recovered'
  <2>1. exitUnseen(t)
    BY <1>2 DEF Execute, Await, startTask, finalizeTask, retryTimer, promotePending, cancelTask,
       reapSubprocess, awaitRequeue, awaitCancelOrphan, awaitResubmit, MayAwait
  <2> QED
    BY <2>1 DEF exitUnseen, startup, fixed, Recovered, Rows, InterruptedByRestart, Open
<1>3. CASE createClone
  <2>0. /\ server = "starting" /\ todo' = todo /\ tracked' = tracked /\ clone.of \in Rows
        /\ eligible' = eligible /\ closed' = closed
    BY <1>3, CreateStep
  <2>1. /\ server = "starting" /\ todo' = todo /\ eligible /\ ~ closed /\ tracked' = tracked
        /\ clone.of \in Rows
    BY <2>0
  <2>2. CASE n' = n /\ row' = row
    <3>1. clone' = NoClone /\ \E c \in Rows : Open(c) /\ row[c].from = clone.of
      BY <1>0, <1>3, <2>2, CreateStep
    <3>2. \E c \in clone.of..n : Open(c)
      BY <1>0, <2>1, <3>1 DEF Links, Rows
    <3> QED
      BY <2>1, <2>2, <3>1, <3>2 DEF Recovered, Rows, InterruptedByRestart, Open, NoClone
  <2>3. CASE n' = n + 1 /\ clone'.of = clone.of /\ clone'.new = n + 1
    <3>1. /\ row'[n + 1].status = "queued"
          /\ \A c \in Rows : /\ row'[c].status = row[c].status /\ row'[c].reason = row[c].reason
                             /\ row'[c].count = row[c].count
      BY <1>0, <1>3, <2>3, CreateStep
    <3>2. ASSUME NEW v \in 1..(n + 1), InterruptedByRestart(v)', row'[v].count < Cap
          PROVE  Safe(v)'
      <4>1. v \in Rows /\ InterruptedByRestart(v) /\ row[v].count < Cap
        BY <1>0, <3>1, <3>2 DEF InterruptedByRestart, Rows
      <4>2. Safe(v)
        BY <2>1, <4>1 DEF Recovered
      <4>3. \A u \in v..n : Open(u) => u \in v..(n + 1) /\ Open(u)'
        BY <1>0, <3>1, <4>1 DEF Open, Rows
      <4> QED
        BY <2>1, <2>3, <4>2, <4>3
    <3> QED
      BY <2>3, <3>1, <3>2 DEF Recovered, Rows, Open
  <2> QED
    BY <1>3, <2>2, <2>3, CreateStep
<1>4. CASE patchOriginalMetadata
  <2>0. eligible' = eligible /\ closed' = closed
    BY <1>4, PatchStep
  <2>a. eligible /\ ~ closed
    BY <2>0
  <2>b. clone.new # None /\ clone.new \in clone.of..n
    BY <1>0, <1>4 DEF patchOriginalMetadata, Links, Rows
  <2>1. /\ n' = n /\ todo' = todo /\ tracked' = tracked /\ clone' = NoClone
        /\ server = "starting" /\ clone.new # None /\ clone.new \in clone.of..n
        /\ \A c \in Rows : /\ row'[c].status = row[c].status /\ row'[c].reason = row[c].reason
                           /\ row'[c].count = row[c].count
    BY <1>4, <2>b, PatchStep
  <2>2. Open(clone.new)
    BY <2>a, <2>1 DEF Recovered
  <2>3. \A v \in Rows : InterruptedByRestart(v) /\ row[v].count < Cap =>
            v \in todo \/ v \in tracked \/ \E u \in v..n : Open(u)
    BY <2>a, <2>1, <2>2 DEF Recovered
  <2>4. \A v \in Rows : \A u \in v..n : Open(u) => Open(u)'
    BY <1>0, <2>1 DEF Open, Rows
  <2> QED
    BY <2>1, <2>3, <2>4 DEF Recovered, InterruptedByRestart, Rows, NoClone
<1>5. CASE boot
  <2>1. n' = n /\ clone' = clone /\ clone.new = None /\ todo' = {t \in Rows : isCandidate(row'[t])}
    BY <1>5, RowsAreIds DEF boot, Links
  <2> QED
    BY <2>1 DEF Recovered, InterruptedByRestart, isCandidate, Rows
<1>6. CASE UNCHANGED vars
  BY <1>6 DEF vars, Recovered, Rows, InterruptedByRestart, Open
<1>7. ~ (workItemChanges \/ shutdown \/ crash \/ startupDone)
  BY DEF workItemChanges, shutdown, crash, startupDone
<1> QED
  BY <1>1, <1>2, <1>3, <1>4, <1>5, <1>6, <1>7 DEF Next

LEMMA StartInit == Init => StartInv
<1> SUFFICES ASSUME Init PROVE StartInv
  OBVIOUS
<1>1. TypeOK
  BY InitType
<1>2. row[1].from = None /\ row[1].as = None
  BY LineageAssumption DEF Init, Absent, Ids
<1>3. Links
  BY <1>2 DEF Init, Links, Rows, NoClone, None
<1>4. Sweep /\ Recovered
  BY DEF Init, Sweep, Recovered
<1> QED
  BY <1>1, <1>3, <1>4 DEF StartInv

LEMMA StartNext == StartInv /\ [Next]_vars => StartInv'
BY LineageTypeNext, LinksNext, SweepNext, RecoveredNext DEF StartInv

\* A start that completes has recovered every eligible row a restart cut off
\* and the cap still lets clone, wherever earlier starts crashed.
THEOREM RestartStartupRecovers == Spec => StartupRecovers
<1>1. StartInv /\ [Next]_vars =>
        ((server = "starting" /\ server' = "up" /\ eligible /\ ~ closed) =>
           \A t \in Rows :
              (Status(t) = "cancelled" /\ row[t].reason = "server_restart" /\ row[t].count < Cap)
              => t \in tracked \/ \E u \in Rows : Status(u) # "cancelled")
  <2> SUFFICES ASSUME StartInv, [Next]_vars, server = "starting", server' = "up",
                      eligible, ~ closed, NEW t \in Rows, InterruptedByRestart(t),
                      row[t].count < Cap
               PROVE  t \in tracked \/ \E u \in Rows : Open(u)
    BY DEF Open, InterruptedByRestart, Status
  <2>1. startupDone
    <3>1. ASSUME NEW x \in Rows PROVE ~ (Execute(x) \/ Await(x) \/ Reconcile(x))
      BY DEF Execute, Await, Reconcile, startTask, finalizeTask, retryTimer, promotePending,
         cancelTask, exitUnseen, reapSubprocess, awaitRequeue, awaitCancelOrphan, awaitResubmit,
         MayAwait, reconcileRetry, skipCandidate, blockedByWorkItem, reAdopt,
         completeFinishedOrphan, notEligible, failMissingWorkingDirectory, cancelInterrupted,
         Interrupted, Considered, Done
    <3> QED
      BY <3>1 DEF Next, vars, workItemChanges, shutdown, crash, boot, createClone,
         patchOriginalMetadata
  <2>2. todo = {} /\ clone.of = None
    BY <2>1 DEF startupDone, NoClone
  <2>3. t # None /\ n \in Nat
    BY RowsAreIds DEF StartInv, Rows, None
  <2>4. t \in tracked \/ \E u \in t..n : Open(u)
    BY <2>2, <2>3 DEF StartInv, Recovered
  <2> QED
    BY <2>3, <2>4 DEF Rows
<1> QED
  BY <1>1, StartInit, StartNext, PTL DEF Spec, StartupRecovers

-----------------------------------------------------------------------------
(* At most one live row. *)

LEMMA LastRow == TypeOK => Last \in Rows /\ Last <= n /\ Last <= Cap /\ Last \in Nat /\ 1 \in Rows
BY RowsAreIds, LineageAssumption DEF Last, Least, Rows

\* When the search finds nothing from a row below the cap, every younger row
\* is cancelled.
LEMMA SearchMisses ==
    ASSUME TypeOK, Reach, NEW t \in 1..Last, ~ hasNonCancelledDescendant(t)
    PROVE  \A u \in (t + 1)..n : ~ Open(u)
<1>0. n \in Nat /\ t \in Rows /\ t \in Nat
  BY LastRow, RowsAreIds DEF Rows
<1>1. PICK seen \in SUBSET Rows :
         /\ t \in seen
         /\ \A s \in seen : resubmissions(s) \subseteq seen
         /\ \A s \in seen \ {t} : Status(s) = "cancelled"
  BY DEF hasNonCancelledDescendant
<1>2. \A c \in Rows : row[c].from \in seen => c \in seen
  BY <1>1 DEF resubmissions
<1>3. t..n \subseteq seen
  BY <1>1, <1>2 DEF Reach
<1>4. \A u \in (t + 1)..n : u \in seen \ {t}
  BY <1>0, <1>3
<1> QED
  BY <1>1, <1>4 DEF Open, Status

\* A row cancelled for another reason than a restart keeps it, and the origin
\* of a row never changes: only restarts acted on a lineage if they did later.
LEMMA RestartsBefore ==
    ASSUME TypeOK, Links, Sweep, [Next]_vars, OnlyRestarts'
    PROVE  OnlyRestarts
<1>0. row \in [Ids -> Row] /\ Rows \subseteq Ids /\ n \in Nat
  BY RowsAreIds DEF TypeOK
<1>1. SUFFICES /\ Rows \subseteq Rows'
               /\ \A c \in Rows : /\ row'[c].by = row[c].by
                                  /\ (row[c].status = "cancelled" /\ row[c].reason # "server_restart")
                                     => (row'[c].status = "cancelled" /\ row'[c].reason = row[c].reason)
  BY DEF OnlyRestarts, Status
<1> DEFINE Kept == /\ Rows \subseteq Rows'
                   /\ \A c \in Rows :
                        /\ row'[c].by = row[c].by
                        /\ (row[c].status = "cancelled" /\ row[c].reason # "server_restart")
                           => (row'[c].status = "cancelled" /\ row'[c].reason = row[c].reason)
<1>2. ASSUME n' = n, row' = row PROVE Kept
  BY <1>2 DEF Rows
<1>3. ASSUME NEW t \in Rows, Execute(t) \/ Reconcile(t) \/ awaitRequeue(t) \/ awaitCancelOrphan(t)
      PROVE  Kept
  <2>1. n' = n /\ \A c \in Rows : row'[c].by = row[c].by /\ (c # t => row'[c] = row[c])
    BY <1>3, TableStep DEF Same
  <2>2. ASSUME row[t].status = "cancelled", row[t].reason # "server_restart"
        PROVE  row' = row
    <3>1. ~ (Reconcile(t) /\ row' # row)
      <4>1. ~ isCandidate(row[t])
        BY <2>2 DEF isCandidate
      <4> QED
        BY <4>1, ReconcileStep DEF Sweep, IsNext
    <3>2. Execute(t) => row' = row
      BY <2>2 DEF Execute, startTask, finalizeTask, retryTimer, promotePending, cancelTask,
         exitUnseen, reapSubprocess, Status, Live
    <3>3. ~ (awaitRequeue(t) \/ awaitCancelOrphan(t))
      BY <2>2 DEF awaitRequeue, awaitCancelOrphan, isStaleEpoch, Status
    <3> QED
      BY <1>3, <3>1, <3>2, <3>3
  <2> QED
    BY <2>1, <2>2 DEF Rows
<1>4. ASSUME NEW t \in Rows, awaitResubmit(t) PROVE Kept
  <2>1. PICK s \in {"queued", "pending"} :
           row' = [insertClone(t, s, "await") EXCEPT ![t].as = n + 1]
    BY <1>4 DEF awaitResubmit
  <2>2. n < MaxRows /\ n' = n + 1 /\ s \in Live
    BY <1>4 DEF awaitResubmit, Live
  <2> QED
    BY <1>0, <2>1, <2>2, InsertStep DEF Rows
<1>5. CASE createClone
  <2>1. CASE n' = n /\ row' = row
    BY <1>2, <2>1
  <2>2. CASE n' = n + 1
    <3>1. \A c \in Rows : /\ row'[c].status = row[c].status /\ row'[c].reason = row[c].reason
                          /\ row'[c].by = row[c].by
      BY <1>0, <1>5, <2>2, CreateStep
    <3> QED
      BY <1>0, <2>2, <3>1 DEF Rows
  <2> QED
    BY <1>5, <2>1, <2>2, CreateStep
<1>6. CASE patchOriginalMetadata
  BY <1>6, PatchStep DEF Rows
<1>7. CASE shutdown \/ boot
  <2>1. n' = n /\ \A c \in Rows : row'[c].by = row[c].by
    BY <1>7, ServerStep DEF Same
  <2>2. \A c \in Rows : row[c].status = "cancelled" => row'[c] = row[c]
    BY <1>0, <1>7 DEF shutdown, boot, cleanupOrphan, Status, Live
  <2> QED
    BY <2>1, <2>2 DEF Rows
<1>8. CASE crash \/ workItemChanges \/ startupDone \/ UNCHANGED vars
  BY <1>2, <1>8 DEF crash, workItemChanges, startupDone, vars
<1> QED
  BY <1>3, <1>4, <1>5, <1>6, <1>7, <1>8 DEF Next, Await

\* A step that inserts nothing, opens no row and starts no clone keeps the line.
LEMMA LineKept ==
    ASSUME TypeOK, Chain, Reach, OneOpen, CloneReady,
           n' = n, clone' = clone \/ clone' = NoClone,
           \A c \in Rows : /\ row'[c].from = row[c].from /\ row'[c].count = row[c].count
                           /\ Open(c)' => Open(c)
    PROVE  Chain' /\ Reach' /\ OneOpen' /\ CloneReady'
<1>0. n \in Nat /\ Last' = Last /\ Rows' = Rows /\ 1 \in Rows
  BY LastRow, RowsAreIds DEF Last, Rows
<1>1. Chain'
  <2>1. \A c \in 2..n : c \in Rows
    BY DEF Rows
  <2> QED
    BY <1>0, <2>1 DEF Chain
<1>2. Reach'
  BY <1>0 DEF Reach
<1>3. OneOpen'
  BY <1>0 DEF OneOpen
<1>4. CloneReady'
  BY <1>0 DEF CloneReady, NoClone
<1> QED
  BY <1>1, <1>2, <1>3, <1>4

\* The candidate the reconciler comes to cancel or fail is all that is left of
\* the lineage, and below the cap it is the last row.
LEMMA CandidateIsLast ==
    ASSUME StartInv, OnlyRestarts, ~ detached, Chain, Reach, OneOpen,
           NEW t \in Rows, Interrupted(t), eligible
    PROVE  /\ t >= Last
           /\ \A u \in Rows \ {t} : ~ Open(u)
           /\ row[t].count < Cap => t = Last
<1> USE LineageAssumption
<1>0. /\ TypeOK /\ n \in Nat /\ t \in 1..n /\ Last \in 1..n /\ Last <= Cap
      /\ Last = n \/ (Last = Cap /\ Cap <= n)
  BY LastRow, RowsAreIds DEF StartInv, Last, Least, Rows
<1>1. /\ server = "starting" /\ ~ closed /\ clone.of = None /\ \A u \in todo : u <= t
      /\ ~ hasNonCancelledDescendant(t) /\ ~ (Status(t) = "cancelled" /\ row[t].count >= Cap)
  BY DEF Interrupted, Considered, IsNext, PassedOver, NoClone
<1>2. \A c \in Rows : row[c].count = IF c - 1 < Cap THEN c - 1 ELSE Cap
  BY <1>0 DEF Chain, Least, Rows
<1>3. CASE t <= Last
  <2>1. \A u \in (t + 1)..n : ~ Open(u)
    BY <1>0, <1>1, <1>3, SearchMisses
  <2>2. t = Last
    <3> SUFFICES ASSUME t < Last PROVE FALSE
      BY <1>0, <1>3
    <3>1. ~ Open(Last)
      BY <1>0, <2>1
    <3>2. InterruptedByRestart(Last) /\ row[Last].count < Cap
      BY <1>0, <1>2, <3>1 DEF OnlyRestarts, Open, InterruptedByRestart, Rows, Status
    <3>3. Last \notin todo /\ Last # clone.of
      BY <1>0, <1>1 DEF None
    <3>4. tracked = {}
      BY <1>1 DEF StartInv, Links
    <3>5. \E u \in Last..n : Open(u)
      BY <1>0, <1>1, <3>2, <3>3, <3>4 DEF StartInv, Recovered, Rows
    <3> QED
      BY <1>0, <2>1, <3>5
  <2>3. \A u \in Rows \ {t} : ~ Open(u)
    BY <1>0, <2>1, <2>2 DEF OneOpen, Rows
  <2> QED
    BY <1>0, <2>2, <2>3
<1>4. CASE t > Last
  <2>1. row[t].count = Cap
    BY <1>0, <1>2, <1>4 DEF Rows
  <2>2. Open(t)
    BY <1>1, <2>1 DEF Open, Status
  <2> QED
    BY <1>0, <1>4, <2>1, <2>2 DEF OneOpen
<1> QED
  BY <1>0, <1>3, <1>4

\* The clone continues the line, and is then the only row not cancelled.
LEMMA CloneContinues ==
    ASSUME TypeOK, Links, Chain, Reach, OneOpen, CloneReady, createClone, n' = n + 1
    PROVE  Chain' /\ Reach' /\ OneOpen' /\ CloneReady'
<1> USE LineageAssumption
<1>0. n \in Nat \ {0} /\ Last \in 1..n /\ Cap \in Nat /\ Rows' = Rows \cup {n + 1} /\ Rows = 1..n
  BY LastRow, RowsAreIds DEF Rows
<1>1. clone.of = Last /\ \A t \in Rows : ~ Open(t)
  BY CreateStep, RowsAreIds DEF CloneReady, Rows, None
<1>2. /\ clone'.new = n + 1 /\ row'[n + 1].from = Last /\ row'[n + 1].count = row[Last].count + 1
      /\ \A c \in Rows : /\ row'[c].status = row[c].status
                         /\ row'[c].from = row[c].from /\ row'[c].count = row[c].count
  BY <1>0, <1>1, CreateStep
<1>3. Last = Least(n, Cap) /\ Last' = Least(n + 1, Cap)
  BY DEF Last
<1>4. row[Last].count = Last - 1
  BY <1>0, <1>3 DEF Chain, Least
<1>5. Chain'
  <2>1. \A c \in 2..(n + 1) : row'[c].from = Least(c - 1, Cap) /\ row'[c].count = Least(c - 1, Cap)
    <3> SUFFICES ASSUME NEW c \in 2..(n + 1)
                 PROVE  row'[c].from = Least(c - 1, Cap) /\ row'[c].count = Least(c - 1, Cap)
      OBVIOUS
    <3>1. CASE c = n + 1
      BY <1>0, <1>2, <1>3, <1>4, <3>1
    <3>2. CASE c # n + 1
      <4>1. c \in 2..n /\ c \in Rows
        BY <1>0, <3>2
      <4>2. row[c].from = Least(c - 1, Cap) /\ row[c].count = Least(c - 1, Cap)
        BY <4>1 DEF Chain
      <4> QED
        BY <1>2, <4>1, <4>2
    <3> QED
      BY <3>1, <3>2
  <2> QED
    BY <1>0, <1>2, <2>1 DEF Chain
<1>6. Reach'
  <2> SUFFICES ASSUME NEW t \in 1..Least(n + 1, Cap), NEW seen \in SUBSET (1..(n + 1)), t \in seen,
                      \A c \in 1..(n + 1) : row'[c].from \in seen => c \in seen
               PROVE  t..(n + 1) \subseteq seen
    BY <1>0, <1>3 DEF Reach, Rows
  <2>1. CASE t = n + 1
    BY <1>0, <2>1
  <2>2. CASE t # n + 1
    <3> DEFINE old == seen \ {n + 1}
    <3>1. t \in 1..Last
      BY <1>0, <1>3, <2>2 DEF Least
    <3>2. old \in SUBSET Rows /\ t \in old
      BY <1>0, <2>2
    <3>3. \A c \in Rows : row[c].from \in old => c \in old
      BY <1>0, <1>2
    <3>4. t..n \subseteq old
      BY <3>1, <3>2, <3>3 DEF Reach
    <3>5. Last \in seen
      BY <1>0, <3>1, <3>4
    <3>6. n + 1 \in seen
      BY <1>0, <1>2, <3>5
    <3> QED
      BY <1>0, <3>4, <3>6
  <2> QED
    BY <2>1, <2>2
<1>7. OneOpen'
  <2>1. \A t \in Rows : ~ Open(t)'
    BY <1>1, <1>2 DEF Open
  <2> QED
    BY <1>0, <1>3, <2>1 DEF OneOpen, Least
<1>8. CloneReady'
  BY <1>0, <1>2 DEF CloneReady, None
<1> QED
  BY <1>5, <1>6, <1>7, <1>8

LEMMA LineNext == StartInv /\ LineInv /\ [Next]_vars => LineInv'
<1> SUFFICES ASSUME StartInv, LineInv, [Next]_vars, OnlyRestarts', ~ detached'
             PROVE  Chain' /\ Reach' /\ OneOpen' /\ CloneReady'
  BY DEF LineInv
<1>0. TypeOK /\ Links /\ Sweep /\ row \in [Ids -> Row] /\ Rows \subseteq Ids /\ n \in Nat
  BY RowsAreIds DEF StartInv, TypeOK
<1>a. detached' = detached
  BY DEF Next, Execute, startTask, finalizeTask, retryTimer, promotePending, cancelTask,
     exitUnseen, reapSubprocess, Await, awaitRequeue, awaitCancelOrphan, awaitResubmit,
     Reconcile, reconcileRetry, skipCandidate, blockedByWorkItem, reAdopt,
     completeFinishedOrphan, notEligible, failMissingWorkingDirectory, cancelInterrupted, Done,
     workItemChanges, shutdown, crash, boot, createClone, patchOriginalMetadata, startupDone,
     fixed, vars
<1>b. OnlyRestarts /\ ~ detached
  BY <1>0, <1>a, RestartsBefore
<1>c. Chain /\ Reach /\ OneOpen /\ CloneReady
  BY <1>b DEF LineInv
<1>k. ASSUME n' = n, clone' = clone \/ clone' = NoClone,
             \A c \in Rows : /\ row'[c].from = row[c].from /\ row'[c].count = row[c].count
                             /\ row'[c].status # "cancelled" => row[c].status # "cancelled"
      PROVE  Chain' /\ Reach' /\ OneOpen' /\ CloneReady'
  BY <1>0, <1>c, <1>k, LineKept DEF Open
<1>1. ASSUME NEW t \in Rows, Execute(t) \/ Reconcile(t) \/ awaitRequeue(t) \/ awaitCancelOrphan(t)
      PROVE  Chain' /\ Reach' /\ OneOpen' /\ CloneReady'
  <2>1. /\ n' = n
        /\ \A c \in Rows : /\ row'[c].from = row[c].from /\ row'[c].count = row[c].count
                           /\ c # t => row'[c] = row[c]
    BY <1>0, <1>1, TableStep DEF Same
  <2>2. CASE Execute(t) \/ awaitRequeue(t) \/ awaitCancelOrphan(t)
    <3>1. row[t].status = "cancelled" => row' = row
      BY <2>2 DEF Execute, startTask, finalizeTask, retryTimer, promotePending, cancelTask,
         exitUnseen, reapSubprocess, awaitRequeue, awaitCancelOrphan, isStaleEpoch, Status, Live
    <3>2. clone' = clone
      BY <2>2 DEF Execute, startTask, finalizeTask, retryTimer, promotePending, cancelTask,
         exitUnseen, reapSubprocess, awaitRequeue, awaitCancelOrphan, startup
    <3> QED
      BY <1>k, <2>1, <3>1, <3>2
  <2>3. CASE failMissingWorkingDirectory(t)
    <3>1. /\ clone' = clone /\ clone = NoClone /\ t >= Last
          /\ \A u \in Rows \ {t} : ~ Open(u)
      BY <1>b, <1>c, <2>3, CandidateIsLast DEF failMissingWorkingDirectory, Done, Interrupted,
         Considered, IsNext
    <3>2. \A u \in Rows \ {t} : ~ Open(u)'
      BY <2>1, <3>1 DEF Open
    <3>3. Rows' = Rows /\ Last' = Last
      BY <2>1 DEF Rows, Last
    <3>4. OneOpen'
      BY <3>1, <3>2, <3>3 DEF OneOpen
    <3>5. CloneReady'
      BY <3>1 DEF CloneReady, NoClone
    <3>6. Chain' /\ Reach'
      <4>1. 1 \in Rows /\ \A c \in 2..n : c \in Rows
        BY <1>0, LastRow DEF Rows
      <4> QED
        BY <1>c, <2>1, <3>3, <4>1 DEF Chain, Reach
    <3> QED
      BY <3>4, <3>5, <3>6
  <2>4. CASE cancelInterrupted(t)
    <3>1. /\ Interrupted(t) /\ eligible /\ row'[t].status = "cancelled"
          /\ clone' = IF row[t].count >= Cap THEN NoClone ELSE [of |-> t, new |-> None]
      BY <1>0, <2>4 DEF cancelInterrupted, Cancel, Row
    <3>2. (row[t].count < Cap => t = Last) /\ \A u \in Rows \ {t} : ~ Open(u)
      BY <1>b, <1>c, <3>1, CandidateIsLast
    <3>3. \A u \in Rows : ~ Open(u)'
      BY <2>1, <3>1, <3>2 DEF Open
    <3>4. Rows' = Rows /\ Last' = Last
      BY <2>1 DEF Rows, Last
    <3>5. OneOpen'
      BY <3>3, <3>4 DEF OneOpen
    <3>6. CloneReady'
      <4>1. clone'.of # None => row[t].count < Cap /\ clone'.of = t
        BY <1>0, <3>1, LineageAssumption DEF NoClone, Row
      <4> QED
        BY <3>2, <3>3, <3>4, <4>1 DEF CloneReady
    <3>7. Chain' /\ Reach'
      <4>1. 1 \in Rows /\ \A c \in 2..n : c \in Rows
        BY <1>0, LastRow DEF Rows
      <4> QED
        BY <1>c, <2>1, <3>4, <4>1 DEF Chain, Reach
    <3> QED
      BY <3>5, <3>6, <3>7
  <2>5. CASE Reconcile(t) /\ ~ failMissingWorkingDirectory(t) /\ ~ cancelInterrupted(t)
    <3>1. clone' = clone
      BY <2>5 DEF Reconcile, reconcileRetry, skipCandidate, blockedByWorkItem, reAdopt,
         completeFinishedOrphan, notEligible, Done
    <3>2. row[t].status = "cancelled" /\ row' # row => row'[t].status = "cancelled"
      BY <1>0, <2>5 DEF Reconcile, reconcileRetry, skipCandidate, blockedByWorkItem, reAdopt,
         completeFinishedOrphan, notEligible, Cancel, Status, Row
    <3> QED
      BY <1>k, <2>1, <3>1, <3>2
  <2> QED
    BY <1>1, <2>2, <2>3, <2>4, <2>5
<1>2. ASSUME NEW t \in Rows, awaitResubmit(t) PROVE FALSE
  <2>1. PICK s \in {"queued", "pending"} :
           row' = [insertClone(t, s, "await") EXCEPT ![t].as = n + 1]
    BY <1>2 DEF awaitResubmit
  <2>2. n < MaxRows /\ n' = n + 1 /\ s \in Live
    BY <1>2 DEF awaitResubmit, Live
  <2>3. row'[n + 1].by = "await" /\ n + 1 \in Rows'
    BY <1>0, <2>1, <2>2, InsertStep DEF Rows
  <2> QED
    BY <2>3 DEF OnlyRestarts
<1>3. CASE createClone
  <2>1. CASE n' = n /\ row' = row
    BY <1>0, <1>k, <1>3, <2>1, CreateStep
  <2>2. CASE n' = n + 1
    BY <1>0, <1>c, <1>3, <2>2, CloneContinues
  <2> QED
    BY <1>0, <1>3, <2>1, <2>2, CreateStep
<1>4. CASE patchOriginalMetadata
  BY <1>0, <1>k, <1>4, PatchStep
<1>5. CASE shutdown \/ boot
  <2>1. n' = n /\ \A c \in Rows : row'[c].from = row[c].from /\ row'[c].count = row[c].count
    BY <1>0, <1>5, ServerStep DEF Same
  <2>2. \A c \in Rows : row[c].status = "cancelled" => row'[c].status = "cancelled"
    BY <1>0, <1>5 DEF shutdown, boot, cleanupOrphan, Status, Live
  <2>3. clone' = clone
    BY <1>5 DEF shutdown, boot, startup
  <2> QED
    BY <1>k, <2>1, <2>2, <2>3
<1>6. CASE crash \/ workItemChanges \/ startupDone \/ UNCHANGED vars
  BY <1>k, <1>6 DEF crash, workItemChanges, startupDone, startup, vars
<1> QED
  BY <1>1, <1>2, <1>3, <1>4, <1>5, <1>6 DEF Next, Await

LEMMA LineInit == Init => LineInv
<1> SUFFICES ASSUME Init PROVE Chain /\ Reach /\ OneOpen /\ CloneReady
  BY DEF LineInv
<1>0. n = 1 /\ Last = 1 /\ Rows = {1} /\ row[1].count = 0
  BY LineageAssumption DEF Init, Last, Least, Rows, Absent, Ids
<1>1. Chain
  BY <1>0 DEF Chain
<1>2. Reach
  BY <1>0 DEF Reach
<1>3. OneOpen
  BY <1>0 DEF OneOpen
<1>4. CloneReady
  BY DEF Init, CloneReady, NoClone
<1> QED
  BY <1>1, <1>2, <1>3, <1>4

\* However many starts crash, and between whichever of their writes: while
\* only restarts cancel rows and only the reconciler clones them, the task is
\* never resumed twice.
THEOREM RestartOneLiveRow == Spec => []OneLiveRow
<1>1. LineInv => OneLiveRow
  BY DEF LineInv, OneLiveRow, OneOpen, Open, Status, Live
<1> QED
  BY <1>1, StartInit, StartNext, LineInit, LineNext, PTL DEF Spec

=============================================================================
