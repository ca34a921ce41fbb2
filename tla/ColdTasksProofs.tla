--------------------------- MODULE ColdTasksProofs ---------------------------
(***************************************************************************)
(* Proofs about the coordinator, for any sets of jobs, cancellers and      *)
(* closers: types, that a close() that returned left nothing running, the  *)
(* only way in which a terminal status is lost, what was heard of a job    *)
(* that succeeded or was called off, and that the coordinator keeps the    *)
(* promise of JobLifecycle.                                                *)
(***************************************************************************)
EXTENDS ColdTasks, TLAPS

\* Every step belongs to one of the four kinds of task, to a playback thread
\* that nobody awaits, or is a stutter: the case split of every proof below.
LEMMA StepCases ==
  ASSUME [Next]_vars
  PROVE  \/ \E j \in Jobs : Submitting(j)
         \/ \E j \in Jobs : Observing(j)
         \/ \E j \in Jobs : Executing(j)
         \/ \E j \in Jobs : Speaking(j)
         \/ \E o \in orphans : OrphanEnds(o)
         \/ \E c \in Cancellers : CancelReturns(c)
         \/ \E c \in Cancellers, j \in Jobs : Cancel(c, j)
         \/ \E c \in Closers : Closing(c)
         \/ UNCHANGED vars
BY DEF Next

\* _mark_cancelled yields a status that JobStatus has.
LEMMA MarkedType ==
  ASSUME TypeOK, NEW S
  PROVE  MarkedCancelled(S) \in [Jobs -> Statuses]
BY DEF TypeOK, MarkedCancelled, Statuses

\* A cancelled notification leaves threads that play some job's notification.
LEMMA OrphanedType ==
  ASSUME NEW S \in SUBSET Jobs
  PROVE  Orphaned(S) \subseteq Jobs \X Kinds
BY DEF Orphaned, Kind, Kinds

\* The coordinator's variables keep their types.
THEOREM TypeCorrect == Spec => []TypeOK
<1>1. Init => TypeOK
  <2> SUFFICES ASSUME Init PROVE TypeOK
    OBVIOUS
  <2>1. orphans \subseteq Jobs \X Kinds /\ heard \subseteq Jobs \X Kinds
    BY DEF Init
  <2> QED BY <2>1 DEF Init, TypeOK, Statuses
<1>2. TypeOK /\ [Next]_vars => TypeOK'
  <2> SUFFICES ASSUME TypeOK, [Next]_vars PROVE TypeOK'
    OBVIOUS
  <2> USE DEF TypeOK
  <2>1. ASSUME NEW j \in Jobs, Submitting(j) PROVE TypeOK'
    <3>1. CASE Submit(j)
      BY <3>1 DEF Submit, Statuses
    <3>2. CASE Acknowledged(j)
      <4>1. heard' \subseteq Jobs \X Kinds
        BY <3>2 DEF Acknowledged, Kinds
      <4> QED BY <3>2, <4>1 DEF Acknowledged
    <3>3. CASE AcknowledgementFails(j)
      BY <3>3 DEF AcknowledgementFails, Statuses
    <3>4. CASE AbortSubmit(j)
      BY <3>4, MarkedType, OrphanedType DEF AbortSubmit
    <3> QED BY <2>1, <3>1, <3>2, <3>3, <3>4 DEF Submitting
  <2>2. ASSUME NEW j \in Jobs, Observing(j) PROVE TypeOK'
    BY <2>2 DEF Observing, CallerWaits, WaitReturns, AbortWait, CallerEnds
  <2>3. ASSUME NEW j \in Jobs, Executing(j) PROVE TypeOK'
    <3>1. CASE Start(j) \/ WorkerFails(j)
      BY <3>1 DEF Start, WorkerFails, Statuses
    <3>5. CASE NeverStarts(j)
      BY <3>5 DEF NeverStarts
    <3>6. CASE WorkerSucceeds(j)
      BY <3>6 DEF WorkerSucceeds
    <3>7. CASE AnnouncementUnformed(j)
      BY <3>7 DEF AnnouncementUnformed
    <3>2. CASE Announced(j)
      <4>1. heard' \subseteq Jobs \X Kinds
        BY <3>2 DEF Announced, Kinds
      <4> QED BY <3>2, <4>1 DEF Announced, Statuses
    <3>3. CASE AnnouncementFails(j)
      BY <3>3 DEF AnnouncementFails, Statuses
    <3>4. CASE Interrupted(j)
      BY <3>4, MarkedType, OrphanedType DEF Interrupted
    <3> QED BY <2>3, <3>1, <3>2, <3>3, <3>4, <3>5, <3>6, <3>7 DEF Executing
  <2>4. ASSUME NEW j \in Jobs, Speaking(j) PROVE TypeOK'
    BY <2>4 DEF Speaking, TakeVoice, BeginPlayback
  <2>5. ASSUME NEW o \in orphans, OrphanEnds(o) PROVE TypeOK'
    BY <2>5 DEF OrphanEnds
  <2>6. ASSUME NEW c \in Cancellers, CancelReturns(c) PROVE TypeOK'
    BY <2>6 DEF CancelReturns
  <2>7. ASSUME NEW c \in Cancellers, NEW j \in Jobs, Cancel(c, j) PROVE TypeOK'
    BY <2>7, MarkedType DEF Cancel, Requested
  <2>8. ASSUME NEW c \in Closers, Closing(c) PROVE TypeOK'
    <3>1. ASSUME CollectTasks(c)
          PROVE  /\ status' \in [Jobs -> Statuses] /\ kill' \in [Jobs -> BOOLEAN]
                 /\ awaited' \in [Closers -> SUBSET Jobs]
                 /\ closer' \in [Closers -> {"idle", "submissions", "tasks", "done", "aborted"}]
      BY <3>1, MarkedType DEF CollectTasks, Requested, ActiveTasks
    <3>2. CASE Close(c)
      BY <3>1, <3>2 DEF Close, Submissions
    <3>3. CASE SubmissionsGathered(c)
      BY <3>1, <3>3 DEF SubmissionsGathered
    <3>4. CASE CloseReturns(c)
      BY <3>4 DEF CloseReturns
    <3>5. CASE AbortCloseSubmissions(c)
      <4>1. Orphaned(awaited[c] \intersect Submissions) \subseteq Jobs \X Kinds
        BY OrphanedType DEF Submissions
      <4> QED BY <3>5, <4>1, MarkedType DEF AbortCloseSubmissions
    <3>6. CASE AbortCloseTasks(c)
      BY <3>6 DEF AbortCloseTasks, Requested
    <3> QED BY <2>8, <3>2, <3>3, <3>4, <3>5, <3>6 DEF Closing
  <2>9. ASSUME UNCHANGED vars PROVE TypeOK'
    BY <2>9 DEF vars
  <2> QED BY StepCases, <2>1, <2>2, <2>3, <2>4, <2>5, <2>6, <2>7, <2>8, <2>9
<1> QED BY <1>1, <1>2, PTL DEF Spec

-----------------------------------------------------------------------------
\* What a close() call knows at each of its awaits.  CloseLeavesNothing alone
\* is not inductive: it needs that a submission in flight is among those the
\* call gathers, and then that every active task is.
CloseInv ==
  \A c \in Closers :
    /\ closer[c] # "idle" => closed
    /\ closer[c] = "submissions" => Submissions \subseteq awaited[c]
    /\ closer[c] = "tasks" => Submissions = {} /\ ActiveTasks \subseteq awaited[c]
    /\ closer[c] = "done"  => Submissions = {} /\ ActiveTasks = {}

\* A step that moves only job j's caller and task begins nothing when the caller
\* does not start to submit, and the task becomes active only from an active
\* one or from the submission.
LEMMA BeginsNothing ==
  ASSUME TypeOK, NEW j \in Jobs, NEW t, NEW w, closed' = closed,
         task' = [task EXCEPT ![j] = t], caller' = [caller EXCEPT ![j] = w],
         w = "acking" => caller[j] = "acking",
         t \in {"created", "working", "telling"} => Active(j) \/ caller[j] = "acking"
  PROVE  /\ closed' = closed
         /\ Submissions' \subseteq Submissions
         /\ ActiveTasks' \subseteq ActiveTasks \union Submissions
<1>1. \A i \in Jobs : caller'[i] = "acking" => caller[i] = "acking"
  BY DEF TypeOK
<1>2. \A i \in Jobs : Active(i)' => Active(i) \/ caller[i] = "acking"
  BY DEF TypeOK, Active
<1>3. Submissions' \subseteq Submissions
  BY <1>1 DEF Submissions
<1> QED BY <1>2, <1>3 DEF Submissions, ActiveTasks

\* On a closed coordinator a step begins no submission, and makes a task active
\* only where a submission was in flight.
LEMMA NothingNewOnceClosed ==
  ASSUME TypeOK, [Next]_vars, closed
  PROVE  /\ closed'
         /\ Submissions' \subseteq Submissions
         /\ ActiveTasks' \subseteq ActiveTasks \union Submissions
<1> DEFINE Goal == /\ closed'
                   /\ Submissions' \subseteq Submissions
                   /\ ActiveTasks' \subseteq ActiveTasks \union Submissions
<1>0. \A j \in Jobs : caller = [caller EXCEPT ![j] = caller[j]] /\ task = [task EXCEPT ![j] = task[j]]
  BY DEF TypeOK
<1>1. ASSUME NEW j \in Jobs, Submitting(j) PROVE Goal
  <2>1. ~Submit(j)
    BY DEF Submit, Open
  <2>2. CASE Acknowledged(j)
    <3>1. task' = [task EXCEPT ![j] = "created"] /\ caller' = [caller EXCEPT ![j] = "free"]
          /\ caller[j] = "acking" /\ closed' = closed
      BY <2>2 DEF Acknowledged
    <3> QED BY <3>1, BeginsNothing
  <2>3. CASE AcknowledgementFails(j) \/ AbortSubmit(j)
    <3>1. PICK w \in {"free", "ended"} : caller' = [caller EXCEPT ![j] = w]
      BY <2>3 DEF AcknowledgementFails, AbortSubmit
    <3>2. task' = [task EXCEPT ![j] = task[j]] /\ closed' = closed
      BY <1>0, <2>3 DEF AcknowledgementFails, AbortSubmit
    <3>3. task[j] \in {"created", "working", "telling"} => Active(j)
      BY DEF Active
    <3> QED BY <3>1, <3>2, <3>3, BeginsNothing
  <2> QED BY <1>1, <2>1, <2>2, <2>3 DEF Submitting
<1>2. ASSUME NEW j \in Jobs, Observing(j) PROVE Goal
  <2>1. PICK w \in {"free", "waiting", "ended"} : caller' = [caller EXCEPT ![j] = w]
    BY <1>2 DEF Observing, CallerWaits, WaitReturns, AbortWait, CallerEnds
  <2>2. task' = [task EXCEPT ![j] = task[j]] /\ closed' = closed
    BY <1>0, <1>2 DEF Observing, CallerWaits, WaitReturns, AbortWait, CallerEnds
  <2>3. task[j] \in {"created", "working", "telling"} => Active(j)
    BY DEF Active
  <2> QED BY <2>1, <2>2, <2>3, BeginsNothing
<1>3. ASSUME NEW j \in Jobs, Executing(j) PROVE Goal
  <2>1. caller' = [caller EXCEPT ![j] = caller[j]] /\ closed' = closed
    BY <1>0, <1>3 DEF Executing, Start, NeverStarts, WorkerSucceeds, WorkerFails,
                      AnnouncementUnformed, Announced, AnnouncementFails, Interrupted
  <2>2. Active(j)
    BY <1>3 DEF Executing, Start, NeverStarts, WorkerSucceeds, WorkerFails,
                AnnouncementUnformed, Announced, AnnouncementFails, Interrupted, Active
  <2>3. \E t : task' = [task EXCEPT ![j] = t]
    BY <1>3 DEF Executing, Start, NeverStarts, WorkerSucceeds, WorkerFails,
                AnnouncementUnformed, Announced, AnnouncementFails, Interrupted
  <2> QED BY <2>1, <2>2, <2>3, BeginsNothing
<1> USE DEF TypeOK, Submissions, ActiveTasks, Active
<1>4. ASSUME NEW j \in Jobs, Speaking(j) PROVE Goal
  BY <1>4 DEF Speaking, TakeVoice, BeginPlayback
<1>5. ASSUME NEW o \in orphans, OrphanEnds(o) PROVE Goal
  BY <1>5 DEF OrphanEnds
<1>6. ASSUME NEW c \in Cancellers, CancelReturns(c) PROVE Goal
  BY <1>6 DEF CancelReturns
<1>7. ASSUME NEW c \in Cancellers, NEW j \in Jobs, Cancel(c, j) PROVE Goal
  BY <1>7 DEF Cancel
<1>8. ASSUME NEW c \in Closers, Closing(c) PROVE Goal
  <2>1. CASE Close(c) \/ SubmissionsGathered(c) \/ CloseReturns(c) \/ AbortCloseTasks(c)
    BY <2>1 DEF Close, SubmissionsGathered, CloseReturns, AbortCloseTasks
  <2>2. CASE AbortCloseSubmissions(c)
    BY <2>2 DEF AbortCloseSubmissions
  <2> QED BY <1>8, <2>1, <2>2 DEF Closing
<1>9. ASSUME UNCHANGED vars PROVE Goal
  BY <1>9 DEF vars
<1> QED BY StepCases, <1>1, <1>2, <1>3, <1>4, <1>5, <1>6, <1>7, <1>8, <1>9

\* Only a step of close() moves a close() call.
LEMMA OthersKeepClosers ==
  ASSUME [Next]_vars, \A c \in Closers : ~Closing(c)
  PROVE  closer' = closer /\ awaited' = awaited
BY StepCases
   DEF Submitting, Submit, Acknowledged, AcknowledgementFails, AbortSubmit,
       Observing, CallerWaits, WaitReturns, AbortWait, CallerEnds,
       Executing, Start, NeverStarts, WorkerSucceeds, WorkerFails, AnnouncementUnformed, Announced,
       AnnouncementFails, Interrupted, Speaking, TakeVoice, BeginPlayback,
       OrphanEnds, CancelReturns, Cancel, vars

LEMMA CloseInvariant == Spec => []CloseInv
<1>1. Init => CloseInv
  BY DEF Init, CloseInv
<1>2. TypeOK /\ CloseInv /\ [Next]_vars => CloseInv'
  <2> SUFFICES ASSUME TypeOK, CloseInv, [Next]_vars, NEW d \in Closers
               PROVE  /\ closer'[d] # "idle" => closed'
                      /\ closer'[d] = "submissions" => Submissions' \subseteq awaited'[d]
                      /\ closer'[d] = "tasks" =>
                           Submissions' = {} /\ ActiveTasks' \subseteq awaited'[d]
                      /\ closer'[d] = "done" => Submissions' = {} /\ ActiveTasks' = {}
    BY DEF CloseInv
  <2>1. CASE closer'[d] = closer[d] /\ awaited'[d] = awaited[d]
    BY <2>1, NothingNewOnceClosed DEF CloseInv
  <2>2. CASE Closing(d)
    <3>1. ASSUME CollectTasks(d), closed', Submissions' = {}, ActiveTasks' = ActiveTasks
          PROVE  /\ closer'[d] = "done" => ActiveTasks' = {}
                 /\ closer'[d] \in {"tasks", "done"}
                 /\ ActiveTasks' \subseteq awaited'[d]
      BY <3>1 DEF CollectTasks, TypeOK
    <3>2. CASE Close(d)
      BY <3>1, <3>2 DEF Close, TypeOK, Submissions, ActiveTasks, Active
    <3>3. CASE SubmissionsGathered(d)
      <4>1. Submissions = {} /\ closed
        BY <3>3 DEF SubmissionsGathered, CloseInv, Submissions
      <4> QED BY <3>1, <3>3, <4>1 DEF SubmissionsGathered, Submissions, ActiveTasks, Active
    <3>4. CASE CloseReturns(d)
      BY <3>4 DEF CloseReturns, CloseInv, TypeOK, Submissions, ActiveTasks, Active, Over
    <3>5. CASE AbortCloseSubmissions(d) \/ AbortCloseTasks(d)
      BY <3>5 DEF AbortCloseSubmissions, AbortCloseTasks, CloseInv, TypeOK
    <3> QED BY <2>2, <3>2, <3>3, <3>4, <3>5 DEF Closing
  <2>3. CASE \E c \in Closers : c # d /\ Closing(c)
    BY <2>1, <2>3 DEF Closing, Close, SubmissionsGathered, CloseReturns, CollectTasks,
                      AbortCloseSubmissions, AbortCloseTasks, TypeOK
  <2>4. CASE \A c \in Closers : ~Closing(c)
    BY <2>1, <2>4, OthersKeepClosers
  <2> QED BY <2>2, <2>3, <2>4
<1> QED BY <1>1, <1>2, TypeCorrect, PTL DEF Spec

\* A close() that returned left nothing in flight and nothing running.
THEOREM CloseSafe == Spec => []CloseLeavesNothing
<1>1. CloseInv => CloseLeavesNothing
  BY DEF CloseInv, CloseLeavesNothing
<1> QED BY <1>1, CloseInvariant, PTL

-----------------------------------------------------------------------------
\* Where a job's status can stand for each place of its caller and its task.
StatusInv ==
  \A j \in Jobs :
    /\ caller[j] = "idle" <=> status[j] = "absent"
    /\ caller[j] \in {"idle", "acking"} => task[j] = "none"
    /\ caller[j] = "acking" => \/ status[j] = "pending"
                               \/ status[j] = "cancelled" /\ EarlyCancel
    /\ task[j] = "none" /\ caller[j] \notin {"idle", "acking"} => Terminal(j)
    /\ task[j] = "none" => ~kill[j]
    /\ task[j] = "created" => \/ status[j] = "pending"
                              \/ status[j] = "cancelled" /\ (kill[j] \/ EarlyCancel)
    /\ task[j] \in {"working", "telling"} => \/ status[j] = "running"
                                             \/ status[j] = "cancelled" /\ kill[j]

\* What a close() call gathers belongs to jobs that were submitted.
AwaitedInv == \A c \in Closers : \A j \in awaited[c] : caller[j] # "idle"

\* No caller becomes idle again, so what a close() call gathers stays submitted.
LEMMA AwaitedStep ==
  ASSUME TypeOK, StatusInv, AwaitedInv, [Next]_vars
  PROVE  AwaitedInv'
<1>1. \A i \in Jobs : caller[i] # "idle" => caller'[i] # "idle"
  <2> DEFINE Goal == \A i \in Jobs : caller[i] # "idle" => caller'[i] # "idle"
  <2> USE DEF TypeOK
  <2>1. ASSUME NEW j \in Jobs, Submitting(j) PROVE Goal
    BY <2>1 DEF Submitting, Submit, Acknowledged, AcknowledgementFails, AbortSubmit
  <2>2. ASSUME NEW j \in Jobs, Observing(j) PROVE Goal
    BY <2>2 DEF Observing, CallerWaits, WaitReturns, AbortWait, CallerEnds
  <2>3. CASE UNCHANGED caller
    BY <2>3
  <2>4. ASSUME NEW c \in Closers, Closing(c) PROVE Goal
    <3>1. CASE AbortCloseSubmissions(c)
      BY <3>1 DEF AbortCloseSubmissions
    <3>2. CASE UNCHANGED caller
      BY <3>2
    <3> QED BY <2>4, <3>1, <3>2
            DEF Closing, Close, SubmissionsGathered, CloseReturns, AbortCloseTasks
  <2> QED BY StepCases, <2>1, <2>2, <2>3, <2>4
          DEF Executing, Start, NeverStarts, WorkerSucceeds, WorkerFails, AnnouncementUnformed, Announced,
              AnnouncementFails, Interrupted, Speaking, TakeVoice, BeginPlayback,
              OrphanEnds, CancelReturns, Cancel, vars
<1>2. ASSUME NEW c \in Closers
      PROVE  awaited'[c] \in {awaited[c], Submissions, ActiveTasks}
  <2>1. CASE \A d \in Closers : ~Closing(d)
    BY <2>1, OthersKeepClosers
  <2>2. ASSUME NEW d \in Closers, Closing(d) PROVE awaited'[c] \in {awaited[c], Submissions, ActiveTasks}
    BY <2>2 DEF Closing, Close, SubmissionsGathered, CollectTasks, CloseReturns,
                AbortCloseSubmissions, AbortCloseTasks, TypeOK
  <2> QED BY <2>1, <2>2
<1>3. \A j \in Submissions \union ActiveTasks : caller[j] # "idle" /\ j \in Jobs
  BY DEF Submissions, ActiveTasks, Active, StatusInv
<1> QED BY <1>1, <1>2, <1>3 DEF AwaitedInv, TypeOK

\* What a step may do to one job's status: nothing once it is terminal, except
\* through the window that cancel() has before the job's task exists.
StatusKept(j) ==
  Terminal(j) /\ status'[j] # status[j] =>
    /\ EarlyCancel
    /\ status[j] = "cancelled"
    /\ \/ caller[j] = "acking" /\ status'[j] = "failed"
       \/ task[j] = "created" /\ status'[j] = "running" /\ ~kill[j]

\* _mark_cancelled moves the unfinished jobs of its set to CANCELLED only.
LEMMA MarkedStatus ==
  ASSUME TypeOK, NEW S, NEW j \in Jobs
  PROVE  MarkedCancelled(S)[j] = IF j \in S /\ ~Terminal(j) THEN "cancelled" ELSE status[j]
BY DEF MarkedCancelled

\* Cancelling and marking a set of jobs together, as cancel() and close() do,
\* keeps StatusInv and every terminal status.
LEMMA CallOffStep ==
  ASSUME TypeOK, StatusInv, NEW S \in SUBSET Jobs,
         \A j \in S : caller[j] # "idle" /\ (caller[j] = "acking" => EarlyCancel),
         status' = MarkedCancelled(S), kill' = Requested(S), UNCHANGED <<task, caller>>
  PROVE  StatusInv' /\ \A j \in Jobs : StatusKept(j)
<1>1. ASSUME NEW j \in Jobs
      PROVE  /\ status'[j] = IF j \in S /\ ~Terminal(j) THEN "cancelled" ELSE status[j]
             /\ kill'[j] <=> (kill[j] \/ (j \in S /\ Active(j)))
  BY MarkedStatus DEF Requested
<1>2. \A j \in Jobs : StatusKept(j)
  BY <1>1 DEF StatusKept
<1>3. ASSUME NEW j \in Jobs, j \in S, ~Terminal(j)
      PROVE  /\ status[j] # "absent" /\ status'[j] = "cancelled"
             /\ Active(j) => kill'[j]
             /\ ~Active(j) => (kill'[j] <=> kill[j])
  BY <1>1, <1>3 DEF StatusInv
<1>4. ASSUME NEW j \in Jobs, ~(j \in S /\ ~Terminal(j))
      PROVE  status'[j] = status[j] /\ (kill[j] => kill'[j]) /\ (~Active(j) => (kill'[j] <=> kill[j]))
  BY <1>1, <1>4
<1>5. StatusInv'
  BY <1>3, <1>4 DEF StatusInv, Terminal, TerminalStatuses, Active
<1> QED BY <1>2, <1>5

\* Every step keeps the places of caller, task and status in agreement, and a
\* terminal status but for the early cancel().
LEMMA StatusStep ==
  ASSUME TypeOK, StatusInv, AwaitedInv, [Next]_vars
  PROVE  StatusInv' /\ \A j \in Jobs : StatusKept(j)
<1> DEFINE Goal == StatusInv' /\ \A j \in Jobs : StatusKept(j)
<1> USE DEF TypeOK, StatusInv, StatusKept, Terminal, TerminalStatuses
<1>1. ASSUME NEW j \in Jobs, Submitting(j) PROVE Goal
  <2>1. CASE Submit(j)
    BY <2>1 DEF Submit
  <2>2. CASE Acknowledged(j)
    BY <2>2 DEF Acknowledged
  <2>3. CASE AcknowledgementFails(j)
    BY <2>3 DEF AcknowledgementFails
  <2>4. CASE AbortSubmit(j)
    BY <2>4, MarkedStatus DEF AbortSubmit
  <2> QED BY <1>1, <2>1, <2>2, <2>3, <2>4 DEF Submitting
<1>2. ASSUME NEW j \in Jobs, Observing(j) PROVE Goal
  BY <1>2 DEF Observing, CallerWaits, WaitReturns, AbortWait, CallerEnds
<1>3. ASSUME NEW j \in Jobs, Executing(j) PROVE Goal
  <2>1. CASE Start(j)
    BY <2>1 DEF Start
  <2>2. CASE NeverStarts(j) \/ WorkerSucceeds(j) \/ AnnouncementUnformed(j)
    BY <2>2 DEF NeverStarts, WorkerSucceeds, AnnouncementUnformed
  <2>3. CASE WorkerFails(j)
    BY <2>3 DEF WorkerFails
  <2>4. CASE Announced(j)
    BY <2>4 DEF Announced
  <2>5. CASE AnnouncementFails(j)
    BY <2>5 DEF AnnouncementFails
  <2>6. CASE Interrupted(j)
    BY <2>6, MarkedStatus DEF Interrupted
  <2> QED BY <1>3, <2>1, <2>2, <2>3, <2>4, <2>5, <2>6 DEF Executing
<1>4. ASSUME NEW j \in Jobs, Speaking(j) PROVE Goal
  BY <1>4 DEF Speaking, TakeVoice, BeginPlayback
<1>5. ASSUME NEW o \in orphans, OrphanEnds(o) PROVE Goal
  BY <1>5 DEF OrphanEnds
<1>6. ASSUME NEW c \in Cancellers, CancelReturns(c) PROVE Goal
  BY <1>6 DEF CancelReturns
<1>7. ASSUME NEW c \in Cancellers, NEW j \in Jobs, Cancel(c, j) PROVE Goal
  <2> DEFINE S == IF Terminal(j) THEN {} ELSE {j}
  <2>1. status' = MarkedCancelled(S) /\ kill' = Requested(S)
    BY <1>7 DEF Cancel, MarkedCancelled, Requested, Active
  <2>2. \A i \in S : caller[i] # "idle" /\ (caller[i] = "acking" => EarlyCancel)
    BY <1>7 DEF Cancel
  <2>3. UNCHANGED <<task, caller>> /\ S \in SUBSET Jobs
    BY <1>7 DEF Cancel
  <2> HIDE DEF S
  <2> QED BY <2>1, <2>2, <2>3, CallOffStep
<1>8. ASSUME NEW c \in Closers, Closing(c) PROVE Goal
  <2>1. ASSUME CollectTasks(c), UNCHANGED <<task, caller>> PROVE Goal
    <3> DEFINE S == IF c \in CancelPending THEN ActiveTasks ELSE {}
    <3>1. status' = MarkedCancelled(S) /\ kill' = Requested(S) /\ S \in SUBSET Jobs
      BY <2>1 DEF CollectTasks, ActiveTasks
    <3>2. \A i \in S : caller[i] # "idle" /\ caller[i] # "acking"
      BY DEF ActiveTasks, Active
    <3> HIDE DEF S
    <3> QED BY <2>1, <3>1, <3>2, CallOffStep
  <2>2. CASE Close(c)
    <3>1. CASE Submissions = {}
      BY <2>1, <2>2, <3>1 DEF Close
    <3>2. CASE Submissions # {}
      BY <2>2, <3>2 DEF Close
    <3> QED BY <3>1, <3>2
  <2>3. CASE SubmissionsGathered(c)
    BY <2>1, <2>3 DEF SubmissionsGathered
  <2>4. CASE CloseReturns(c)
    BY <2>4 DEF CloseReturns
  <2>5. CASE AbortCloseSubmissions(c)
    <3> DEFINE cut == awaited[c] \intersect Submissions
    <3>1. ASSUME NEW j \in Jobs
          PROVE  /\ status'[j] = IF j \in cut /\ ~Terminal(j) THEN "cancelled" ELSE status[j]
                 /\ caller'[j] = IF j \in awaited[c] THEN "ended" ELSE caller[j]
      BY <2>5, MarkedStatus DEF AbortCloseSubmissions
    <3>2. UNCHANGED <<task, kill>>
      BY <2>5 DEF AbortCloseSubmissions
    <3>3. \A j \in awaited[c] : caller[j] # "idle"
      BY DEF AwaitedInv
    <3> QED BY <3>1, <3>2, <3>3 DEF Submissions
  <2>6. CASE AbortCloseTasks(c)
    BY <2>6 DEF AbortCloseTasks, Requested, Active
  <2> QED BY <1>8, <2>2, <2>3, <2>4, <2>5, <2>6 DEF Closing
<1>9. ASSUME UNCHANGED vars PROVE Goal
  BY <1>9 DEF vars
<1> QED BY StepCases, <1>1, <1>2, <1>3, <1>4, <1>5, <1>6, <1>7, <1>8, <1>9

\* A terminal status is final but for the one window.
THEOREM TerminalSafe == Spec => TerminalLostOnlyByEarlyCancel
<1>1. Init => StatusInv /\ AwaitedInv
  BY DEF Init, StatusInv, AwaitedInv
<1>2. TypeOK /\ StatusInv /\ AwaitedInv /\ [Next]_vars => (StatusInv /\ AwaitedInv)'
  BY StatusStep, AwaitedStep
<1>3. TypeOK /\ StatusInv /\ AwaitedInv /\ [Next]_vars =>
        [\A j \in Jobs : Terminal(j) /\ status'[j] # status[j] =>
           /\ EarlyCancel
           /\ status[j] = "cancelled"
           /\ \/ caller[j] = "acking" /\ status'[j] = "failed"
              \/ task[j] = "created" /\ status'[j] = "running" /\ ~kill[j]]_vars
  BY StatusStep DEF StatusKept
<1> QED BY <1>1, <1>2, <1>3, TypeCorrect, PTL DEF Spec, TerminalLostOnlyByEarlyCancel

-----------------------------------------------------------------------------
\* What is played, and what follows for the job: a task exists only after its
\* acknowledgement was heard, announces only an answer it has, and leaves the
\* job succeeded only when the announcement was heard.  A notification is in
\* progress only while its caller or its task is at the await of it.
Told(j, what) == <<j, what>> \in heard

VoiceInv ==
  \A j \in Jobs :
    /\ task[j] # "none" => Told(j, "acknowledgement")
    /\ task[j] = "telling" => result[j]
    /\ status[j] = "succeeded" => task[j] = "done" /\ result[j] /\ Told(j, "result")
    /\ speech[j] # "silent" => caller[j] = "acking" \/ task[j] = "telling"

\* Nothing takes back what the user has heard, or an answer.
LEMMA HistoryGrows ==
  ASSUME TypeOK, [Next]_vars
  PROVE  \A j \in Jobs : /\ result[j] => result'[j]
                         /\ \A what \in Kinds : Told(j, what) => Told(j, what)'
<1> DEFINE Goal == heard \subseteq heard' /\ \A j \in Jobs : result[j] => result'[j]
<1> USE DEF TypeOK
<1>1. ASSUME NEW j \in Jobs, Executing(j) PROVE Goal
  BY <1>1 DEF Executing, Start, NeverStarts, WorkerSucceeds, WorkerFails,
              AnnouncementUnformed, Announced, AnnouncementFails, Interrupted
<1>2. ASSUME NEW j \in Jobs, Submitting(j) PROVE Goal
  BY <1>2 DEF Submitting, Submit, Acknowledged, AcknowledgementFails, AbortSubmit
<1>3. ASSUME NEW o \in orphans, OrphanEnds(o) PROVE Goal
  BY <1>3 DEF OrphanEnds
<1>4. ASSUME UNCHANGED <<heard, result>> PROVE Goal
  BY <1>4
<1>5. Goal
  BY StepCases, <1>1, <1>2, <1>3, <1>4
     DEF Observing, CallerWaits, WaitReturns, AbortWait, CallerEnds,
         Speaking, TakeVoice, BeginPlayback, CancelReturns, Cancel, Closing, Close,
         SubmissionsGathered, CloseReturns, AbortCloseSubmissions, AbortCloseTasks, vars
<1> QED BY <1>5 DEF Told

\* Calling jobs off makes none of them succeed.
LEMMA MarkedIsNoSuccess ==
  ASSUME TypeOK, NEW S, NEW j \in Jobs, MarkedCancelled(S)[j] = "succeeded"
  PROVE  status[j] = "succeeded"
BY MarkedStatus

LEMMA VoiceStep ==
  ASSUME TypeOK, StatusInv, VoiceInv, [Next]_vars
  PROVE  VoiceInv'
<1> USE DEF TypeOK, StatusInv, VoiceInv
<1>0. \A j \in Jobs : /\ result[j] => result'[j]
                      /\ Told(j, "acknowledgement") => Told(j, "acknowledgement")'
                      /\ Told(j, "result") => Told(j, "result")'
  BY HistoryGrows DEF Kinds
<1>1. ASSUME NEW j \in Jobs, Submitting(j) PROVE VoiceInv'
  <2>1. CASE Submit(j)
    BY <1>0, <2>1 DEF Submit
  <2>2. CASE Acknowledged(j)
    <3>1. Told(j, "acknowledgement")'
      BY <2>2 DEF Acknowledged, Told
    <3> QED BY <1>0, <2>2, <3>1 DEF Acknowledged
  <2>3. CASE AcknowledgementFails(j)
    BY <1>0, <2>3 DEF AcknowledgementFails
  <2>4. CASE AbortSubmit(j)
    BY <1>0, <2>4, MarkedIsNoSuccess DEF AbortSubmit
  <2> QED BY <1>1, <2>1, <2>2, <2>3, <2>4 DEF Submitting
<1>2. ASSUME NEW j \in Jobs, Observing(j) PROVE VoiceInv'
  BY <1>0, <1>2 DEF Observing, CallerWaits, WaitReturns, AbortWait, CallerEnds
<1>3. ASSUME NEW j \in Jobs, Executing(j) PROVE VoiceInv'
  <2>1. CASE Start(j)
    BY <1>0, <2>1 DEF Start
  <2>2. CASE NeverStarts(j)
    BY <1>0, <2>2 DEF NeverStarts
  <2>3. CASE WorkerSucceeds(j)
    BY <1>0, <2>3 DEF WorkerSucceeds
  <2>4. CASE AnnouncementUnformed(j)
    BY <1>0, <2>4 DEF AnnouncementUnformed
  <2>5. CASE WorkerFails(j)
    BY <1>0, <2>5 DEF WorkerFails
  <2>6. CASE Announced(j)
    <3>1. Told(j, "result")'
      BY <2>6 DEF Announced, Told
    <3> QED BY <1>0, <2>6, <3>1 DEF Announced
  <2>7. CASE AnnouncementFails(j)
    BY <1>0, <2>7 DEF AnnouncementFails
  <2>8. CASE Interrupted(j)
    BY <1>0, <2>8, MarkedIsNoSuccess DEF Interrupted
  <2> QED BY <1>3, <2>1, <2>2, <2>3, <2>4, <2>5, <2>6, <2>7, <2>8 DEF Executing
<1>4. ASSUME NEW j \in Jobs, Speaking(j) PROVE VoiceInv'
  BY <1>0, <1>4 DEF Speaking, TakeVoice, BeginPlayback
<1>5. ASSUME NEW o \in orphans, OrphanEnds(o) PROVE VoiceInv'
  BY <1>0, <1>5 DEF OrphanEnds
<1>6. ASSUME NEW c \in Cancellers, CancelReturns(c) PROVE VoiceInv'
  BY <1>0, <1>6 DEF CancelReturns
<1>7. ASSUME NEW c \in Cancellers, NEW j \in Jobs, Cancel(c, j) PROVE VoiceInv'
  BY <1>0, <1>7, MarkedIsNoSuccess DEF Cancel
<1>8. ASSUME NEW c \in Closers, Closing(c) PROVE VoiceInv'
  <2>1. CASE AbortCloseSubmissions(c)
    BY <1>0, <2>1, MarkedIsNoSuccess DEF AbortCloseSubmissions, Submissions
  <2>2. CASE Close(c) \/ SubmissionsGathered(c) \/ CloseReturns(c) \/ AbortCloseTasks(c)
    <3>1. \A i \in Jobs : status'[i] = "succeeded" => status[i] = "succeeded"
      BY <2>2, MarkedIsNoSuccess
         DEF Close, SubmissionsGathered, CollectTasks, CloseReturns, AbortCloseTasks
    <3>2. UNCHANGED <<task, caller, speech>>
      BY <1>0, <2>2 DEF Close, SubmissionsGathered, CloseReturns, AbortCloseTasks
    <3> QED BY <1>0, <3>1, <3>2
  <2> QED BY <1>8, <2>1, <2>2 DEF Closing
<1>9. ASSUME UNCHANGED vars PROVE VoiceInv'
  BY <1>0, <1>9 DEF vars
<1> QED BY StepCases, <1>1, <1>2, <1>3, <1>4, <1>5, <1>6, <1>7, <1>8, <1>9

\* What every proof about jobs starts from.
JobInv == TypeOK /\ StatusInv /\ AwaitedInv /\ VoiceInv

LEMMA JobInvariant == Spec => []JobInv
<1>1. Init => StatusInv /\ AwaitedInv /\ VoiceInv
  BY DEF Init, StatusInv, AwaitedInv, VoiceInv
<1>2. TypeOK /\ StatusInv /\ AwaitedInv /\ VoiceInv /\ [Next]_vars
        => (StatusInv /\ AwaitedInv /\ VoiceInv)'
  BY StatusStep, AwaitedStep, VoiceStep
<1> QED BY <1>1, <1>2, TypeCorrect, PTL DEF Spec, JobInv

\* A job that is SUCCEEDED has an answer, and the user heard both that it was
\* begun and what came of it.
THEOREM SuccessSafe == Spec => []SucceededWasHeard
<1>1. JobInv => SucceededWasHeard
  <2> SUFFICES ASSUME JobInv, NEW j \in Jobs, status[j] = "succeeded"
               PROVE  result[j] /\ \A what \in Kinds : <<j, what>> \in heard
    BY DEF SucceededWasHeard
  <2> QED BY DEF JobInv, VoiceInv, Told, Kinds
<1> QED BY <1>1, JobInvariant, PTL

\* While a job is CANCELLED no playback of its answer begins.
THEOREM SilenceSafe == Spec => CancelledIsNotAnnounced
<1> DEFINE Mute(j) == status[j] = "cancelled" /\ task[j] # "none" /\ speech'[j] = "playing"
                        => speech[j] = "playing"
<1>1. ASSUME JobInv, [Next]_vars, NEW j \in Jobs, speech'[j] = "playing", speech[j] # "playing"
      PROVE  BeginPlayback(j)
  <2> USE DEF JobInv, TypeOK
  <2>1. ASSUME NEW i \in Jobs, BeginPlayback(i) PROVE i = j
    BY <1>1, <2>1 DEF BeginPlayback
  <2>2. ASSUME NEW i \in Jobs, Speaking(i) PROVE BeginPlayback(j)
    BY <1>1, <2>1, <2>2 DEF Speaking, TakeVoice
  <2>3. ASSUME NEW i \in Jobs, Submitting(i) PROVE FALSE
    BY <1>1, <2>3 DEF Submitting, Submit, Acknowledged, AcknowledgementFails, AbortSubmit
  <2>4. ASSUME NEW i \in Jobs, Executing(i) PROVE FALSE
    BY <1>1, <2>4 DEF Executing, Start, NeverStarts, WorkerSucceeds, WorkerFails,
                AnnouncementUnformed, Announced, AnnouncementFails, Interrupted
  <2>5. ASSUME NEW c \in Closers, Closing(c) PROVE FALSE
    BY <1>1, <2>5 DEF Closing, Close, SubmissionsGathered, CloseReturns,
                      AbortCloseSubmissions, AbortCloseTasks
  <2> QED BY <1>1, StepCases, <2>2, <2>3, <2>4, <2>5
          DEF Observing, CallerWaits, WaitReturns, AbortWait, CallerEnds, OrphanEnds,
              CancelReturns, Cancel, vars
<1>2. ASSUME JobInv, NEW j \in Jobs, BeginPlayback(j), task[j] # "none"
      PROVE  status[j] # "cancelled"
  <2>1. ~kill[j] /\ speech[j] # "silent"
    BY <1>2 DEF BeginPlayback, Takes, Kind
  <2>2. task[j] = "telling"
    BY <1>2, <2>1 DEF JobInv, VoiceInv, StatusInv
  <2> QED BY <1>2, <2>1, <2>2 DEF JobInv, StatusInv
<1>3. JobInv /\ [Next]_vars => [\A j \in Jobs : Mute(j)]_vars
  BY <1>1, <1>2
<1> QED BY <1>3, JobInvariant, PTL DEF Spec, CancelledIsNotAnnounced

-----------------------------------------------------------------------------
\* The coordinator implements JobLifecycle where the three windows are shut: no
\* cancel() names a job that is still being acknowledged, no close() is
\* cancelled, and completion_template formats every answer.
Sheltered == ~EarlyCancel /\ AbortableClosers = {} /\ ~TemplateMayRaise

\* Then a cancellation reaches a task only together with its mark, and a task
\* that is over leaves its job in a terminal status.
EndInv == \A j \in Jobs : kill[j] \/ Over(j) => Terminal(j)

\* A terminal status is final.
LEMMA TerminalKept ==
  ASSUME Sheltered, JobInv, [Next]_vars
  PROVE  \A j \in Jobs : Terminal(j) => Terminal(j)'
BY StatusStep DEF Sheltered, JobInv, StatusKept, Terminal

LEMMA CallOffEnds ==
  ASSUME TypeOK, EndInv, NEW S, status' = MarkedCancelled(S), kill' = Requested(S),
         task' = task
  PROVE  EndInv'
<1> SUFFICES ASSUME NEW j \in Jobs, kill'[j] \/ Over(j)' PROVE Terminal(j)'
  BY DEF EndInv
<1>1. status'[j] = IF j \in S /\ ~Terminal(j) THEN "cancelled" ELSE status[j]
  BY MarkedStatus
<1>2. kill[j] \/ j \in S \/ Over(j)
  BY DEF Requested, Over
<1> QED BY <1>1, <1>2 DEF EndInv, Terminal, TerminalStatuses

LEMMA EndStep ==
  ASSUME Sheltered, JobInv, EndInv, [Next]_vars
  PROVE  EndInv'
<1>0. \A i \in Jobs : Terminal(i) => Terminal(i)'
  BY TerminalKept
<1> USE DEF EndInv, JobInv, TypeOK, Over
<1>1. ASSUME NEW j \in Jobs, Submitting(j) PROVE EndInv'
  BY <1>0, <1>1 DEF Submitting, Submit, Acknowledged, AcknowledgementFails, AbortSubmit
<1>2. ASSUME NEW j \in Jobs, Observing(j) PROVE EndInv'
  BY <1>0, <1>2 DEF Observing, CallerWaits, WaitReturns, AbortWait, CallerEnds
<1>3. ASSUME NEW j \in Jobs, Executing(j) PROVE EndInv'
  <2>1. CASE Start(j) \/ WorkerSucceeds(j)
    BY <1>0, <2>1 DEF Start, WorkerSucceeds
  <2>2. CASE NeverStarts(j)
    BY <1>0, <2>2 DEF NeverStarts
  <2>3. ~AnnouncementUnformed(j)
    BY DEF AnnouncementUnformed, Sheltered
  <2>4. CASE WorkerFails(j) \/ Announced(j) \/ AnnouncementFails(j)
    <3>1. Terminal(j)'
      BY <2>4 DEF WorkerFails, Announced, AnnouncementFails, Terminal, TerminalStatuses
    <3> QED BY <1>0, <2>4, <3>1 DEF WorkerFails, Announced, AnnouncementFails
  <2>5. CASE Interrupted(j)
    BY <1>0, <2>5 DEF Interrupted
  <2> QED BY <1>3, <2>1, <2>2, <2>3, <2>4, <2>5 DEF Executing
<1>4. ASSUME NEW j \in Jobs, Speaking(j) PROVE EndInv'
  BY <1>0, <1>4 DEF Speaking, TakeVoice, BeginPlayback
<1>5. ASSUME NEW o \in orphans, OrphanEnds(o) PROVE EndInv'
  BY <1>0, <1>5 DEF OrphanEnds
<1>6. ASSUME NEW c \in Cancellers, CancelReturns(c) PROVE EndInv'
  BY <1>0, <1>6 DEF CancelReturns
<1>7. ASSUME NEW c \in Cancellers, NEW j \in Jobs, Cancel(c, j) PROVE EndInv'
  <2> DEFINE S == IF Terminal(j) THEN {} ELSE {j}
  <2>1. status' = MarkedCancelled(S) /\ kill' = Requested(S) /\ task' = task
    BY <1>7 DEF Cancel, MarkedCancelled, Requested, Active, StatusInv
  <2> HIDE DEF S
  <2> QED BY <2>1, CallOffEnds
<1>8. ASSUME NEW c \in Closers, Closing(c) PROVE EndInv'
  <2>1. ASSUME CollectTasks(c), task' = task PROVE EndInv'
    BY <2>1, CallOffEnds DEF CollectTasks
  <2>2. CASE Close(c) \/ SubmissionsGathered(c) \/ CloseReturns(c)
    BY <1>0, <2>1, <2>2 DEF Close, SubmissionsGathered, CloseReturns
  <2>3. ~AbortCloseSubmissions(c) /\ ~AbortCloseTasks(c)
    BY DEF AbortCloseSubmissions, AbortCloseTasks, Sheltered
  <2> QED BY <1>8, <2>2, <2>3 DEF Closing
<1>9. ASSUME UNCHANGED vars PROVE EndInv'
  BY <1>0, <1>9 DEF vars
<1> QED BY StepCases, <1>1, <1>2, <1>3, <1>4, <1>5, <1>6, <1>7, <1>8, <1>9

\* The refinement mapping's sealed, and the step of JobLifecycle or stutter
\* that a step of the coordinator has to be.
Sealed == \E c \in Closers : closer[c] = "done"

PromiseStep == [Promise!Next]_<<status, Sealed>>

\* A coordinator that has closed stays so, and is closed to submissions.
LEMMA SealedKept ==
  ASSUME TypeOK, CloseInv, [Next]_vars
  PROVE  /\ Sealed => Sealed' /\ closed
         /\ (\A c \in Closers : ~Closing(c)) => Sealed' = Sealed
<1>1. ASSUME NEW d \in Closers, closer[d] = "done" PROVE closer'[d] = "done"
  <2>1. CASE \A c \in Closers : ~Closing(c)
    BY <1>1, <2>1, OthersKeepClosers
  <2>2. ASSUME NEW c \in Closers, Closing(c) PROVE closer'[d] = "done"
    BY <1>1, <2>2 DEF Closing, Close, SubmissionsGathered, CloseReturns, CollectTasks,
                      AbortCloseSubmissions, AbortCloseTasks, TypeOK
  <2> QED BY <2>1, <2>2
<1>2. (\A c \in Closers : ~Closing(c)) => closer' = closer
  BY OthersKeepClosers
<1> QED BY <1>1, <1>2 DEF Sealed, CloseInv

\* Cancelling jobs that are in progress is one CallOff, or changes nothing.
LEMMA CallOffPromise ==
  ASSUME JobInv, NEW S \in SUBSET Jobs, \A j \in S : caller[j] # "idle",
         status' = MarkedCancelled(S), Sealed' = Sealed
  PROVE  PromiseStep
<1> DEFINE T == {j \in S : ~Terminal(j)}
<1>1. T \subseteq Promise!Unfinished
  BY DEF JobInv, StatusInv, TypeOK, Statuses, Terminal, TerminalStatuses, Promise!Unfinished
<1>2. status' = [j \in Jobs |-> IF j \in T THEN "cancelled" ELSE status[j]]
  BY DEF MarkedCancelled
<1>3. CASE T = {}
  <2>1. status' = status
    BY <1>2, <1>3 DEF JobInv, TypeOK
  <2> QED BY <2>1 DEF PromiseStep
<1>4. CASE T # {}
  <2>1. Promise!CallOff(T)
    BY <1>2, <1>4 DEF Promise!CallOff, Sealed
  <2> QED BY <1>1, <2>1 DEF PromiseStep, Promise!Next
<1> QED BY <1>3, <1>4

\* A job's status is moved alone: to CANCELLED, or along one of the other
\* steps of JobLifecycle.
LEMMA MovePromise ==
  ASSUME JobInv, NEW j \in Jobs, NEW from, NEW to, status[j] = from,
         status' = [status EXCEPT ![j] = to], Sealed' = Sealed,
         \/ from = "absent" /\ to = "pending" /\ ~Sealed
         \/ from = "pending" /\ to \in {"running", "failed"}
         \/ from = "running" /\ to \in {"failed", "succeeded"}
  PROVE  PromiseStep
<1>1. Promise!Moved(j, from, to)
  BY DEF Promise!Moved, Sealed
<1>2. \/ Promise!Accept(j) \/ Promise!Begin(j) \/ Promise!Fail(j) \/ Promise!Complete(j)
  BY <1>1 DEF Promise!Accept, Promise!Begin, Promise!Fail, Promise!Complete, Sealed
<1> QED BY <1>2 DEF PromiseStep, Promise!Next

\* Without a submission and an active task no job is unfinished.
LEMMA NothingUnfinished ==
  ASSUME JobInv, EndInv, Submissions = {}, ActiveTasks = {}
  PROVE  Promise!Unfinished = {}
<1> SUFFICES ASSUME NEW j \in Jobs, status[j] \in {"pending", "running"} PROVE FALSE
  BY DEF Promise!Unfinished
<1>1. ~Terminal(j) /\ status[j] # "absent"
  BY DEF Terminal, TerminalStatuses
<1>2. caller[j] # "idle" /\ caller[j] # "acking" /\ ~Active(j) /\ ~Over(j)
  BY <1>1 DEF JobInv, StatusInv, Submissions, ActiveTasks, EndInv
<1> QED BY <1>1, <1>2 DEF JobInv, StatusInv, TypeOK, Active, Over

LEMMA PromiseKept ==
  ASSUME Sheltered, JobInv, CloseInv, EndInv, [Next]_vars
  PROVE  PromiseStep
<1> USE DEF JobInv
<1>1. CASE \A c \in Closers : ~Closing(c)
  <2>0. Sealed' = Sealed /\ (Sealed => closed)
    BY <1>1, SealedKept
  <2>1. ASSUME NEW j \in Jobs, Submitting(j) PROVE PromiseStep
    <3>1. CASE Submit(j)
      <4>1. status[j] = "absent" /\ ~Sealed
        BY <2>0, <3>1 DEF Submit, Open, StatusInv
      <4> QED BY <2>0, <3>1, <4>1, MovePromise DEF Submit
    <3>2. CASE Acknowledged(j)
      BY <2>0, <3>2 DEF Acknowledged, PromiseStep
    <3>3. CASE AcknowledgementFails(j)
      <4>1. status[j] = "pending"
        BY <3>3 DEF AcknowledgementFails, StatusInv, Sheltered
      <4> QED BY <2>0, <3>3, <4>1, MovePromise DEF AcknowledgementFails
    <3>4. CASE AbortSubmit(j)
      BY <2>0, <3>4, CallOffPromise DEF AbortSubmit
    <3> QED BY <2>1, <3>1, <3>2, <3>3, <3>4 DEF Submitting
  <2>2. ASSUME NEW j \in Jobs, Executing(j) PROVE PromiseStep
    <3>1. CASE Start(j)
      <4>1. status[j] = "pending"
        BY <3>1 DEF Start, StatusInv, Sheltered
      <4> QED BY <2>0, <3>1, <4>1, MovePromise DEF Start
    <3>2. CASE NeverStarts(j) \/ WorkerSucceeds(j) \/ AnnouncementUnformed(j)
      BY <2>0, <3>2 DEF NeverStarts, WorkerSucceeds, AnnouncementUnformed, PromiseStep
    <3>3. CASE WorkerFails(j) \/ Announced(j) \/ AnnouncementFails(j)
      <4>1. status[j] = "running"
        BY <3>3 DEF WorkerFails, Announced, AnnouncementFails, StatusInv
      <4>2. PICK to \in {"failed", "succeeded"} : status' = [status EXCEPT ![j] = to]
        BY <3>3 DEF WorkerFails, Announced, AnnouncementFails
      <4> QED BY <2>0, <4>1, <4>2, MovePromise
    <3>4. CASE Interrupted(j)
      <4>1. caller[j] # "idle"
        BY <3>4 DEF Interrupted, StatusInv
      <4> QED BY <2>0, <3>4, <4>1, CallOffPromise DEF Interrupted
    <3> QED BY <2>2, <3>1, <3>2, <3>3, <3>4 DEF Executing
  <2>3. ASSUME NEW c \in Cancellers, NEW j \in Jobs, Cancel(c, j) PROVE PromiseStep
    <3>1. caller[j] # "idle"
      BY <2>3 DEF Cancel, StatusInv
    <3> QED BY <2>0, <2>3, <3>1, CallOffPromise DEF Cancel
  <2>4. CASE status' = status
    BY <2>0, <2>4 DEF PromiseStep
  <2> QED BY <1>1, StepCases, <2>1, <2>2, <2>3, <2>4
          DEF Observing, CallerWaits, WaitReturns, AbortWait, CallerEnds,
              Speaking, TakeVoice, BeginPlayback, OrphanEnds, CancelReturns, vars
<1>2. ASSUME NEW c \in Closers, Closing(c) PROVE PromiseStep
  <2>0. Sealed => Sealed'
    BY SealedKept
  <2>1. ASSUME Submissions = {}, ActiveTasks = {}, status' = status, Sealed' PROVE PromiseStep
    <3>1. Promise!Seal
      BY <2>1, NothingUnfinished DEF Promise!Seal, Sealed
    <3> QED BY <3>1 DEF PromiseStep, Promise!Next
  <2>2. ASSUME \A d \in Closers \ {c} : closer'[d] = closer[d], closer'[c] # "done"
        PROVE  Sealed' = Sealed
    BY <2>0, <2>2 DEF Sealed
  <2>3. ASSUME CollectTasks(c), Submissions = {} PROVE PromiseStep
    <3>1. CASE ActiveTasks = {}
      <4>1. status' = status
        BY <2>3, <3>1 DEF CollectTasks, MarkedCancelled, TypeOK
      <4>2. Sealed'
        BY <2>3, <3>1 DEF CollectTasks, Sealed, TypeOK
      <4> QED BY <2>1, <2>3, <3>1, <4>1, <4>2
    <3>2. CASE ActiveTasks # {}
      <4> DEFINE S == IF c \in CancelPending THEN ActiveTasks ELSE {}
      <4>1. Sealed' = Sealed
        BY <2>2, <2>3, <3>2 DEF CollectTasks, TypeOK
      <4>2. status' = MarkedCancelled(S)
        BY <2>3 DEF CollectTasks
      <4>3. S \in SUBSET Jobs /\ \A j \in S : caller[j] # "idle"
        BY DEF ActiveTasks, Active, StatusInv
      <4> HIDE DEF S
      <4> QED BY <4>1, <4>2, <4>3, CallOffPromise
    <3> QED BY <3>1, <3>2
  <2>4. CASE Close(c)
    <3>1. CASE Submissions = {}
      BY <2>3, <2>4, <3>1 DEF Close
    <3>2. CASE Submissions # {}
      <4>1. Sealed' = Sealed /\ status' = status
        BY <2>2, <2>4, <3>2 DEF Close, TypeOK
      <4> QED BY <4>1 DEF PromiseStep
    <3> QED BY <3>1, <3>2
  <2>5. CASE SubmissionsGathered(c)
    <3>1. Submissions = {}
      BY <2>5 DEF SubmissionsGathered, CloseInv, Submissions
    <3> QED BY <2>3, <2>5, <3>1 DEF SubmissionsGathered
  <2>6. CASE CloseReturns(c)
    <3>1. Submissions = {} /\ ActiveTasks = {}
      BY <2>6 DEF CloseReturns, CloseInv, ActiveTasks, Active, Over
    <3>2. status' = status /\ Sealed'
      BY <2>6 DEF CloseReturns, Sealed, TypeOK
    <3> QED BY <2>1, <3>1, <3>2
  <2>7. ~AbortCloseSubmissions(c) /\ ~AbortCloseTasks(c)
    BY DEF AbortCloseSubmissions, AbortCloseTasks, Sheltered
  <2> QED BY <1>2, <2>4, <2>5, <2>6, <2>7 DEF Closing
<1> QED BY <1>1, <1>2

\* The coordinator is a JobLifecycle: each job walks once through JobStatus and
\* stops in a terminal status, and once a close() has returned there is no
\* unfinished job and no new one.
THEOREM LifecycleKept ==
  ASSUME Sheltered
  PROVE  Spec => LifecycleSpec
<1>1. Init => EndInv /\ Promise!Init
  BY DEF Init, EndInv, Over, Promise!Init
<1>2. JobInv /\ EndInv /\ [Next]_vars => EndInv'
  BY EndStep
<1>3. JobInv /\ CloseInv /\ EndInv /\ [Next]_vars
        => [Promise!Next]_<<status, \E c \in Closers : closer[c] = "done">>
  BY PromiseKept DEF PromiseStep, Sealed
<1> QED BY <1>1, <1>2, <1>3, JobInvariant, CloseInvariant, PTL
        DEF Spec, LifecycleSpec, Promise!Spec

=============================================================================
