------------------------------ MODULE ColdTasks ------------------------------
(***************************************************************************)
(* The cold-task coordinator: background jobs that outlive a voice turn.   *)
(*                                                                         *)
(* Every coroutine runs on one asyncio event loop, so the code between two *)
(* awaits is one atomic action here, and a task.cancel() is a request that *)
(* is delivered as CancelledError when the task is next resumed.  Four     *)
(* kinds of task interleave:                                               *)
(*   - the caller of submit_no_match, one per job, which may go on to      *)
(*     wait() for its job before it ends;                                  *)
(*   - the job's own background task, running _execute;                    *)
(*   - the callers of cancel();                                            *)
(*   - the callers of close().                                             *)
(* Notifications go through SynthesizedVoiceNotifier: one voice lock, and  *)
(* playback in a thread that a cancelled coroutine cannot stop.            *)
(***************************************************************************)
EXTENDS FiniteSets

CONSTANTS
  Jobs,             \* job ids; each is submitted at most once (uuid4)
  Cancellers,       \* tasks that each call cancel() once
  Closers,          \* tasks that each call close() once
  CancelPending,    \* the closers that pass cancel_pending=True
  AbortableClosers, \* the closers whose own task may be cancelled in close()
  EarlyCancel,      \* may cancel() name a job whose acknowledgement is being
                    \* spoken?  Its id is in list_jobs() and with the notifier.
  CallersWait,      \* may a caller await wait(job) after submit_no_match?
  TemplateMayRaise  \* may completion_template.format raise on an answer?  The
                    \* constructor only checks that {result} occurs in it.

ASSUME ColdTasksAssumption ==
  /\ CancelPending \subseteq Closers
  /\ AbortableClosers \subseteq Closers
  /\ EarlyCancel \in BOOLEAN
  /\ CallersWait \in BOOLEAN
  /\ TemplateMayRaise \in BOOLEAN
  /\ "idle" \notin Jobs /\ "done" \notin Jobs

VARIABLES
  status,    \* _jobs[j].status, "absent" before the job exists
  result,    \* does _jobs[j].result hold the worker's answer?
  task,      \* the background task: where _execute stands
  kill,      \* task.cancel() was called and CancelledError is not yet raised
  caller,    \* where the task that submitted j stands
  speech,    \* j's notification in progress
  orphans,   \* playback threads whose notification was cancelled
  heard,     \* history: the notifications played to their end
  canceller, \* "idle", "done" or the job whose end cancel() awaits
  closer,    \* where each close() call stands
  awaited,   \* what each close() call gathers: callers, then tasks
  closed     \* _closed

vars == <<status, result, task, kill, caller, speech, orphans, heard,
          canceller, closer, awaited, closed>>

Statuses  == {"absent", "pending", "running", "succeeded", "failed", "cancelled"}
TerminalStatuses == {"succeeded", "failed", "cancelled"}
Kinds     == {"acknowledgement", "result"}

Terminal(j) == status[j] \in TerminalStatuses

\* "created": scheduled, first step not yet run; "killed": cancelled before it;
\* "broken": an exception left _execute.
Active(j) == task[j] \in {"created", "working", "telling"}

Over(j) == task[j] \in {"done", "killed", "broken"}
ActiveTasks == {j \in Jobs : Active(j)}

\* Fault: close() does not know of the submissions in flight.
SubmissionsUntracked == {}

Submissions == {j \in Jobs : caller[j] = "acking"}

\* A job's notification is its acknowledgement until its task exists.
Kind(j) == IF task[j] = "none" THEN "acknowledgement" ELSE "result"

HoldsVoice(j) == speech[j] \in {"synthesizing", "playing"}

\* Fault: the cancellation is not recorded.
MarkedNowhere(S) == status

\* _mark_cancelled on every job of S: a terminal job keeps its status.
MarkedCancelled(S) ==
  [j \in Jobs |-> IF j \in S /\ ~Terminal(j) THEN "cancelled" ELSE status[j]]

\* Fault: the job is recorded as cancelled, its task is not.
RequestedNowhere(S) == kill

\* task.cancel() on the task of every job of S: a no-op on one that is over.
Requested(S) == [j \in Jobs |-> kill[j] \/ (j \in S /\ Active(j))]

Init ==
  /\ status    = [j \in Jobs |-> "absent"]
  /\ result    = [j \in Jobs |-> FALSE]
  /\ task      = [j \in Jobs |-> "none"]
  /\ kill      = [j \in Jobs |-> FALSE]
  /\ caller    = [j \in Jobs |-> "idle"]
  /\ speech    = [j \in Jobs |-> "silent"]
  /\ orphans   = {}
  /\ heard     = {}
  /\ canceller = [c \in Cancellers |-> "idle"]
  /\ closer    = [c \in Closers |-> "idle"]
  /\ awaited   = [c \in Closers |-> {}]
  /\ closed    = FALSE

-----------------------------------------------------------------------------
\* submit_no_match: the caller's side

\* Fault: submissions are accepted for ever.
AlwaysOpen == TRUE

Open == ~closed

\* A new job, up to the await of the acknowledgement.  On a closed coordinator
\* the call raises and nothing changes.
Submit(j) ==
  /\ caller[j] = "idle"
  /\ Open
  /\ caller' = [caller EXCEPT ![j] = "acking"]
  /\ status' = [status EXCEPT ![j] = "pending"]
  /\ speech' = [speech EXCEPT ![j] = "queued"]
  /\ UNCHANGED <<result, task, kill, orphans, heard, canceller, closer, awaited, closed>>

\* The acknowledgement was spoken: the background task is created, whatever the
\* status has become meanwhile, and the call returns.
Acknowledged(j) ==
  /\ caller[j] = "acking"
  /\ speech[j] = "playing"
  /\ heard'  = heard \union {<<j, "acknowledgement">>}
  /\ speech' = [speech EXCEPT ![j] = "silent"]
  /\ task'   = [task EXCEPT ![j] = "created"]
  /\ caller' = [caller EXCEPT ![j] = "free"]
  /\ UNCHANGED <<status, result, kill, orphans, canceller, closer, awaited, closed>>

\* Synthesis or playback raised: the snapshot taken before the await is written
\* back as FAILED and NotificationError goes to the caller.
AcknowledgementFails(j) ==
  /\ caller[j] = "acking"
  /\ HoldsVoice(j)
  /\ status' = [status EXCEPT ![j] = "failed"]
  /\ speech' = [speech EXCEPT ![j] = "silent"]
  /\ caller' = [caller EXCEPT ![j] = "free"]
  /\ UNCHANGED <<result, task, kill, orphans, heard, canceller, closer, awaited, closed>>

\* What a cancelled notification leaves: a playback thread already started
\* plays on; a coroutine that waits for the lock or for synthesis just stops.
Orphaned(S) == {<<j, Kind(j)>> : j \in {i \in S : speech[i] = "playing"}}

\* The caller's own task is cancelled while the acknowledgement is spoken.
AbortSubmit(j) ==
  /\ caller[j] = "acking"
  /\ status'  = MarkedCancelled({j})
  /\ orphans' = orphans \union Orphaned({j})
  /\ speech'  = [speech EXCEPT ![j] = "silent"]
  /\ caller'  = [caller EXCEPT ![j] = "ended"]
  /\ UNCHANGED <<result, task, kill, heard, canceller, closer, awaited, closed>>

\* wait(j): suspends only when the task exists and the status is not terminal.
CallerWaits(j) ==
  /\ CallersWait
  /\ caller[j] = "free"
  /\ task[j] # "none" /\ ~Terminal(j)
  /\ caller' = [caller EXCEPT ![j] = "waiting"]
  /\ UNCHANGED <<status, result, task, kill, speech, orphans, heard,
                 canceller, closer, awaited, closed>>

\* The shielded task is over.  One that was cancelled before its first step, or
\* broke, raises in the waiting caller, which ends of it; otherwise wait()
\* returns the job's snapshot.
WaitReturns(j) ==
  /\ caller[j] = "waiting"
  /\ Over(j)
  /\ caller' = [caller EXCEPT ![j] = IF task[j] = "done" THEN "free" ELSE "ended"]
  /\ UNCHANGED <<status, result, task, kill, speech, orphans, heard,
                 canceller, closer, awaited, closed>>

CallerEnds(j) ==
  /\ caller[j] = "free"
  /\ caller' = [caller EXCEPT ![j] = "ended"]
  /\ UNCHANGED <<status, result, task, kill, speech, orphans, heard,
                 canceller, closer, awaited, closed>>

\* The observing caller is cancelled: the shield keeps the task out of it.
AbortWait(j) ==
  /\ caller[j] = "waiting"
  /\ caller' = [caller EXCEPT ![j] = "ended"]
  /\ UNCHANGED <<status, result, task, kill, speech, orphans, heard,
                 canceller, closer, awaited, closed>>

-----------------------------------------------------------------------------
\* _execute: the background task

\* First step: RUNNING, whatever the status was, up to the await of the worker.
Start(j) ==
  /\ task[j] = "created"
  /\ ~kill[j]
  /\ status' = [status EXCEPT ![j] = "running"]
  /\ task'   = [task EXCEPT ![j] = "working"]
  /\ UNCHANGED <<result, kill, caller, speech, orphans, heard, canceller, closer, awaited, closed>>

\* Cancelled before its first step: the coroutine body never runs.
NeverStarts(j) ==
  /\ task[j] = "created"
  /\ kill[j]
  /\ task' = [task EXCEPT ![j] = "killed"]
  /\ UNCHANGED <<status, result, kill, caller, speech, orphans, heard,
                 canceller, closer, awaited, closed>>

\* The worker's answer is stored and its announcement begun.
WorkerSucceeds(j) ==
  /\ task[j] = "working"
  /\ ~kill[j]
  /\ result' = [result EXCEPT ![j] = TRUE]
  /\ task'   = [task EXCEPT ![j] = "telling"]
  /\ speech' = [speech EXCEPT ![j] = "queued"]
  /\ UNCHANGED <<status, kill, caller, orphans, heard, canceller, closer, awaited, closed>>

\* The answer is stored and the template raises, outside both try blocks: the
\* task dies of it.
AnnouncementUnformed(j) ==
  /\ task[j] = "working"
  /\ ~kill[j]
  /\ TemplateMayRaise
  /\ result' = [result EXCEPT ![j] = TRUE]
  /\ task'   = [task EXCEPT ![j] = "broken"]
  /\ UNCHANGED <<status, kill, caller, speech, orphans, heard, canceller, closer, awaited, closed>>

\* The worker raised, or answered with nothing but blanks.
WorkerFails(j) ==
  /\ task[j] = "working"
  /\ ~kill[j]
  /\ status' = [status EXCEPT ![j] = "failed"]
  /\ task'   = [task EXCEPT ![j] = "done"]
  /\ UNCHANGED <<result, kill, caller, speech, orphans, heard, canceller, closer, awaited, closed>>

\* The announcement was played: only now has the job succeeded.
Announced(j) ==
  /\ task[j] = "telling"
  /\ speech[j] = "playing"
  /\ ~kill[j]
  /\ heard'  = heard \union {<<j, "result">>}
  /\ speech' = [speech EXCEPT ![j] = "silent"]
  /\ status' = [status EXCEPT ![j] = "succeeded"]
  /\ task'   = [task EXCEPT ![j] = "done"]
  /\ UNCHANGED <<result, kill, caller, orphans, canceller, closer, awaited, closed>>

\* Fault: a failed announcement falls through to SUCCEEDED.
AnnouncementFailsQuietly(j) ==
  /\ task[j] = "telling"
  /\ HoldsVoice(j)
  /\ ~kill[j]
  /\ speech' = [speech EXCEPT ![j] = "silent"]
  /\ status' = [status EXCEPT ![j] = "succeeded"]
  /\ task'   = [task EXCEPT ![j] = "done"]
  /\ UNCHANGED <<result, kill, caller, orphans, heard, canceller, closer, awaited, closed>>

\* Synthesis or playback raised: FAILED, and the result is kept.
AnnouncementFails(j) ==
  /\ task[j] = "telling"
  /\ HoldsVoice(j)
  /\ ~kill[j]
  /\ speech' = [speech EXCEPT ![j] = "silent"]
  /\ status' = [status EXCEPT ![j] = "failed"]
  /\ task'   = [task EXCEPT ![j] = "done"]
  /\ UNCHANGED <<result, kill, caller, orphans, heard, canceller, closer, awaited, closed>>

\* CancelledError is raised in the worker or in the announcement, which let it
\* through; the voice lock is released and a started playback thread plays on.
Interrupted(j) ==
  /\ task[j] \in {"working", "telling"}
  /\ kill[j]
  /\ status'  = MarkedCancelled({j})
  /\ task'    = [task EXCEPT ![j] = "done"]
  /\ orphans' = orphans \union Orphaned({j})
  /\ speech'  = [speech EXCEPT ![j] = "silent"]
  /\ UNCHANGED <<result, kill, caller, heard, canceller, closer, awaited, closed>>

-----------------------------------------------------------------------------
\* SynthesizedVoiceNotifier

\* Fault: notifications are shielded from the cancellation of their task.
TakesAnyway(j) == TRUE

\* A notification whose task has a cancellation pending goes no further.
Takes(j) == Kind(j) = "result" => ~kill[j]

\* The lock is granted; asyncio.Lock serves its waiters in arrival order, here
\* any waiter may be next.
TakeVoice(j) ==
  /\ speech[j] = "queued"
  /\ Takes(j)
  /\ \A i \in Jobs : ~HoldsVoice(i)
  /\ speech' = [speech EXCEPT ![j] = "synthesizing"]
  /\ UNCHANGED <<status, result, task, kill, caller, orphans, heard,
                 canceller, closer, awaited, closed>>

\* The audio exists: its playback thread is started.
BeginPlayback(j) ==
  /\ speech[j] = "synthesizing"
  /\ Takes(j)
  /\ speech' = [speech EXCEPT ![j] = "playing"]
  /\ UNCHANGED <<status, result, task, kill, caller, orphans, heard,
                 canceller, closer, awaited, closed>>

\* A playback thread nobody awaits any more comes to its end.
OrphanEnds(o) ==
  /\ o \in orphans
  /\ orphans' = orphans \ {o}
  /\ heard'   = heard \union {o}
  /\ UNCHANGED <<status, result, task, kill, caller, speech, canceller, closer, awaited, closed>>

-----------------------------------------------------------------------------
\* cancel and close

\* cancel(j), up to the await of the cancelled task; without a task to await,
\* or on a terminal job, it returns at once.
Cancel(c, j) ==
  /\ canceller[c] = "idle"
  /\ status[j] # "absent"
  /\ EarlyCancel \/ caller[j] # "acking"
  /\ LET awaits == ~Terminal(j) /\ task[j] # "none"
     IN  /\ kill'      = Requested(IF awaits THEN {j} ELSE {})
         /\ canceller' = [canceller EXCEPT ![c] = IF awaits THEN j ELSE "done"]
  /\ status' = MarkedCancelled({j})
  /\ UNCHANGED <<result, task, caller, speech, orphans, heard, closer, awaited, closed>>

CancelReturns(c) ==
  /\ canceller[c] \in Jobs
  /\ Over(canceller[c])
  /\ canceller' = [canceller EXCEPT ![c] = "done"]
  /\ UNCHANGED <<status, result, task, kill, caller, speech, orphans, heard,
                 closer, awaited, closed>>

\* The second half of close(): take the active tasks, cancel and mark each one
\* when cancel_pending is set, and gather them.
CollectTasks(c) ==
  LET cut == IF c \in CancelPending THEN ActiveTasks ELSE {}
  IN  /\ kill'    = Requested(cut)
      /\ status'  = MarkedCancelled(cut)
      /\ awaited' = [awaited EXCEPT ![c] = ActiveTasks]
      /\ closer'  = [closer EXCEPT ![c] = IF ActiveTasks = {} THEN "done" ELSE "tasks"]

\* close(): it returns at once when there is nothing left to close, gathers the
\* submitting callers when there are any, and collects the tasks when not.
Close(c) ==
  /\ closer[c] = "idle"
  /\ closed' = TRUE
  /\ IF Submissions # {}
     THEN /\ closer'  = [closer EXCEPT ![c] = "submissions"]
          /\ awaited' = [awaited EXCEPT ![c] = Submissions]
          /\ UNCHANGED <<status, kill>>
     ELSE CollectTasks(c)
  /\ UNCHANGED <<result, task, caller, speech, orphans, heard, canceller>>

\* Every gathered caller has ended: the whole task, not only its submission.
SubmissionsGathered(c) ==
  /\ closer[c] = "submissions"
  /\ \A j \in awaited[c] : caller[j] = "ended"
  /\ CollectTasks(c)
  /\ UNCHANGED <<result, task, caller, speech, orphans, heard, canceller, closed>>

CloseReturns(c) ==
  /\ closer[c] = "tasks"
  /\ \A j \in awaited[c] : Over(j)
  /\ closer' = [closer EXCEPT ![c] = "done"]
  /\ UNCHANGED <<status, result, task, kill, caller, speech, orphans, heard,
                 canceller, awaited, closed>>

\* close() itself is cancelled while it gathers: asyncio.gather passes the
\* cancellation on to everything it gathers, marking nothing.
AbortCloseSubmissions(c) ==
  /\ c \in AbortableClosers
  /\ closer[c] = "submissions"
  /\ LET cut == awaited[c] \intersect Submissions
     IN  /\ status'  = MarkedCancelled(cut)
         /\ orphans' = orphans \union Orphaned(cut)
         /\ speech'  = [j \in Jobs |-> IF j \in cut THEN "silent" ELSE speech[j]]
  /\ caller' = [j \in Jobs |-> IF j \in awaited[c] THEN "ended" ELSE caller[j]]
  /\ closer' = [closer EXCEPT ![c] = "aborted"]
  /\ UNCHANGED <<result, task, kill, heard, canceller, awaited, closed>>

AbortCloseTasks(c) ==
  /\ c \in AbortableClosers
  /\ closer[c] = "tasks"
  /\ kill'   = Requested(awaited[c])
  /\ closer' = [closer EXCEPT ![c] = "aborted"]
  /\ UNCHANGED <<status, result, task, caller, speech, orphans, heard,
                 canceller, awaited, closed>>

-----------------------------------------------------------------------------
Submitting(j) == Submit(j) \/ Acknowledged(j) \/ AcknowledgementFails(j) \/ AbortSubmit(j)
Observing(j)  == CallerWaits(j) \/ WaitReturns(j) \/ AbortWait(j) \/ CallerEnds(j)
Executing(j)  == \/ Start(j) \/ NeverStarts(j)
                 \/ WorkerSucceeds(j) \/ WorkerFails(j) \/ AnnouncementUnformed(j)
                 \/ Announced(j) \/ AnnouncementFails(j) \/ Interrupted(j)
Speaking(j)   == TakeVoice(j) \/ BeginPlayback(j)
Closing(c)    == \/ Close(c) \/ SubmissionsGathered(c) \/ CloseReturns(c)
                 \/ AbortCloseSubmissions(c) \/ AbortCloseTasks(c)

Next ==
  \/ \E j \in Jobs : Submitting(j) \/ Observing(j) \/ Executing(j) \/ Speaking(j)
  \/ \E o \in orphans : OrphanEnds(o)
  \/ \E c \in Cancellers : CancelReturns(c) \/ \E j \in Jobs : Cancel(c, j)
  \/ \E c \in Closers : Closing(c)

Spec == Init /\ [][Next]_vars

\* The event loop resumes every task that can be resumed, playback comes to its
\* end, and a caller that is not waiting eventually returns.  Callers are not
\* made to submit, cancel or close.
LoopFairness ==
  /\ \A j \in Jobs :
       /\ WF_vars(Acknowledged(j) \/ AcknowledgementFails(j))
       /\ WF_vars(TakeVoice(j)) /\ WF_vars(BeginPlayback(j))
       /\ WF_vars(Start(j) \/ NeverStarts(j)) /\ WF_vars(Interrupted(j))
       /\ WF_vars(Announced(j) \/ AnnouncementFails(j))
       /\ WF_vars(WaitReturns(j)) /\ WF_vars(CallerEnds(j))
  /\ \A o \in Jobs \X Kinds : WF_vars(OrphanEnds(o))
  /\ \A c \in Cancellers : WF_vars(CancelReturns(c))
  /\ \A c \in Closers : WF_vars(SubmissionsGathered(c) \/ CloseReturns(c))

\* A worker may hang for ever: an agent in a box that never answers.
LoopSpec == Spec /\ LoopFairness

-----------------------------------------------------------------------------
\* Properties

\* Every variable has the type its attribute has in the coordinator.
TypeOK ==
  /\ status    \in [Jobs -> Statuses]
  /\ result    \in [Jobs -> BOOLEAN]
  /\ task      \in [Jobs -> {"none", "created", "working", "telling", "done", "killed", "broken"}]
  /\ kill      \in [Jobs -> BOOLEAN]
  /\ caller    \in [Jobs -> {"idle", "acking", "free", "waiting", "ended"}]
  /\ speech    \in [Jobs -> {"silent", "queued", "synthesizing", "playing"}]
  /\ orphans   \subseteq Jobs \X Kinds
  /\ heard     \subseteq Jobs \X Kinds
  /\ canceller \in [Cancellers -> Jobs \union {"idle", "done"}]
  /\ closer    \in [Closers -> {"idle", "submissions", "tasks", "done", "aborted"}]
  /\ awaited   \in [Closers -> SUBSET Jobs]
  /\ closed    \in BOOLEAN

\* Once some close() has returned, no submission is in flight and no background
\* task is active: a job whose acknowledgement was being spoken when close()
\* was called cannot escape it (the comment in submit_no_match).
CloseLeavesNothing ==
  \A c \in Closers : closer[c] = "done" => ActiveTasks = {} /\ Submissions = {}

\* A job is SUCCEEDED only when its acknowledgement and its result were both
\* played to the user and its result is kept for get().
SucceededWasHeard ==
  \A j \in Jobs : status[j] = "succeeded" => result[j] /\ {j} \X Kinds \subseteq heard

\* Not kept (README, section 6).  At most one audio plays at a time: the voice
\* lock keeps synthesis and playback of concurrent notifications from
\* interleaving.
Audible == {<<j, Kind(j)>> : j \in {i \in Jobs : speech[i] = "playing"}} \union orphans
NoOverlappingAudio == \A a, b \in Audible : a = b

\* Not kept (README, section 6).  A terminal status is final.
TerminalIsFinal ==
  [][\A j \in Jobs : Terminal(j) => status'[j] = status[j]]_vars

\* A terminal status is lost in one way only: the job was cancelled before its
\* task existed, and then its acknowledgement fails or its task starts, no
\* cancellation having reached that task.
TerminalLostOnlyByEarlyCancel ==
  [][\A j \in Jobs : Terminal(j) /\ status'[j] # status[j] =>
       /\ EarlyCancel
       /\ status[j] = "cancelled"
       /\ \/ caller[j] = "acking" /\ status'[j] = "failed"
          \/ task[j] = "created" /\ status'[j] = "running" /\ ~kill[j]]_vars

\* While a job is cancelled no playback of its result begins: the user never
\* hears the answer of a task after it was called off.
CancelledIsNotAnnounced ==
  [][\A j \in Jobs : status[j] = "cancelled" /\ task[j] # "none" /\ speech'[j] = "playing"
       => speech[j] = "playing"]_vars

\* What the tasks outside the coordinator may owe it: every worker answers or
\* raises; no caller sits in wait() for ever.
WorkersEnd    == \A j \in Jobs : []<>(task[j] # "working")
CallersReturn == \A j \in Jobs : []<>(caller[j] # "waiting")

\* Every job that was submitted ends, provided the workers do: no interleaving
\* of acknowledgements, announcements, cancel() and close() strands it.
EveryJobEnds == WorkersEnd => \A j \in Jobs : status[j] = "pending" ~> Terminal(j)

\* Every close() returns when the workers end.  One with cancel_pending does so
\* although they hang, but only if no caller goes on to wait() for one of them:
\* it gathers the callers' whole tasks before it cancels a job.
EveryCloseReturns ==
  \A c \in Closers :
    WorkersEnd \/ (c \in CancelPending /\ CallersReturn)
      => closer[c] \in {"submissions", "tasks"} ~> closer[c] = "done"

\* What the coordinator promises its callers, as JobLifecycle states it.  The
\* coordinator is sealed once a close() has returned.
Promise == INSTANCE JobLifecycle WITH sealed <- \E c \in Closers : closer[c] = "done"
LifecycleSpec == Promise!Spec
=============================================================================
