----------------------------- MODULE ConsoleRuns ------------------------------
(***************************************************************************)
(* The console: scripts/version-history-server.mjs, the processes it       *)
(* starts, and the page that asks it.  A request is matched by a helper    *)
(* process of completed_agents.py; it opens the form of the agent that     *)
(* matches, or starts branch_search_demo.py, which plans, searches, and    *)
(* learns in a thread; the form replays an agent by its id.  A run may be  *)
(* stopped: the process gets one SIGINT, which ends an event loop where it *)
(* awaits, and not before its threads.                                     *)
(*                                                                         *)
(* A request stands for all that comes of it: its helper, its run, and the *)
(* skill learned from it.  All distilled skills have one id, so the        *)
(* catalogue lists one of them at a time (Distilling), beside the agent of *)
(* the repository that has another; the search itself is BranchTree,       *)
(* the saving RunbookStore, a replay's steps Executor.                     *)
(***************************************************************************)
EXTENDS FiniteSets, Integers

CONSTANTS
    Requests, \* what users ask of the page, each once
    Bundled,  \* the agent that comes with the repository, under an id of its own
    Captured, \* the one that comes under the id of distilled skills
    Nothing,  \* no skill
    Covers,   \* the pairs of a skill and a request that it matches
    Capacity  \* MAX_CONCURRENT_RUNS

ASSUME CapacityAssumption == Capacity \in Nat \ {0} /\ IsFiniteSet(Requests)
ASSUME SkillsAssumption ==
    /\ Bundled # Nothing /\ Captured # Nothing /\ Bundled # Captured
    /\ {Bundled, Captured, Nothing} \cap Requests = {}

VARIABLES
    page,     \* what the page shows of a request
    seen,     \* the agent that its helper, and then its form, is about
    kind,     \* is its run a fan-out or a replay?
    status,   \* the status of its run
    pc,       \* where the process of the run stands
    thread,   \* the thread that learns for it
    signalled,\* a SIGINT that takes effect at the next await
    saved,    \* has its skill been saved?
    printed,  \* the result lines that the process has written
    shown,    \* the result lines that the server has received
    replayed, \* the agent that a replay has loaded
    store     \* the distilled skill in the catalogue

asking == <<page, seen>>
process == <<pc, thread, signalled, saved, printed, replayed, store>>
server == <<kind, status, shown>>
vars == <<asking, process, server>>

Skills == Requests \cup {Bundled, Captured, Nothing}

\* What the matcher may name, which of two it prefers being a matter of their words, and
\* what is listed under the id of a skill.
Lookup(r) ==
    LET found == {s \in {Bundled, store} : <<s, r>> \in Covers}
    IN  IF found = {} THEN {Nothing} ELSE found
Current(skill) == IF skill = Bundled THEN Bundled ELSE store

Running == {r \in Requests : status[r] = "running"} \* a plausible mistake: stopping is over
Active == {r \in Requests : status[r] \in {"running", "stopping"}}

Exits == {"done", "broken"}
Alive == {r \in Requests : pc[r] \notin Exits \cup {"none", "gone"}}

Init ==
    /\ page = [r \in Requests |-> "idle"] /\ seen = [r \in Requests |-> Nothing]
    /\ kind = [r \in Requests |-> "none"] /\ status = [r \in Requests |-> "none"]
    /\ pc = [r \in Requests |-> "none"] /\ thread = [r \in Requests |-> "none"]
    /\ signalled = [r \in Requests |-> FALSE] /\ saved = [r \in Requests |-> FALSE]
    /\ printed = [r \in Requests |-> 0] /\ shown = [r \in Requests |-> 0]
    /\ replayed = [r \in Requests |-> Nothing]
    /\ store \in {Captured, Nothing}

Shows(r, what) == page' = [page EXCEPT ![r] = what]
Goes(r, place) == pc' = [pc EXCEPT ![r] = place]
-----------------------------------------------------------------------------
(* The routes of the server *)

\* startRun: refused when too many runs are active, where a form stays for another try;
\* otherwise a process, or the error of not having one.
StartRun(r, task) ==
    IF Cardinality(Active) >= Capacity
    THEN /\ Shows(r, IF task = "replay" THEN "form" ELSE "refused")
         /\ UNCHANGED <<server, process, seen>>
    ELSE /\ Shows(r, "started")
         /\ kind' = [kind EXCEPT ![r] = task]
         /\ \/ Goes(r, "booting") /\ status' = [status EXCEPT ![r] = "running"]
            \/ Goes(r, "broken") /\ status' = [status EXCEPT ![r] = "failed"]
         /\ UNCHANGED <<seen, thread, signalled, saved, printed, replayed, store, shown>>

\* POST of a request: the helper is started, and awaited.
Post(r) ==
    /\ page[r] = "idle"
    /\ Shows(r, "matching")
    /\ UNCHANGED <<seen, process, server>>

\* The helper reads the catalogue.
Match(r) ==
    /\ page[r] = "matching"
    /\ \E skill \in Lookup(r) : seen' = [seen EXCEPT ![r] = skill]
    /\ Shows(r, "matched")
    /\ UNCHANGED <<process, server>>

\* Its answer arrives: the form of the agent that matches, or a fan-out at once.
Route(r) ==
    /\ page[r] = "matched"
    /\ IF seen[r] # Nothing THEN Shows(r, "form") /\ UNCHANGED <<seen, process, server>>
       ELSE StartRun(r, "fanout")

\* It fails, or is killed after its ten seconds.
HelperFails(r) ==
    /\ page[r] \in {"matching", "matched"}
    /\ Shows(r, "refused")
    /\ UNCHANGED <<seen, process, server>>

\* The form is confirmed: a POST of the agent's id.
Confirm(r) ==
    /\ page[r] = "form"
    /\ StartRun(r, "replay")

\* POST of cancel.  A process that has not reached its loop, or replays outside it, is
\* ended; one that works between two awaits goes on to the next.
Stop(r) ==
    /\ status[r] = "running"
    /\ status' = [status EXCEPT ![r] = "stopping"]
    /\ CASE pc[r] = "booting" -> Goes(r, "broken") /\ UNCHANGED signalled
         [] pc[r] \in {"exploring", "learning", "measuring", "replaying"}
               -> Goes(r, "draining") /\ UNCHANGED signalled
         [] pc[r] \in {"filing", "reporting"}
               -> signalled' = [signalled EXCEPT ![r] = TRUE] /\ UNCHANGED pc
         [] OTHER -> UNCHANGED <<pc, signalled>>
    /\ UNCHANGED <<asking, thread, saved, printed, replayed, store, kind, shown>>

\* Output arrives, a line at a time.
Hear(r) ==
    /\ shown[r] < printed[r]
    /\ shown' = [shown EXCEPT ![r] = @ + 1]
    /\ UNCHANGED <<asking, process, kind, status>>

\* The process has exited and its output has all been read.
Outcome(r) ==
    IF status[r] = "stopping" THEN "cancelled"
    ELSE IF pc[r] = "done" THEN "succeeded" ELSE "failed"
CloseOnExit(r) == \* a plausible mistake: exit is listened to instead of close
    /\ pc[r] \in Exits
    /\ status' = [status EXCEPT ![r] = Outcome(r)]
    /\ Goes(r, "gone")
    /\ UNCHANGED <<asking, thread, signalled, saved, printed, replayed, store, kind, shown>>
Close(r) ==
    /\ pc[r] \in Exits /\ shown[r] = printed[r]
    /\ status' = [status EXCEPT ![r] = Outcome(r)]
    /\ Goes(r, "gone")
    /\ UNCHANGED <<asking, thread, signalled, saved, printed, replayed, store, kind, shown>>
-----------------------------------------------------------------------------
(* The process of a fan-out *)

\* The stages before anything can be learned.  The plan and the search are awaited; the
\* trajectories are written, and reported on, without an await.
Boot(r) ==
    /\ pc[r] = "booting" /\ kind[r] = "fanout"
    /\ Goes(r, "exploring")
    /\ UNCHANGED <<asking, server, thread, signalled, saved, printed, replayed, store>>

Explore(r) ==
    /\ pc[r] = "exploring"
    /\ Goes(r, "filing")
    /\ UNCHANGED <<asking, server, thread, signalled, saved, printed, replayed, store>>

\* A stage fails, of a fan-out or a replay: the process says so and exits.
Break(r) ==
    /\ pc[r] \in {"booting", "exploring", "filing", "measuring", "replaying"}
    /\ Goes(r, "broken")
    /\ signalled' = [signalled EXCEPT ![r] = FALSE]
    /\ UNCHANGED <<asking, server, thread, saved, printed, replayed, store>>

\* The thread that learns is started, and awaited.  After a SIGINT the await is
\* cancelled at once, which takes the work back only if no thread has begun it.
Learn(r) ==
    /\ pc[r] = "filing"
    /\ IF signalled[r]
       THEN Goes(r, "draining") /\ \E work \in {"none", "saving"} :
                                       thread' = [thread EXCEPT ![r] = work]
       ELSE Goes(r, "learning") /\ thread' = [thread EXCEPT ![r] = "saving"]
    /\ signalled' = [signalled EXCEPT ![r] = FALSE]
    /\ UNCHANGED <<asking, server, saved, printed, replayed, store>>

\* learn_from_trajectories: refused by the distiller, or saved; then the files beside it.
Save(r) ==
    /\ thread[r] = "saving"
    /\ store' = r
    /\ saved' = [saved EXCEPT ![r] = TRUE]
    /\ thread' = [thread EXCEPT ![r] = "writing"]
    /\ UNCHANGED <<asking, server, pc, signalled, printed, replayed>>

ThreadEnds(r) ==
    /\ \/ thread[r] \in {"saving", "writing"} /\ thread' = [thread EXCEPT ![r] = "failed"]
       \/ thread[r] = "writing" /\ thread' = [thread EXCEPT ![r] = "done"]
    /\ UNCHANGED <<asking, server, pc, signalled, saved, printed, replayed, store>>

\* PARENT_LEARNED is printed, and the spending asked for.
Learned(r) ==
    /\ pc[r] = "learning"
    /\ \/ thread[r] = "done" /\ Goes(r, "measuring") /\ printed' = [printed EXCEPT ![r] = 1]
       \/ thread[r] = "failed" /\ Goes(r, "broken") /\ UNCHANGED printed
    /\ thread' = [thread EXCEPT ![r] = "none"]
    /\ UNCHANGED <<asking, server, signalled, saved, replayed, store>>

\* RUN_METRICS is printed; no await follows.
Measured(r) ==
    /\ pc[r] = "measuring"
    /\ Goes(r, "reporting")
    /\ printed' = [printed EXCEPT ![r] = 2]
    /\ UNCHANGED <<asking, server, thread, signalled, saved, replayed, store>>

\* A SIGINT after the last await has no effect, or is too late for anything but the
\* interpreter's own end.
Exit(r) ==
    /\ pc[r] = "reporting"
    /\ Goes(r, "done") \/ (signalled[r] /\ Goes(r, "broken"))
    /\ signalled' = [signalled EXCEPT ![r] = FALSE]
    /\ UNCHANGED <<asking, server, thread, saved, printed, replayed, store>>

\* The loop was interrupted: it clears up, and joins its threads.
DrainAtOnce(r) == \* a plausible mistake: the threads are not waited for
    /\ pc[r] = "draining"
    /\ Goes(r, "broken")
    /\ UNCHANGED <<asking, server, thread, signalled, saved, printed, replayed, store>>
DrainResult(r) == \* a plausible mistake: it waits for the result of the thread
    /\ pc[r] = "draining"
    /\ thread[r] \in {"none", "done"}
    /\ Goes(r, "broken")
    /\ thread' = [thread EXCEPT ![r] = "none"]
    /\ UNCHANGED <<asking, server, signalled, saved, printed, replayed, store>>
Drain(r) ==
    /\ pc[r] = "draining"
    /\ thread[r] \notin {"saving", "writing"}
    /\ Goes(r, "broken")
    /\ thread' = [thread EXCEPT ![r] = "none"]
    /\ UNCHANGED <<asking, server, signalled, saved, printed, replayed, store>>
-----------------------------------------------------------------------------
(* The process of a replay *)

\* The agent is looked up by its id.
Load(r) ==
    /\ pc[r] = "booting" /\ kind[r] = "replay"
    /\ replayed' = [replayed EXCEPT ![r] = Current(seen[r])]
    /\ Goes(r, IF Current(seen[r]) = Nothing THEN "broken" ELSE "replaying")
    /\ UNCHANGED <<asking, server, thread, signalled, saved, printed, store>>

\* AGENT_REPLAY is printed; the exit says whether the replay succeeded.
Replay(r) ==
    /\ pc[r] = "replaying"
    /\ printed' = [printed EXCEPT ![r] = 1]
    /\ \E exit \in Exits : Goes(r, exit)
    /\ UNCHANGED <<asking, server, thread, signalled, saved, replayed, store>>

Serving(r) ==
    \/ Post(r) \/ Match(r) \/ Route(r) \/ HelperFails(r) \/ Confirm(r)
    \/ Stop(r) \/ Hear(r) \/ Close(r)
FanningOut(r) ==
    \/ Boot(r) \/ Explore(r) \/ Break(r) \/ Learn(r) \/ Save(r) \/ ThreadEnds(r)
    \/ Learned(r) \/ Measured(r) \/ Exit(r) \/ Drain(r)
Replaying(r) == Load(r) \/ Replay(r)
Next == \E r \in Requests : Serving(r) \/ FanningOut(r) \/ Replaying(r)

Spec == Init /\ [][Next]_vars

\* As long as a timer, the output, the process or its thread can go on, one of them does:
\* the calls of the plan, the search, the store and the spending are all bounded.  A
\* helper need not ever answer; users need not do anything.
GoesOn(r) ==
    \/ HelperFails(r) \/ Hear(r) \/ Close(r) \/ Save(r) \/ ThreadEnds(r)
    \/ Boot(r) \/ Explore(r) \/ Learn(r) \/ Learned(r) \/ Measured(r) \/ Exit(r) \/ Drain(r)
    \/ Load(r) \/ Replay(r)
Fairness == \A r \in Requests : WF_vars(GoesOn(r))
FairSpec == Spec /\ Fairness

-----------------------------------------------------------------------------
(* Properties *)

Finals == {"succeeded", "failed", "cancelled"}
Unfinished(r) == status[r] \in {"running", "stopping"}

\* The variables keep their types.
TypeOK ==
    /\ page \in [Requests -> {"idle", "matching", "matched", "form", "started", "refused"}]
    /\ seen \in [Requests -> Skills] /\ replayed \in [Requests -> Skills]
    /\ kind \in [Requests -> {"none", "fanout", "replay"}]
    /\ status \in [Requests -> {"none", "running", "stopping"} \cup Finals]
    /\ pc \in [Requests -> {"none", "booting", "exploring", "filing", "learning", "measuring",
                            "reporting", "draining", "replaying", "gone"} \cup Exits]
    /\ thread \in [Requests -> {"none", "saving", "writing", "done", "failed"}]
    /\ signalled \in [Requests -> BOOLEAN] /\ saved \in [Requests -> BOOLEAN]
    /\ printed \in [Requests -> 0..2] /\ shown \in [Requests -> 0..2]
    /\ store \in Skills

\* No more processes work for the console than it has capacity for, whatever is asked
\* and stopped while other requests wait for their helpers (README.md: "Up to four
\* top-level workflows can run concurrently").
CapacityKept == Cardinality(Alive) <= Capacity

\* What the console calls succeeded has succeeded to the end, and all of it is shown: a
\* fan-out has saved its skill and the page has it and its metrics, and a replay has
\* replayed an agent, with its result.
SucceededIsShown == \A r \in Requests : status[r] = "succeeded" =>
    \/ kind[r] = "fanout" /\ saved[r] /\ shown[r] = 2
    \/ kind[r] = "replay" /\ replayed[r] # Nothing /\ shown[r] = 1

\* A run that the console calls over, stopped or not, has nothing left that learns: the
\* catalogue changes only by runs that are still shown as active.
OverLearnsNothing == [][\A r \in Requests : saved'[r] # saved[r] => Unfinished(r)]_vars

\* Every request that is posted, and every run that is started, comes to an end, and its
\* place is free again: though its helper hangs, and at whatever stage it is stopped.
EveryRequestEnds == \A r \in Requests :
    page[r] = "matching" \/ Unfinished(r)
        ~> page[r] \in {"form", "refused"} \/ status[r] \in Finals

\* Not kept (README, section 6).  The form of a matching agent "replays that saved
\* runbook" (README.md): what the user was shown and confirmed is what is carried out.
ConfirmedIsReplayed == \A r \in Requests : replayed[r] \in {seen[r], Nothing}
=============================================================================
