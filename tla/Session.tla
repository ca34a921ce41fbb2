-------------------------------- MODULE Session --------------------------------
(***************************************************************************)
(* The always-on assistant, src/runbook_voice/assistant.py, with its       *)
(* slot-filling dialogue, dialogue.py: processes that share one store of   *)
(* skills.  Within a process one event loop runs the conversation and the  *)
(* learning jobs in turns; a turn ends only where the code awaits          *)
(* something that is not there yet: a line of input, or a provider step.   *)
(*                                                                         *)
(* A skill is named by the request it was learned from: every distilled    *)
(* skill has the same identity, so a store holds one of them at a time.    *)
(* Saving and looking up are atomic, as RunbookStore shows; a job's life   *)
(* is the coordinator's, ColdTasks, and its learning that of Learning.     *)
(***************************************************************************)
EXTENDS Integers

CONSTANTS
    Sessions,   \* the assistant processes
    Utterances, \* what the user may ask for
    Nothing,    \* no skill
    Covers,     \* the pairs of a skill and a request that it matches
    Questions,  \* the required slots of a skill
    MaxAttempts,\* how often a slot is asked for
    Jobs        \* bound: the cold tasks that one process may get

ASSUME SessionsAssumption == Sessions # {}
ASSUME SkillsAssumption == Nothing \notin Utterances /\ Covers \subseteq Utterances \X Utterances
ASSUME QuestionsAssumption == Questions \in Nat \ {0} /\ MaxAttempts \in Nat \ {0}

VARIABLES
    pc,        \* where the conversation of each process stands
    asked,     \* the request that it is about to look up again
    announced, \* the skill that it said it knows
    using,     \* the runbook that its dialogue then loaded
    left,      \* the slots that are still to be asked for
    tries,     \* the replies to the present question that could not be used
    reading,   \* is a thread blocked in input() that nobody awaits any more?
    status,    \* the JobStatus of each of its cold tasks
    request,   \* what each of them is to learn
    store,     \* the skill in the store
    touched    \* history: did another process change the store since it looked?

conversation == <<asked, announced, using, left, tries>>
tasks == <<status, request>>
vars == <<pc, conversation, reading, tasks, store, touched>>

Skills == Utterances \cup {Nothing}
Lookup(u) == IF <<store, u>> \in Covers THEN store ELSE Nothing

\* Where the conversation awaits something, and the loop may run a job instead; a
\* Ctrl-C arrives as a cancellation of that await.  Between the session's lookup and
\* the dialogue's there is no such place.
Typing == {"prompt", "asking", "gate"}
SuspendedAnywhere == Typing \cup {"announced", "finding", "booking", "closing"}
    \* a plausible mistake: the announcement is awaited
SuspendedWhileOpen == Typing \cup {"finding", "booking"}
    \* a plausible mistake: close() blocks the loop instead of awaiting the jobs
Suspended == Typing \cup {"finding", "booking", "closing"}

Yielded(s) == pc[s] \in Suspended

Over(s, j) == status[s][j] \in {"absent", "succeeded", "failed", "cancelled"}

Init ==
    /\ pc = [s \in Sessions |-> "starting"]
    /\ asked = [s \in Sessions |-> Nothing]
    /\ announced = [s \in Sessions |-> Nothing] /\ using = [s \in Sessions |-> Nothing]
    /\ left = [s \in Sessions |-> 0] /\ tries = [s \in Sessions |-> 0]
    /\ reading = [s \in Sessions |-> FALSE]
    /\ status = [s \in Sessions |-> [j \in Jobs |-> "absent"]]
    /\ request = [s \in Sessions |-> [j \in Jobs |-> Nothing]]
    /\ store \in Skills
    /\ touched = [s \in Sessions |-> FALSE]

\* A change of the store by s is a surprise to the others.
Written(s, skill) ==
    /\ store' = skill
    /\ touched' = [q \in Sessions |-> touched[q] \/ q # s]
-----------------------------------------------------------------------------
(* The conversation *)

\* With --fresh every learned skill is forgotten first.
Start(s) ==
    /\ pc[s] = "starting"
    /\ \/ Written(s, Nothing)
       \/ UNCHANGED <<store, touched>>
    /\ pc' = [pc EXCEPT ![s] = "prompt"]
    /\ UNCHANGED <<conversation, reading, tasks>>

\* A request that nothing matches becomes a cold task; it is acknowledged in the same
\* turn, and the prompt is back.
Miss(s, u) ==
    /\ pc[s] = "prompt"
    /\ Lookup(u) = Nothing
    /\ \E j \in Jobs :
          /\ status[s][j] = "absent"
          /\ status' = [status EXCEPT ![s][j] = "pending"]
          /\ request' = [request EXCEPT ![s][j] = u]
    /\ announced' = [announced EXCEPT ![s] = Nothing]
    /\ using' = [using EXCEPT ![s] = Nothing]
    /\ UNCHANGED <<pc, asked, left, tries, reading, store, touched>>

\* A request that a skill matches: the session says so, and calls the dialogue.
Hit(s, u) ==
    /\ pc[s] = "prompt"
    /\ Lookup(u) # Nothing
    /\ announced' = [announced EXCEPT ![s] = Lookup(u)]
    /\ asked' = [asked EXCEPT ![s] = u]
    /\ touched' = [touched EXCEPT ![s] = FALSE]
    /\ pc' = [pc EXCEPT ![s] = "announced"]
    /\ UNCHANGED <<using, left, tries, reading, tasks, store>>

\* The dialogue looks the request up again.  When nothing matches any more it says that
\* it does not know how, and the request is not learned either.
Reload(s) ==
    /\ pc[s] = "announced"
    /\ LET skill == Lookup(asked[s])
       IN  /\ using' = [using EXCEPT ![s] = skill]
           /\ pc' = [pc EXCEPT ![s] = IF skill = Nothing THEN "prompt" ELSE "asking"]
           /\ left' = [left EXCEPT ![s] = IF skill = Nothing THEN 0 ELSE Questions]
    /\ asked' = [asked EXCEPT ![s] = Nothing]
    /\ tries' = [tries EXCEPT ![s] = 0]
    /\ UNCHANGED <<announced, reading, tasks, store, touched>>

\* A reply that fills the slot: the next question, or the replay.
Fill(s) ==
    /\ pc[s] = "asking"
    /\ left' = [left EXCEPT ![s] = @ - 1]
    /\ tries' = [tries EXCEPT ![s] = 0]
    /\ pc' = [pc EXCEPT ![s] = IF left[s] = 1 THEN "finding" ELSE "asking"]
    /\ UNCHANGED <<asked, announced, using, reading, tasks, store, touched>>

\* A reply that cannot be used: "I didn't catch that", and after the last attempt the
\* dialogue fails.
Mishear(s) ==
    /\ pc[s] = "asking"
    /\ tries' = [tries EXCEPT ![s] = @ + 1]
    /\ pc' = [pc EXCEPT ![s] = IF tries[s] + 1 = MaxAttempts THEN "prompt" ELSE "asking"]
    /\ UNCHANGED <<asked, announced, using, left, reading, tasks, store, touched>>
-----------------------------------------------------------------------------
(* The replay: what the executor does in between is in Executor *)

Find(s) ==
    /\ pc[s] = "finding"
    /\ \E next \in {"gate", "prompt"} : pc' = [pc EXCEPT ![s] = next]
    /\ UNCHANGED <<conversation, reading, tasks, store, touched>>

Confirm(s) ==
    /\ pc[s] = "gate"
    /\ pc' = [pc EXCEPT ![s] = "booking"]
    /\ UNCHANGED <<conversation, reading, tasks, store, touched>>

Reject(s) ==
    /\ pc[s] = "gate"
    /\ pc' = [pc EXCEPT ![s] = "prompt"]
    /\ UNCHANGED <<conversation, reading, tasks, store, touched>>

\* The comparison with the first answer may divide by zero, which ends the session.
Book(s) ==
    /\ pc[s] = "booking"
    /\ \E next \in {"prompt", "closing"} : pc' = [pc EXCEPT ![s] = next]
    /\ UNCHANGED <<conversation, reading, tasks, store, touched>>
-----------------------------------------------------------------------------
(* The end *)

Quit(s) ==
    /\ pc[s] = "prompt"
    /\ pc' = [pc EXCEPT ![s] = "closing"]
    /\ UNCHANGED <<conversation, reading, tasks, store, touched>>

\* Ctrl-C cancels the conversation wherever it awaits, and leaves behind the thread
\* that waits for a line.
Interrupt(s) ==
    /\ Yielded(s) /\ pc[s] # "closing"
    /\ reading' = [reading EXCEPT ![s] = pc[s] \in Typing]
    /\ pc' = [pc EXCEPT ![s] = "closing"]
    /\ UNCHANGED <<conversation, tasks, store, touched>>

\* While close() gathers the jobs, it cancels them: a cancelled gather passes it on.  Each
\* has taken its first step by then, since the loop has turned after it was created; one
\* that had not would stay pending for good.
InterruptClosing(s) ==
    /\ pc[s] = "closing" /\ \E j \in Jobs : ~Over(s, j)
    /\ \A j \in Jobs : status[s][j] # "pending"
    /\ status' = [status EXCEPT ![s] = [j \in Jobs |-> IF Over(s, j) THEN @[j] ELSE "cancelled"]]
    /\ UNCHANGED <<pc, conversation, reading, request, store, touched>>

\* The line that the thread was waiting for.
Enter(s) ==
    /\ reading[s]
    /\ reading' = [reading EXCEPT ![s] = FALSE]
    /\ UNCHANGED <<pc, conversation, tasks, store, touched>>

\* close() awaits every job, and the interpreter every thread.
Undrained(s) == TRUE \* a plausible mistake: close() returns at once
Drained(s) == \A j \in Jobs : Over(s, j)

Finish(s) ==
    /\ pc[s] = "closing"
    /\ Drained(s) /\ ~reading[s]
    /\ pc' = [pc EXCEPT ![s] = "ended"]
    /\ UNCHANGED <<conversation, reading, tasks, store, touched>>
-----------------------------------------------------------------------------
(* The learning jobs *)

Begin(s, j) ==
    /\ Yielded(s)
    /\ status[s][j] = "pending"
    /\ status' = [status EXCEPT ![s][j] = "running"]
    /\ UNCHANGED <<pc, conversation, reading, request, store, touched>>

\* From the search's return to the spoken result there is no await: the skill is
\* judged, distilled, saved and announced in one turn.
Learn(s, j) ==
    /\ Yielded(s)
    /\ status[s][j] = "running"
    /\ Written(s, request[s][j])
    /\ status' = [status EXCEPT ![s][j] = "succeeded"]
    /\ UNCHANGED <<pc, conversation, reading, request>>

\* The distiller refuses: that is what is spoken.
Decline(s, j) ==
    /\ Yielded(s)
    /\ status[s][j] = "running"
    /\ status' = [status EXCEPT ![s][j] = "succeeded"]
    /\ UNCHANGED <<pc, conversation, reading, request, store, touched>>

Fail(s, j) ==
    /\ Yielded(s)
    /\ status[s][j] = "running"
    /\ status' = [status EXCEPT ![s][j] = "failed"]
    /\ UNCHANGED <<pc, conversation, reading, request, store, touched>>

Conversing(s) ==
    \/ Start(s)
    \/ \E u \in Utterances : Miss(s, u) \/ Hit(s, u)
    \/ Reload(s) \/ Fill(s) \/ Mishear(s)
    \/ Find(s) \/ Confirm(s) \/ Reject(s) \/ Book(s)
    \/ Quit(s) \/ Interrupt(s) \/ InterruptClosing(s) \/ Enter(s) \/ Finish(s)
Ending(s, j) == Learn(s, j) \/ Decline(s, j) \/ Fail(s, j)
Next == \E s \in Sessions :
    \/ Conversing(s)
    \/ \E j \in Jobs : Begin(s, j) \/ Ending(s, j)

Spec == Init /\ [][Next]_vars

\* The process runs, the loop turns to every job that is ready however often the
\* conversation comes first, a search ends (it is bounded by budgets) and a provider
\* step returns or times out.  Nothing is promised of the user, not even a line.
Fairness == \A s \in Sessions :
    /\ WF_vars(Start(s)) /\ WF_vars(Reload(s)) /\ WF_vars(Find(s)) /\ WF_vars(Book(s))
    /\ WF_vars(Finish(s))
    /\ \A j \in Jobs : SF_vars(Begin(s, j)) /\ SF_vars(Ending(s, j))
FairSpec == Spec /\ Fairness

-----------------------------------------------------------------------------
(* Properties *)

Places == {"starting", "announced", "finding", "booking", "closing", "ended"} \cup Typing
Statuses == {"absent", "pending", "running", "succeeded", "failed", "cancelled"}

\* The variables keep their types.
TypeOK ==
    /\ pc \in [Sessions -> Places]
    /\ asked \in [Sessions -> Skills]
    /\ announced \in [Sessions -> Skills] /\ using \in [Sessions -> Skills]
    /\ left \in [Sessions -> 0..Questions] /\ tries \in [Sessions -> 0..MaxAttempts]
    /\ reading \in [Sessions -> BOOLEAN] /\ touched \in [Sessions -> BOOLEAN]
    /\ status \in [Sessions -> [Jobs -> Statuses]]
    /\ request \in [Sessions -> [Jobs -> Skills]]
    /\ store \in Skills

\* "I already know how to do that": the skill that a session announces is the one that
\* its dialogue replays, and is not missing when the dialogue looks again, whatever its
\* own jobs learn at the same time; only another process can come between
\* (assistant.py looks up, and dialogue.py looks up again).
AnnouncedIsReplayed == \A s \in Sessions :
    pc[s] # "announced" /\ announced[s] # Nothing /\ ~touched[s] => using[s] = announced[s]

\* When the assistant has ended, everything it accepted is over: nothing that it
\* promised to get back about is still being learned, and no skill appears after the
\* end (assistant.py: a task must not be killed in mid-flight).
EndedIsOver == \A s \in Sessions : pc[s] = "ended" => \A j \in Jobs : Over(s, j)

\* The jobs of all processes walk the coordinator's life, and when the last process has
\* ended it is sealed: none is left unfinished, and there is no new one.
Life == INSTANCE JobLifecycle WITH
            Jobs <- Sessions \X Jobs,
            status <- [job \in Sessions \X Jobs |-> status[job[1]][job[2]]],
            sealed <- \A s \in Sessions : pc[s] = "ended"
JobsSpec == Life!Spec

\* Whoever is told "I'll get back to you" is got back to, or called the job off, however
\* the conversation goes on meanwhile.
EveryJobEnds == \A s \in Sessions, j \in Jobs :
    status[s][j] \in {"pending", "running"} ~> Over(s, j)

\* A user who says quit is let go, once the jobs in flight have ended.
QuitEnds == \A s \in Sessions : pc[s] = "closing" /\ ~reading[s] ~> pc[s] = "ended"

\* Not kept (README, section 6).  "ctrl-c or 'quit' to stop": whichever it was, the assistant stops.
StopStops == \A s \in Sessions : pc[s] = "closing" ~> pc[s] = "ended"
=============================================================================
