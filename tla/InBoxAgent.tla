------------------------------ MODULE InBoxAgent ------------------------------
(***************************************************************************)
(* One launch: InBoxAgentLauncher.launch on this side, the detached        *)
(* branch_agent program in the Sailbox on the other, and between them only *)
(* the files of the box: the job, the journal steps.jsonl, trajectory.json *)
(* and DONE.                                                               *)
(*                                                                         *)
(* The box may be the continuation of a parent's.  Then it begins with the *)
(* files of the parent's agent, and with that agent itself if it was still *)
(* running when the checkpoint was taken: a detached process survives.     *)
(* The launcher works in threads; each Sailbox call takes effect at once.  *)
(***************************************************************************)
EXTENDS Naturals, Sequences, FiniteSets

CONSTANTS
  MaxSteps, \* max_steps of an agent
  Faults    \* may Sailbox calls and journal writes raise, and agents be killed?

ASSUME InBoxAgentAssumption == MaxSteps \in Nat \ {0} /\ Faults \in BOOLEAN

VARIABLES
  pc,        \* where launch() stands
  late,      \* is deadline_seconds + poll_slack_seconds over?
  agent,     \* where each agent stands
  steps,     \* how many steps its recorder holds
  journal,   \* steps.jsonl: who wrote each line, and is it whole?
  traj,      \* trajectory.json: whose it is, and is it whole?
  done,      \* does DONE exist?
  inherited, \* history: did the parent's agent run when the launch began?
  result     \* the trajectory returned: whose, and the lines salvaged

launcher == <<pc, late, result>>
files    == <<journal, traj, done>>
vars     == <<launcher, files, agent, steps, inherited>>

Agents == {"me", "parent"}
Nobody == "nobody"
Line   == [by : Agents, whole : BOOLEAN]

Absent == [by |-> Nobody, whole |-> FALSE]
Nothing == [by |-> Nobody, lines |-> <<>>]

Live     == {"thinking", "recording", "appending", "failing", "writing", "unlinked", "signing"}
Returned == {"reported", "salvaged", "unreached"}
Ended    == Returned \cup {"garbled", "raised", "cancelled"}

TypeOK ==
  /\ pc \in {"clear", "job", "start", "poll", "read", "salvage"} \cup Ended
  /\ late \in BOOLEAN
  /\ agent \in [Agents -> Live \cup {"absent", "gone", "dead"}]
  /\ steps \in [Agents -> 0 .. MaxSteps]
  /\ journal \in Seq(Line)
  /\ traj \in Line \cup {Absent}
  /\ done \in BOOLEAN
  /\ inherited \in BOOLEAN
  /\ result \in [by : Agents \cup {Nobody}, lines : Seq(Line)]

Torn(j)  == \E i \in DOMAIN j : ~j[i].whole
Lines(a, n) == [i \in 1 .. n |-> [by |-> a, whole |-> TRUE]]

(* The files of an agent that stands at st, having recorded n steps: the     *)
(* last line is not there, or half there, while it is written, and for good  *)
(* if that failed.                                                           *)
Short(a, n) == Lines(a, n - 1)
Half(a, n)  == Append(Short(a, n), [by |-> a, whole |-> FALSE])
Journals(a, st, n) ==
  CASE st = "thinking"  -> {Lines(a, n)}
    [] st = "recording" -> {Short(a, n)}
    [] st = "appending" -> {Half(a, n)}
    [] st = "failing"   -> {Short(a, n), Half(a, n)}
    [] OTHER -> {Lines(a, n)} \cup (IF Faults /\ n > 0 THEN {Short(a, n), Half(a, n)} ELSE {})
Looping == {"thinking", "recording", "appending", "failing"}
LeftBy(a, st, n) ==
  /\ journal \in Journals(a, st, n)
  /\ traj = IF st \in Looping THEN Absent ELSE [by |-> a, whole |-> st # "writing"]
  /\ done = (st = "gone")

Init ==
  /\ pc = "clear" /\ late = FALSE /\ result = Nothing
  /\ \/ /\ agent = [a \in Agents |-> "absent"]
        /\ steps = [a \in Agents |-> 0]
        /\ journal = <<>> /\ traj = Absent /\ done = FALSE
     \/ \E st \in (Live \ {"unlinked"}) \cup {"gone"}, n \in 0 .. MaxSteps :
          /\ n = 0 => st \notin {"recording", "appending", "failing"}
          /\ st = "failing" => Faults
          /\ steps = [me |-> 0, parent |-> n]
          /\ LeftBy("parent", st, n)
          /\ \E now \in {st, "dead"} :
               agent = [me |-> "absent", parent |-> now]
  /\ inherited = (agent["parent"] \in Live)

-----------------------------------------------------------------------------
(* launch: each call awaits a thread.  The rm takes the names away from    *)
(* under an agent that has its trajectory open.                            *)

(* A bug: only the marker is removed, not the journal of the round before. *)
ClearMarker ==
  /\ pc = "clear"
  /\ pc' = "job"
  /\ done' = FALSE
  /\ UNCHANGED <<late, result, journal, traj, agent, steps, inherited>>

Clear ==
  /\ pc = "clear"
  /\ pc' = "job"
  /\ journal' = <<>> /\ traj' = Absent /\ done' = FALSE
  /\ agent' = [a \in Agents |-> IF agent[a] = "writing" THEN "unlinked" ELSE agent[a]]
  /\ UNCHANGED <<late, result, steps, inherited>>

WriteJob ==
  /\ pc = "job"
  /\ pc' = "start"
  /\ UNCHANGED <<late, result, files, agent, steps, inherited>>

(* "echo launched" says nothing of whether the agent came up. *)
Start ==
  /\ pc = "start"
  /\ pc' = "poll"
  /\ \/ agent' = [agent EXCEPT !["me"] = "thinking"]
     \/ Faults /\ UNCHANGED agent
  /\ UNCHANGED <<late, result, files, steps, inherited>>

DoneSeen ==
  /\ pc = "poll" /\ done
  /\ pc' = "read"
  /\ UNCHANGED <<late, result, files, agent, steps, inherited>>

(* A bug: the limit is not enough while the agent's process still runs. *)
GiveUpOnTheDead ==
  /\ pc = "poll" /\ late /\ agent["me"] \notin Live
  /\ pc' = "salvage"
  /\ UNCHANGED <<late, result, files, agent, steps, inherited>>

GiveUp ==
  /\ pc = "poll" /\ late
  /\ pc' = "salvage"
  /\ UNCHANGED <<late, result, files, agent, steps, inherited>>

(* A missing file or half of a document raises out of launch(). *)
ReadTrajectory ==
  /\ pc = "read"
  /\ IF traj.whole
     THEN pc' = "reported" /\ result' = [by |-> traj.by, lines |-> <<>>]
     ELSE pc' = "garbled" /\ UNCHANGED result
  /\ UNCHANGED <<late, files, agent, steps, inherited>>

(* _salvage: one line that does not parse empties the list. *)
Salvage ==
  /\ pc = "salvage"
  /\ pc' = "salvaged"
  /\ result' = [by |-> "me", lines |-> IF Torn(journal) THEN <<>> ELSE journal]
  /\ UNCHANGED <<late, files, agent, steps, inherited>>

(* A call to the box raises: out of launch(), but not out of _salvage. *)
BoxFails ==
  /\ Faults /\ pc \notin Ended
  /\ IF pc = "salvage"
     THEN pc' = "unreached" /\ result' = [by |-> "me", lines |-> <<>>]
     ELSE pc' = "raised" /\ UNCHANGED result
  /\ UNCHANGED <<late, files, agent, steps, inherited>>

Cancel ==
  /\ pc \notin Ended
  /\ pc' = "cancelled"
  /\ UNCHANGED <<late, result, files, agent, steps, inherited>>

TimePasses ==
  /\ ~late /\ pc \notin Ended
  /\ late' = TRUE
  /\ UNCHANGED <<pc, result, files, agent, steps, inherited>>

-----------------------------------------------------------------------------
(* branch_agent: StepRecorder.record, run_branch and main. *)

(* record appends to its steps first, and then opens the journal. *)
Record(a) ==
  /\ agent[a] = "thinking" /\ steps[a] < MaxSteps
  /\ steps' = [steps EXCEPT ![a] = @ + 1]
  /\ agent' = [agent EXCEPT ![a] = "recording"]
  /\ UNCHANGED <<launcher, files, inherited>>

(* A bug: the line is left for the next step to write. *)
JournalLater(a) ==
  /\ agent[a] = "recording"
  /\ agent' = [agent EXCEPT ![a] = "thinking"]
  /\ UNCHANGED <<launcher, steps, files, inherited>>

(* A line longer than the file's buffer reaches the journal in two writes. *)
Journal(a) ==
  /\ agent[a] = "recording"
  /\ \E whole \in BOOLEAN :
       /\ journal' = Append(journal, [by |-> a, whole |-> whole])
       /\ agent' = [agent EXCEPT ![a] = IF whole THEN "thinking" ELSE "appending"]
  /\ UNCHANGED <<launcher, steps, traj, done, inherited>>

(* The rest of the line, which completes it if nothing was written between. *)
Recorded(a) ==
  /\ agent[a] = "appending"
  /\ agent' = [agent EXCEPT ![a] = "thinking"]
  /\ LET last == Len(journal)
     IN  journal' = IF last > 0 /\ journal[last] = [by |-> a, whole |-> FALSE]
                    THEN [journal EXCEPT ![last].whole = TRUE]
                    ELSE journal
  /\ UNCHANGED <<launcher, steps, traj, done, inherited>>

(* A write raises, the first or the second: it ends the loop, and the report *)
(* that main writes of that has the step.                                    *)
WriteRaises(a) ==
  /\ Faults
  /\ agent[a] \in {"recording", "appending"}
  /\ agent' = [agent EXCEPT ![a] = "failing"]
  /\ UNCHANGED <<launcher, steps, files, inherited>>

(* A bug: DONE is written when the trajectory is opened. *)
FinishSigned(a) ==
  /\ agent[a] \in {"thinking", "failing"}
  /\ agent' = [agent EXCEPT ![a] = "writing"]
  /\ traj' = [by |-> a, whole |-> FALSE]
  /\ done' = TRUE
  /\ UNCHANGED <<launcher, steps, journal, inherited>>

(* The loop ends, for whatever reason and also before its first step, and *)
(* main opens trajectory.json, which empties it.                          *)
Finish(a) ==
  /\ agent[a] \in {"thinking", "failing"}
  /\ agent' = [agent EXCEPT ![a] = "writing"]
  /\ traj' = [by |-> a, whole |-> FALSE]
  /\ UNCHANGED <<launcher, steps, journal, done, inherited>>

(* Over another agent's text the result is whole only if it covers it. *)
WriteTrajectory(a) ==
  /\ agent[a] \in {"writing", "unlinked"}
  /\ agent' = [agent EXCEPT ![a] = "signing"]
  /\ IF agent[a] = "unlinked" THEN UNCHANGED traj
     ELSE \E covers \in BOOLEAN :
            /\ ~traj.whole => covers
            /\ traj' = [by |-> a, whole |-> covers]
  /\ UNCHANGED <<launcher, steps, journal, done, inherited>>

Sign(a) ==
  /\ agent[a] = "signing"
  /\ agent' = [agent EXCEPT ![a] = "gone"]
  /\ done' = TRUE
  /\ UNCHANGED <<launcher, steps, journal, traj, inherited>>

Dies(a) ==
  /\ Faults
  /\ agent[a] \in Live
  /\ agent' = [agent EXCEPT ![a] = "dead"]
  /\ UNCHANGED <<launcher, files, steps, inherited>>

-----------------------------------------------------------------------------
Launching ==
  Clear \/ WriteJob \/ Start \/ DoneSeen \/ GiveUp \/ ReadTrajectory \/ Salvage

Working(a) ==
  \/ Record(a) \/ Journal(a) \/ Recorded(a) \/ WriteRaises(a)
  \/ Finish(a) \/ WriteTrajectory(a) \/ Sign(a) \/ Dies(a)

Next ==
  \/ Launching \/ BoxFails \/ Cancel \/ TimePasses
  \/ \E a \in Agents : Working(a)

(* The event loop resumes the launcher, and the clock runs.  Nothing is    *)
(* assumed of the agents: they may hang or die.                            *)
Spec == Init /\ [][Next]_vars /\ WF_vars(Launching) /\ WF_vars(TimePasses)

-----------------------------------------------------------------------------
(* A continuation whose parent's agent had ended starts clean: what launch() *)
(* returns is its own agent's, although the parent's files were in the box.  *)
NothingInherited ==
  ~inherited /\ pc \in Returned =>
    /\ result.by = "me"
    /\ \A i \in DOMAIN result.lines : result.lines[i].by = "me"

(* DONE is the poller's signal that the trajectory is whole: launch() never  *)
(* meets half of one, or none, unless an inherited agent ran in the box.     *)
DoneMeansWhole ==
  pc = "garbled" => inherited

(* The lines that the launch's own agent wrote.                              *)
Own(ls) == {i \in DOMAIN ls : ls[i].by = "me"}

(* A branch that never finished is salvaged from its journal: unless a line  *)
(* is half written, the steps of its agent come back, whoever else writes    *)
(* there.  The last one alone may be missing, and not once record returned.  *)
EvidenceSurvives ==
  [][pc' = "salvaged" /\ pc # "salvaged" /\ ~Torn(journal) =>
       LET salvaged == Cardinality(Own(result'.lines))
       IN  /\ salvaged \in {steps["me"] - 1, steps["me"]}
           /\ agent["me"] = "thinking" => salvaged = steps["me"]]_vars

(* launch() always ends: also when the agent hangs, dies or never came up.   *)
EveryLaunchEnds == <>(pc \in Ended)
=============================================================================
