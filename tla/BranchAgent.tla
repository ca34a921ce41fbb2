------------------------------ MODULE BranchAgent ------------------------------
(***************************************************************************)
(* The agent loop of branch_agent.py, run_branch: ask the model, carry out *)
(* the one tool call of its reply, answer it, and ask again until it says  *)
(* finish, the budget or the time is over, or something raises.  main      *)
(* turns what raises into a report as well.  InBoxAgent takes over where   *)
(* this module ends, when the report is written to the box.                *)
(*                                                                         *)
(* The texts of the replies are left out.  A command is missing, refused   *)
(* by screen_command, or run.                                              *)
(***************************************************************************)
EXTENDS Naturals, Sequences

CONSTANT MaxBudget \* the largest max_steps of a job that is looked at

ASSUME BranchAgentAssumption == MaxBudget \in Nat

VARIABLES
  budget,   \* max_steps of the job
  where,    \* where run_branch stands
  overdue,  \* is recorder.elapsed over deadline_seconds?
  recorded, \* recorder.steps
  messages, \* the conversation sent with the next request
  answer,   \* final_answer: not there, the empty text, or a text
  signal,   \* success_signal
  error,    \* error
  report    \* what main writes to trajectory.json

branch == <<budget, where, overdue, recorded, messages, answer, signal, error, report>>
outcome == <<answer, signal, error>>

Step(action, result) == [action |-> action, outcome |-> result]
Turn(role, calls, left) == [role |-> role, calls |-> calls, left |-> left]
User == Turn("user", FALSE, 0)
Assistant(calls) == Turn("assistant", calls, 0)
Result(left) == Turn("tool", FALSE, left)

Actions == {"stop", "call_model", "finish", "note", "run", "unknown", "start"}
Steps   == [action : Actions, outcome : {"ok", "error", "abandoned"}]
Turns   == [role : {"user", "assistant", "tool"}, calls : BOOLEAN, left : 0 .. MaxBudget]
Answers == {"none", "empty", "text"}
Errors  == {"none", "deadline", "transport", "exhausted", "raised"}
Report  == [steps : Seq(Steps), answer : Answers, success : BOOLEAN, error : Errors]

NoReport == [steps |-> <<>>, answer |-> "none", success |-> FALSE, error |-> "none"]

BranchTypeOK ==
  /\ budget \in 0 .. MaxBudget
  /\ where \in {"loop", "asked", "shell", "over", "raised", "reported"}
  /\ overdue \in BOOLEAN
  /\ recorded \in Seq(Steps)
  /\ messages \in Seq(Turns)
  /\ answer \in Answers
  /\ signal \in BOOLEAN
  /\ error \in Errors
  /\ report \in Report

BranchInit ==
  /\ budget \in 0 .. MaxBudget
  /\ where = "loop" /\ overdue = FALSE
  /\ recorded = <<>>
  /\ messages = <<User>> \* the system prompt is constant
  /\ answer = "none" /\ signal = FALSE /\ error = "none"
  /\ report = NoReport

(* StepRecorder.record *)
RecordStep(action, result) == recorded' = Append(recorded, Step(action, result))

-----------------------------------------------------------------------------
(* The head of the loop. *)

Ask ==
  /\ where = "loop" /\ Len(recorded) < budget /\ ~overdue
  /\ where' = "asked"
  /\ UNCHANGED <<budget, overdue, recorded, messages, outcome, report>>

OutOfTime ==
  /\ where = "loop" /\ Len(recorded) < budget /\ overdue
  /\ where' = "over"
  /\ RecordStep("stop", "abandoned")
  /\ error' = "deadline"
  /\ UNCHANGED <<budget, overdue, messages, answer, signal, report>>

OutOfSteps ==
  /\ where = "loop" /\ Len(recorded) >= budget
  /\ where' = "over"
  /\ UNCHANGED <<budget, overdue, recorded, messages, outcome, report>>

DeadlinePasses ==
  /\ ~overdue /\ where \in {"loop", "asked", "shell"}
  /\ overdue' = TRUE
  /\ UNCHANGED <<budget, where, recorded, messages, outcome, report>>

-----------------------------------------------------------------------------
(* What comes back from the model. *)

(* "a dead endpoint is a step, not a traceback" *)
TransportFails ==
  /\ where = "asked"
  /\ where' = "over"
  /\ RecordStep("call_model", "error")
  /\ error' = "transport"
  /\ UNCHANGED <<budget, overdue, messages, answer, signal, report>>

(* A reply of another shape than the API's raises out of run_branch. *)
Malformed ==
  /\ where = "asked"
  /\ where' = "raised"
  /\ UNCHANGED <<budget, overdue, recorded, messages, outcome, report>>

(* Bugs: the nudge without the echo; a silent reply that costs no step. *)
SilentWithoutEcho ==
  /\ where = "asked"
  /\ where' = "loop"
  /\ RecordStep("call_model", "abandoned")
  /\ messages' = Append(messages, User)
  /\ UNCHANGED <<budget, overdue, outcome, report>>

SilentIsFree ==
  /\ where = "asked"
  /\ where' = "loop"
  /\ UNCHANGED <<budget, overdue, recorded, messages, outcome, report>>

(* No tool call, neither a native one nor one inlined as JSON: it is a step *)
(* all the same, the reply is echoed, and the model is nudged.              *)
Silent ==
  /\ where = "asked"
  /\ where' = "loop"
  /\ RecordStep("call_model", "abandoned")
  /\ messages' = messages \o <<Assistant(FALSE), User>>
  /\ UNCHANGED <<budget, overdue, outcome, report>>

FinishCalled ==
  /\ where = "asked"
  /\ where' = "over"
  /\ RecordStep("finish", "ok")
  /\ messages' = Append(messages, Assistant(TRUE))
  /\ answer' \in {"empty", "text"} /\ signal' \in BOOLEAN
  /\ UNCHANGED <<budget, overdue, error, report>>

(* A call carried out at once: its step, and its result with the budget hint. *)
AnsweredCall(action, result) ==
  /\ RecordStep(action, result)
  /\ messages' = messages \o <<Assistant(TRUE), Result(budget - Len(recorded'))>>

(* The tool does not exist. *)
Misuse ==
  /\ where = "asked"
  /\ where' = "loop"
  /\ AnsweredCall("unknown", "error")
  /\ UNCHANGED <<budget, overdue, outcome, report>>

Note ==
  /\ where = "asked"
  /\ where' = "loop"
  /\ \E abandoning \in BOOLEAN :
       AnsweredCall("note", IF abandoning THEN "abandoned" ELSE "ok")
  /\ UNCHANGED <<budget, overdue, outcome, report>>

(* A shell call without a command, or one that screen_command refuses. *)
NotRun ==
  /\ where = "asked"
  /\ where' = "loop"
  /\ \E result \in {"error", "abandoned"} : AnsweredCall("run", result)
  /\ UNCHANGED <<budget, overdue, outcome, report>>

Run ==
  /\ where = "asked"
  /\ where' = "shell"
  /\ messages' = Append(messages, Assistant(TRUE))
  /\ UNCHANGED <<budget, overdue, recorded, outcome, report>>

(* The command exits, or is stopped after 60 s, which is exit code 124. *)
Exits ==
  /\ where = "shell"
  /\ where' = "loop"
  /\ \E result \in {"ok", "error"} : RecordStep("run", result)
  /\ messages' = Append(messages, Result(budget - Len(recorded')))
  /\ UNCHANGED <<budget, overdue, outcome, report>>

(* run_shell raises, for one on output that is not text. *)
ShellRaises ==
  /\ where = "shell"
  /\ where' = "raised"
  /\ UNCHANGED <<budget, overdue, recorded, messages, outcome, report>>

-----------------------------------------------------------------------------
(* The steps that may be recorded where the loop stands, the one of an empty *)
(* run included.                                                             *)
Recordable ==
  CASE where = "loop" /\ overdue /\ Len(recorded) < budget -> {Step("stop", "abandoned")}
    [] where = "asked" -> {Step("finish", "ok"), Step("note", "ok"), Step("unknown", "error")}
                          \cup [action : {"call_model", "run"}, outcome : {"error"}]
                          \cup [action : {"call_model", "note", "run"}, outcome : {"abandoned"}]
    [] where = "shell" -> [action : {"run"}, outcome : {"ok", "error"}]
    [] where = "over" /\ recorded = <<>> -> {Step("start", "error")}
    [] OTHER -> {}

(* StepRecorder.record raises when it appends to the journal: the step is in *)
(* memory by then, and the locals of run_branch are lost.                    *)
JournalFails ==
  /\ \E step \in Recordable : recorded' = Append(recorded, step)
  /\ where' = "raised"
  /\ UNCHANGED <<budget, overdue, messages, outcome, report>>

-----------------------------------------------------------------------------
(* A trajectory has a step, also when the loop recorded none. *)
Substantial(sofar) ==
  IF sofar = <<>> THEN <<Step("start", "error")>> ELSE sofar

(* A bug: an empty answer is taken for none. *)
ConcludeOnTruth ==
  /\ where = "over"
  /\ where' = "reported"
  /\ report' = [steps   |-> Substantial(recorded),
                answer  |-> answer,
                success |-> signal,
                error   |-> IF answer # "text" /\ error = "none" THEN "exhausted" ELSE error]
  /\ UNCHANGED <<budget, overdue, recorded, messages, outcome>>

(* run_branch returns and main writes what it returned. *)
Conclude ==
  /\ where = "over"
  /\ where' = "reported"
  /\ report' = [steps   |-> Substantial(recorded),
                answer  |-> IF answer = "text" THEN "text" ELSE "none",
                success |-> signal,
                error   |-> IF answer = "none" /\ error = "none" THEN "exhausted" ELSE error]
  /\ UNCHANGED <<budget, overdue, recorded, messages, outcome>>

(* main's except: the steps recorded so far are the report. *)
Fallback ==
  /\ where = "raised"
  /\ where' = "reported"
  /\ report' = [steps |-> Substantial(recorded), answer |-> "none",
                success |-> FALSE, error |-> "raised"]
  /\ UNCHANGED <<budget, overdue, recorded, messages, outcome>>

-----------------------------------------------------------------------------
Reply == TransportFails \/ Malformed \/ Silent \/ FinishCalled \/ Misuse \/ Note \/ NotRun \/ Run

Work ==
  \/ Ask \/ OutOfTime \/ OutOfSteps \/ Reply \/ Exits \/ ShellRaises \/ JournalFails
  \/ Conclude \/ Fallback

BranchNext == Work \/ DeadlinePasses

(* Requests and commands have timeouts, so the loop always goes on. *)
BranchSpec == BranchInit /\ [][BranchNext]_branch /\ WF_branch(Work)

-----------------------------------------------------------------------------
(* What may come after a turn: a call is answered by its result and by       *)
(* nothing else, a reply without a call by the user, these two by the model. *)
MayFollow(m, n) ==
  n.role = IF m.role # "assistant" THEN "assistant"
           ELSE IF m.calls THEN "tool" ELSE "user"

(* "two consecutive user turns is a message shape some endpoints reject":    *)
(* in every request the turns alternate, each call has its own result, and   *)
(* the last word is not the model's.                                         *)
RequestsAreWellFormed ==
  where = "asked" =>
    /\ messages[Len(messages)].role # "assistant"
    /\ \A i \in 1 .. Len(messages) - 1 : MayFollow(messages[i], messages[i + 1])

(* Whatever happened, the report has a step and stays within the budget; it  *)
(* claims no success together with an error; without an error its last step  *)
(* is the finish, also when the finish brought an empty answer; and a finish *)
(* comes with no error but that its own step could not be written down.      *)
EndIsExplained ==
  where = "reported" =>
    LET n == Len(report.steps)
        finished == report.steps[n].action = "finish"
    IN  /\ n >= 1 /\ (n <= budget \/ budget = 0)
        /\ report.success => report.error = "none"
        /\ report.error = "none" => finished
        /\ finished => report.error \in {"none", "raised"}

(* Every branch reports in the end, also when the model never calls a tool.  *)
EveryBranchReports == <>(where = "reported")
=============================================================================
