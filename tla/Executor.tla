------------------------------ MODULE Executor ------------------------------
(***************************************************************************)
(* RunbookExecutor: one replay of a runbook, step by step, with a          *)
(* confirmation gate before every irreversible step and NodeBookingRunner  *)
(* as the runner.                                                          *)
(*                                                                         *)
(* A slot value is abstracted to what decides the control flow: whether    *)
(* the slot has a value and whether its type is wrong.  A dispatched step  *)
(* takes effect in the world (a page is read, a table is booked) at some   *)
(* moment while its bridge process runs; a process whose caller gave up is *)
(* a stray and its step may take effect later, or never.                   *)
(***************************************************************************)
EXTENDS Naturals, Sequences

CONSTANTS
  Slots,    \* slot names
  Runbooks, \* the runbooks that may be replayed
  Supplies, \* the slot values execute() may be called with
  HasGate,  \* was the executor built with a ConfirmationGate?
  Upstream  \* NodeBookingRunner(confirmation_is_upstream=...)

\* irreversible is the runbook's mark; books is true of restaurant.book, the
\* action the bridge itself holds irreversible, whatever its mark.  needs and
\* readback are the slots that arguments and confirmation_prompt refer to.
Step == [irreversible : BOOLEAN, books : BOOLEAN,
         needs : SUBSET Slots, readback : SUBSET Slots]

Runbook == [slots : SUBSET Slots, required : SUBSET Slots, defaults : SUBSET Slots,
            steps : Seq(Step)]

\* The slots a caller gives a value, and those whose value has the wrong type.
Supply == [given : SUBSET Slots, mistyped : SUBSET Slots]

ASSUME ExecutorAssumption ==
  /\ Runbooks \subseteq {b \in Runbook : b.required \union b.defaults \subseteq b.slots}
  /\ Supplies \subseteq Supply
  /\ HasGate \in BOOLEAN
  /\ Upstream \in BOOLEAN

VARIABLES
  book,       \* the runbook being replayed
  supply,     \* the slot values of the call
  bound,      \* slots: the slots that resolve_slots gave a value
  pc,         \* where execute() stands
  at,         \* the step it stands at
  results,    \* results: the StepResults so far; step 0 is "__slots__"
  outcome,    \* the status of the ExecutionResult, "none" before there is one
  approvals,  \* history: the steps for which the gate answered True
  dispatched, \* history: the steps passed to runner.execute, in order
  call,       \* the running step's bridge process: has it had its effect?
  strays,     \* steps whose process was left behind before its effect
  landed      \* history: the steps that took effect, in order

vars == <<book, supply, bound, pc, at, results, outcome, approvals, dispatched,
          call, strays, landed>>

StepStatuses == {"succeeded", "failed", "confirmation_rejected"}
Answers      == {"True", "truthy", "falsy", "raises"}
Current      == book.steps[at]

Init ==
  /\ book \in Runbooks
  /\ supply \in Supplies
  /\ bound      = {}
  /\ pc         = "called"
  /\ at         = 1
  /\ results    = <<>>
  /\ outcome    = "none"
  /\ approvals  = {}
  /\ dispatched = <<>>
  /\ call       = "none"
  /\ strays     = {}
  /\ landed     = <<>>

-----------------------------------------------------------------------------
\* resolve_slots

Unknown  == supply.given \ book.slots
Missing  == book.required \ (supply.given \union book.defaults)
Mistyped == supply.given \intersect supply.mistyped

Resolvable == Unknown = {} /\ Missing = {} /\ Mistyped = {}

\* execute() stops with a last StepResult and returns.
Stops(step, status) ==
  /\ results' = Append(results, [step |-> step, status |-> status])
  /\ outcome' = status
  /\ pc'      = "returned"

ResolveFails ==
  /\ pc = "called"
  /\ ~Resolvable
  /\ Stops(0, "failed")
  /\ UNCHANGED <<book, supply, bound, at, approvals, dispatched, call, strays, landed>>

\* Values that were given and defaults; an optional slot may stay unbound.
Resolve ==
  /\ pc = "called"
  /\ Resolvable
  /\ bound' = (supply.given \union book.defaults) \intersect book.slots
  /\ pc'    = "next"
  /\ UNCHANGED <<book, supply, at, results, outcome, approvals, dispatched,
                 call, strays, landed>>

-----------------------------------------------------------------------------
\* The loop over the steps

AtStep == pc = "next" /\ at <= Len(book.steps)

Complete ==
  /\ pc = "next"
  /\ at > Len(book.steps)
  /\ outcome' = "succeeded"
  /\ pc'      = "returned"
  /\ UNCHANGED <<book, supply, bound, at, results, approvals, dispatched,
                 call, strays, landed>>

\* substitute_slots found no value for a slot of the arguments.
SubstitutionFails ==
  /\ AtStep
  /\ ~(Current.needs \subseteq bound)
  /\ Stops(at, "failed")
  /\ UNCHANGED <<book, supply, bound, at, approvals, dispatched, call, strays, landed>>

\* The one call of runner.execute for the current step.
Dispatch ==
  /\ dispatched' = Append(dispatched, at)
  /\ call'       = "open"
  /\ pc'         = "running"
  /\ UNCHANGED <<results, outcome>>

DispatchReversible ==
  /\ AtStep
  /\ Current.needs \subseteq bound
  /\ ~Current.irreversible
  /\ Dispatch
  /\ UNCHANGED <<book, supply, bound, at, approvals, strays, landed>>

\* Without a gate, or with a readback that cannot be spoken, nobody is asked.
Askable == HasGate /\ Current.readback \subseteq bound

RejectUnasked ==
  /\ AtStep
  /\ Current.needs \subseteq bound
  /\ Current.irreversible
  /\ ~Askable
  /\ Stops(at, "confirmation_rejected")
  /\ UNCHANGED <<book, supply, bound, at, approvals, dispatched, call, strays, landed>>

AskGate ==
  /\ AtStep
  /\ Current.needs \subseteq bound
  /\ Current.irreversible
  /\ Askable
  /\ pc' = "confirming"
  /\ UNCHANGED <<book, supply, bound, at, results, outcome, approvals, dispatched,
                 call, strays, landed>>

\* Fault: any truthy answer will do.
ApprovedByTruth(answer) == answer \in {"True", "truthy"}

\* Only the literal True; a gate that raises is a denial.
Approved(answer) == answer = "True"

GateAnswers(answer) ==
  /\ pc = "confirming"
  /\ approvals' = IF answer = "True" THEN approvals \union {at} ELSE approvals
  /\ IF Approved(answer)
     THEN Dispatch
     ELSE Stops(at, "confirmation_rejected") /\ UNCHANGED <<dispatched, call>>
  /\ UNCHANGED <<book, supply, bound, at, strays, landed>>

-----------------------------------------------------------------------------
\* NodeBookingRunner and the bridge process behind it

\* The bridge refuses to book unless the request says confirmed, which the
\* runner sets for restaurant.book when it was told that gating is upstream.
Admitted(step) == step.books => Upstream

\* The step takes effect while its process is awaited.
TakesEffect ==
  /\ call = "open"
  /\ Admitted(Current)
  /\ landed' = Append(landed, at)
  /\ call'   = "landed"
  /\ UNCHANGED <<book, supply, bound, pc, at, results, outcome, approvals,
                 dispatched, strays>>

StrayTakesEffect(i) ==
  /\ i \in strays
  /\ Admitted(book.steps[i])
  /\ landed' = Append(landed, i)
  /\ strays' = strays \ {i}
  /\ UNCHANGED <<book, supply, bound, pc, at, results, outcome, approvals,
                 dispatched, call>>

\* The bridge printed {"ok": true, ...}.
RunnerReturns ==
  /\ pc = "running"
  /\ call = "landed"
  /\ results' = Append(results, [step |-> at, status |-> "succeeded"])
  /\ at'      = at + 1
  /\ pc'      = "next"
  /\ call'    = "none"
  /\ UNCHANGED <<book, supply, bound, outcome, approvals, dispatched, strays, landed>>

\* Faults: a failed dispatch is tried once more; an answer that is not ok is
\* taken for a result.
RetriesInstead ==
  /\ pc = "running"
  /\ Dispatch
  /\ UNCHANGED <<book, supply, bound, at, approvals, strays, landed>>
GoesOnAnyway ==
  /\ pc = "running"
  /\ results' = Append(results, [step |-> at, status |-> "succeeded"])
  /\ at'      = at + 1
  /\ pc'      = "next"
  /\ call'    = "none"
  /\ UNCHANGED <<book, supply, bound, outcome, approvals, dispatched, strays, landed>>

\* The process is over and its answer was not ok: refused, failed in the page,
\* or failed after the effect (the booking could not be recorded, the output
\* was not JSON).
RunnerRaises ==
  /\ pc = "running"
  /\ Stops(at, "failed")
  /\ call' = "none"
  /\ UNCHANGED <<book, supply, bound, at, approvals, dispatched, strays, landed>>

\* What is left of an open call that nobody awaits: a process that goes on, or
\* nothing, when killing the bridge did kill the work.
LeftBehind == IF call = "open" THEN {{}, {at}} ELSE {{}}

\* The bridge did not answer within the timeout and is killed; the process it
\* started inside the Sailbox is not.
RunnerTimesOut ==
  /\ pc = "running"
  /\ Stops(at, "failed")
  /\ \E left \in LeftBehind : strays' = strays \union left
  /\ call' = "none"
  /\ UNCHANGED <<book, supply, bound, at, approvals, dispatched, landed>>

\* The task that runs execute() is cancelled at one of its two awaits:
\* CancelledError is no Exception, and no ExecutionResult is returned.
Abandon ==
  /\ pc \in {"confirming", "running"}
  /\ pc' = "abandoned"
  /\ \E left \in LeftBehind : strays' = strays \union left
  /\ call' = "none"
  /\ UNCHANGED <<book, supply, bound, at, results, outcome, approvals, dispatched, landed>>

-----------------------------------------------------------------------------
Next ==
  \/ ResolveFails \/ Resolve
  \/ Complete \/ SubstitutionFails \/ DispatchReversible \/ RejectUnasked \/ AskGate
  \/ \E answer \in Answers : GateAnswers(answer)
  \/ TakesEffect \/ \E i \in strays : StrayTakesEffect(i)
  \/ RunnerReturns \/ RunnerRaises \/ RunnerTimesOut
  \/ Abandon

Spec == Init /\ [][Next]_vars

-----------------------------------------------------------------------------
\* Properties

\* Every variable has the type its Python counterpart has.
TypeOK ==
  /\ book \in Runbook
  /\ supply \in Supply
  /\ bound \subseteq Slots
  /\ pc \in {"called", "next", "confirming", "running", "returned", "abandoned"}
  /\ at \in Nat \ {0}
  /\ results \in Seq([step : Nat, status : StepStatuses])
  /\ outcome \in StepStatuses \union {"none"}
  /\ approvals \subseteq Nat
  /\ dispatched \in Seq(Nat)
  /\ call \in {"none", "open", "landed"}
  /\ strays \subseteq Nat
  /\ landed \in Seq(Nat)

\* The k-th element of h is k: each step at most once, in order, none skipped.
InOrder(h) == \A k \in DOMAIN h : h[k] = k

\* The runner is called for each step at most once and in schema order, and so
\* do the steps take effect, strays included: nothing retries.
EffectsInOrder == InOrder(dispatched) /\ InOrder(landed)

\* No step that its runbook marks irreversible takes effect, now or later,
\* unless the gate answered True for that very step of this replay.
IrreversibleWasApproved ==
  \A k \in DOMAIN landed : book.steps[landed[k]].irreversible => landed[k] \in approvals

\* The audit trail agrees with the world: a step reported as succeeded took
\* effect, a rejected one never does, and success covers the whole runbook.
AuditIsTrue ==
  /\ \A k \in DOMAIN results :
       LET i == results[k].step
       IN  /\ results[k].status = "succeeded" => \E n \in DOMAIN landed : landed[n] = i
           /\ results[k].status = "confirmation_rejected"
                => \A n \in DOMAIN landed : landed[n] # i
  /\ outcome = "succeeded" => Len(landed) = Len(book.steps) /\ Len(results) = Len(book.steps)

\* A call with an unknown, mistyped or missing required slot reaches nobody,
\* neither the gate nor the runner.
UnresolvedReachesNobody ==
  Unknown \union Missing \union Mistyped # {} => dispatched = <<>> /\ pc # "confirming"

\* The replay keeps what it promises to the person who asked for it.
Promise == INSTANCE ReplayPromise WITH
  steps <- book.steps, effects <- Len(landed), consents <- approvals,
  report <- IF outcome = "confirmation_rejected" THEN "rejected" ELSE outcome
ReplaySpec == Promise!Spec

-----------------------------------------------------------------------------
\* What the repository says of the program and the code does not keep

Booked == {landed[k] : k \in {n \in DOMAIN landed : book.steps[landed[n]].books}}

\* "Cancelled - nothing was booked", "I couldn't finish the ... step, so nothing
\* was booked", "(nothing was booked)": what the assistant says of every replay
\* that did not succeed.
UnsuccessfulMeansNothingBooked ==
  outcome \in {"confirmation_rejected", "failed"} => Booked = {}
=============================================================================
