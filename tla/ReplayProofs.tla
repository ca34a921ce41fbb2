----------------------------- MODULE ReplayProofs -----------------------------
(***************************************************************************)
(* Theorems about what is replayed, for every instance of the constants:   *)
(* about Executor, which takes one runbook from its first step to its      *)
(* last, and about Learning, where that runbook comes from, with the       *)
(* matcher that finds it again: its edit distance and its score.  Executor *)
(* and Learning have no name in common.                                    *)
(***************************************************************************)
EXTENDS Executor, CompletedAgents, FiniteSetTheorems, WellFoundedInduction, TLAPS

(***************************************************************************)
(* The executor.  The inductive invariant IInv says where it stands: all   *)
(* steps before the current one were dispatched and took effect, in order; *)
(* the current one may be in flight while the runner is awaited, or be a   *)
(* stray once execute() is over; and a result was recorded for exactly the *)
(* steps that were left behind.                                            *)
(***************************************************************************)
Before   == {"called", "next", "confirming"}
Finished == {"returned", "abandoned"}

Position ==
  /\ at <= Len(book.steps) + 1
  /\ pc \in {"confirming", "running"} => at <= Len(book.steps)
  /\ pc \in Before => call = "none" /\ strays = {}
                      /\ Len(dispatched) = at - 1 /\ Len(landed) = at - 1
  /\ pc = "running" => /\ strays = {} /\ Len(dispatched) = at
                       /\ \/ call = "open" /\ Len(landed) = at - 1
                          \/ call = "landed" /\ Len(landed) = at
  /\ pc \in Finished =>
       /\ call = "none"
       /\ Len(dispatched) \in {at - 1, at}
       /\ Len(landed) \in {at - 1, at}
       /\ Len(landed) <= Len(dispatched)
       /\ \/ strays = {}
          \/ strays = {at} /\ Len(dispatched) = at /\ Len(landed) = at - 1 /\ at <= Len(book.steps)

Verdict ==
  /\ pc = "returned" <=> outcome # "none"
  /\ outcome \in {"succeeded", "confirmation_rejected"} => strays = {} /\ Len(landed) = at - 1
  /\ outcome = "succeeded" => at = Len(book.steps) + 1

Consented ==
  \A k \in 1 .. Len(dispatched) :
    /\ k <= Len(book.steps)
    /\ book.steps[k].irreversible => k \in approvals

Audited ==
  /\ \A k \in DOMAIN results :
       /\ results[k].status = "succeeded" => results[k].step \in 1 .. (at - 1)
       /\ results[k].status = "confirmation_rejected"
            => results[k].step = at /\ outcome = "confirmation_rejected"
  /\ outcome \in {"none", "succeeded"} => Len(results) = at - 1

IInv == TypeOK /\ EffectsInOrder /\ Position /\ Verdict /\ Consented /\ Audited

\* The invariant holds before the first step of execute().
LEMMA InitInv == Init => IInv
  BY ExecutorAssumption
  DEF Init, IInv, TypeOK, EffectsInOrder, InOrder, Position, Verdict, Consented, Audited,
      Before, Finished, StepStatuses, Runbook

\* Appending k to a history of k - 1 steps in order leaves it in order.
LEMMA AppendInOrder ==
  ASSUME NEW h \in Seq(Nat), InOrder(h), NEW k \in Nat, Len(h) = k - 1
  PROVE  Append(h, k) \in Seq(Nat) /\ Len(Append(h, k)) = k /\ InOrder(Append(h, k))
  BY DEF InOrder

\* A dispatch of the current step, which is reversible or was just approved,
\* preserves what the invariant says of the histories.
LEMMA DispatchInv ==
  ASSUME IInv, Dispatch, pc \in Before, at <= Len(book.steps),
         UNCHANGED <<book, supply, bound, at, strays, landed>>,
         approvals \subseteq approvals', approvals' \subseteq Nat,
         Current.irreversible => at \in approvals'
  PROVE  IInv'
<1>1. TypeOK'
  BY DEF IInv, TypeOK, Dispatch, Before, Position, StepStatuses
<1>2. EffectsInOrder' /\ Len(dispatched') = at
  BY AppendInOrder DEF IInv, TypeOK, EffectsInOrder, Dispatch, Position, InOrder
<1>3. Position' /\ Verdict'
  BY <1>2 DEF IInv, TypeOK, Dispatch, Position, Verdict, Before, Finished
<1>4. Consented'
  <2>1. at \in Nat \ {0} /\ at <= Len(book.steps)
    BY DEF IInv, TypeOK
  <2>2. \A k \in 1 .. at : k = at \/ k \in 1 .. Len(dispatched)
    BY <2>1 DEF IInv, Position
  <2> QED BY <1>2, <2>1, <2>2 DEF IInv, Consented, Current
<1>5. Audited'
  BY DEF IInv, TypeOK, Dispatch, Audited, Verdict, Before
<1> QED BY <1>1, <1>2, <1>3, <1>4, <1>5 DEF IInv

\* Where the executor stands when an await or a substitution ends the replay.
LEMMA LeaveInv ==
  ASSUME IInv, pc \notin Finished, pc' \in Finished, call' = "none",
         UNCHANGED <<book, at, dispatched, landed>>,
         strays' = strays \/ (call = "open" /\ strays' = strays \union {at})
  PROVE  Position'
<1>1. /\ at \in Nat \ {0} /\ at <= Len(book.steps) + 1 /\ strays = {}
      /\ Len(dispatched) \in {at - 1, at} /\ Len(landed) \in {at - 1, at}
      /\ Len(landed) <= Len(dispatched)
  BY DEF IInv, TypeOK, Position, Before, Finished
<1>2. call = "open" => at <= Len(book.steps) /\ Len(dispatched) = at /\ Len(landed) = at - 1
  BY DEF IInv, TypeOK, Position, Before, Finished
<1>3. strays' = {} \/ (call = "open" /\ strays' = {at})
  BY <1>1
<1> QED BY <1>1, <1>2, <1>3 DEF Position, Before, Finished

\* A return with a last result for the current step, or for the slots,
\* preserves the invariant when it reports no success; a rejection is
\* reported of a step that was not dispatched.
LEMMA StopInv ==
  ASSUME IInv, NEW i \in Nat, NEW status \in {"failed", "confirmation_rejected"},
         Stops(i, status), pc \notin Finished,
         status = "confirmation_rejected" => i = at /\ pc \in Before,
         UNCHANGED <<book, supply, bound, at, approvals, dispatched, landed>>,
         call' = "none",
         \/ strays' = strays
         \/ call = "open" /\ strays' = strays \union {at}
  PROVE  IInv'
<1>1. TypeOK'
  <2>1. results' \in Seq([step : Nat, status : StepStatuses]) /\ outcome' \in StepStatuses
    BY DEF IInv, TypeOK, Stops, StepStatuses
  <2>2. strays' \subseteq Nat /\ pc' = "returned"
    BY DEF IInv, TypeOK, Stops
  <2> QED BY <2>1, <2>2 DEF IInv, TypeOK
<1>2. EffectsInOrder' /\ Consented'
  BY DEF IInv, EffectsInOrder, InOrder, Consented
<1>3. Position'
  BY LeaveInv DEF Stops, Finished
<1>4. Verdict'
  BY DEF IInv, TypeOK, Stops, Position, Verdict, Before, Finished
<1>5. Audited'
  <2>1. \A k \in DOMAIN results' :
          \/ k \in DOMAIN results /\ results'[k] = results[k]
          \/ results'[k] = [step |-> i, status |-> status]
    BY DEF IInv, TypeOK, Stops
  <2>2. outcome = "none" /\ outcome' = status
    BY DEF IInv, TypeOK, Stops, Verdict, Finished
  <2> QED BY <2>1, <2>2 DEF IInv, Audited
<1> QED BY <1>1, <1>2, <1>3, <1>4, <1>5 DEF IInv

\* A step that takes effect right after all those before it preserves the
\* invariant, awaited or stray.
LEMMA LandInv ==
  ASSUME IInv, landed' = Append(landed, at), Len(landed) = at - 1,
         at <= Len(dispatched),
         UNCHANGED <<book, supply, bound, pc, at, results, outcome, approvals, dispatched>>,
         \/ pc = "running" /\ call' = "landed" /\ strays' = strays
         \/ pc \in Finished /\ call' = call /\ strays = {at} /\ strays' = {}
  PROVE  IInv'
<1>1. TypeOK'
  <2>1. at \in Nat /\ landed \in Seq(Nat)
    BY DEF IInv, TypeOK
  <2>2. landed' \in Seq(Nat)
    BY <2>1
  <2>3. strays' \subseteq Nat /\ call' \in {"none", "open", "landed"}
    BY DEF IInv, TypeOK
  <2> QED BY <2>2, <2>3 DEF IInv, TypeOK
<1>2. EffectsInOrder' /\ Len(landed') = at
  BY AppendInOrder DEF IInv, TypeOK, EffectsInOrder, InOrder
<1>3. Position' /\ Verdict'
  BY <1>2 DEF IInv, TypeOK, Position, Verdict, Before, Finished
<1>4. Consented' /\ Audited'
  BY DEF IInv, Consented, Audited
<1> QED BY <1>1, <1>2, <1>3, <1>4 DEF IInv

\* Every step of the executor, its runner and the world preserves the invariant.
LEMMA NextInv == IInv /\ [Next]_vars => IInv'
<1> SUFFICES ASSUME IInv, [Next]_vars PROVE IInv'
  OBVIOUS
<1>1. CASE ResolveFails
  <2>1. strays' = strays /\ call' = "none" /\ pc \in Before
    BY <1>1 DEF ResolveFails, IInv, Position, Before
  <2> QED BY <1>1, <2>1, StopInv DEF ResolveFails, Finished
<1>2. CASE Resolve
  BY <1>2 DEF Resolve, IInv, TypeOK, EffectsInOrder, InOrder, Position, Verdict, Consented,
              Audited, Before, Finished, Runbook, Supply
<1>3. CASE Complete
  BY <1>3 DEF Complete, IInv, TypeOK, EffectsInOrder, InOrder, Position, Verdict, Consented,
              Audited, Before, Finished, StepStatuses
<1>4. CASE SubstitutionFails
  <2>1. strays' = strays /\ call' = "none" /\ pc \in Before /\ at \in Nat
    BY <1>4 DEF SubstitutionFails, AtStep, IInv, TypeOK, Position, Before
  <2> QED BY <1>4, <2>1, StopInv DEF SubstitutionFails, AtStep, Finished
<1>5. CASE DispatchReversible
  BY <1>5, DispatchInv DEF DispatchReversible, AtStep, Before, IInv, TypeOK
<1>6. CASE RejectUnasked
  <2>1. strays' = strays /\ call' = "none" /\ pc \in Before /\ at \in Nat
    BY <1>6 DEF RejectUnasked, AtStep, IInv, TypeOK, Position, Before
  <2> QED BY <1>6, <2>1, StopInv DEF RejectUnasked, AtStep, Finished
<1>7. CASE AskGate
  BY <1>7 DEF AskGate, AtStep, IInv, TypeOK, EffectsInOrder, InOrder, Position, Verdict,
              Consented, Audited, Before, Finished
<1>8. ASSUME NEW answer \in Answers, GateAnswers(answer) PROVE IInv'
  <2>1. CASE answer = "True"
    BY <1>8, <2>1, DispatchInv
    DEF GateAnswers, Approved, IInv, TypeOK, Position, Before
  <2>2. CASE answer # "True"
    <3>1. strays' = strays /\ call' = "none" /\ pc \in Before /\ at \in Nat
          /\ approvals' = approvals
      BY <1>8, <2>2 DEF GateAnswers, Approved, IInv, TypeOK, Position, Before
    <3> QED BY <1>8, <2>2, <3>1, StopInv DEF GateAnswers, Approved, Finished
  <2> QED BY <2>1, <2>2
<1>9. CASE TakesEffect
  <2>1. pc = "running" /\ Len(landed) = at - 1 /\ Len(dispatched) = at
    BY <1>9 DEF TakesEffect, IInv, TypeOK, Position, Before, Finished
  <2> QED BY <1>9, <2>1, LandInv DEF TakesEffect, IInv, TypeOK
<1>10. ASSUME NEW i \in strays, StrayTakesEffect(i) PROVE IInv'
  <2>1. /\ pc \in Finished /\ strays = {at} /\ i = at
        /\ Len(landed) = at - 1 /\ Len(dispatched) = at
    BY <1>10 DEF StrayTakesEffect, IInv, TypeOK, Position, Before, Finished
  <2> QED BY <1>10, <2>1, LandInv DEF StrayTakesEffect, IInv, TypeOK
<1>11. CASE RunnerReturns
  <2>1. Len(landed) = at /\ Len(dispatched) = at /\ strays = {} /\ outcome = "none"
        /\ at \in Nat \ {0} /\ Len(results) = at - 1
    BY <1>11 DEF RunnerReturns, IInv, TypeOK, Position, Verdict, Audited
  <2>2. TypeOK'
    BY <1>11 DEF RunnerReturns, IInv, TypeOK, StepStatuses
  <2>3. EffectsInOrder' /\ Consented'
    BY <1>11 DEF RunnerReturns, IInv, EffectsInOrder, Consented
  <2>5. Position' /\ Verdict'
    BY <1>11, <2>1 DEF RunnerReturns, IInv, TypeOK, Position, Verdict, Before, Finished
  <2>4. Audited'
    <3>1. /\ results' = Append(results, [step |-> at, status |-> "succeeded"])
          /\ at' = at + 1 /\ outcome' = outcome
      BY <1>11 DEF RunnerReturns
    <3>2. results \in Seq([step : Nat, status : StepStatuses])
      BY DEF IInv, TypeOK
    <3>3. \A k \in DOMAIN results' :
            \/ k \in DOMAIN results /\ results'[k] = results[k]
            \/ results'[k] = [step |-> at, status |-> "succeeded"]
      BY <3>1, <3>2
    <3>4. Len(results') = at
      BY <2>1, <3>1, <3>2
    <3>5. \A k \in DOMAIN results : results[k].status = "succeeded" => results[k].step \in 1 .. (at - 1)
      BY DEF IInv, Audited
    <3>6. \A k \in DOMAIN results : results[k].status # "confirmation_rejected"
      BY <2>1 DEF IInv, Audited
    <3> QED BY <2>1, <3>1, <3>3, <3>4, <3>5, <3>6 DEF Audited
  <2> QED BY <2>2, <2>3, <2>4, <2>5 DEF IInv
<1>12. CASE RunnerRaises
  <2>1. strays' = strays /\ at \in Nat
    BY <1>12 DEF RunnerRaises, IInv, TypeOK
  <2> QED BY <1>12, <2>1, StopInv DEF RunnerRaises, Finished
<1>13. CASE RunnerTimesOut
  <2>1. at \in Nat /\ (strays' = strays \/ (call = "open" /\ strays' = strays \union {at}))
    BY <1>13 DEF RunnerTimesOut, LeftBehind, IInv, TypeOK
  <2> QED BY <1>13, <2>1, StopInv DEF RunnerTimesOut, Finished
<1>14. CASE Abandon
  <2>1. strays' = strays \/ (call = "open" /\ strays' = strays \union {at})
    BY <1>14 DEF Abandon, LeftBehind
  <2>2. TypeOK'
    BY <1>14, <2>1 DEF Abandon, IInv, TypeOK
  <2>3. Position' /\ Verdict'
    BY <1>14, <2>1, LeaveInv DEF Abandon, IInv, TypeOK, Verdict, Finished
  <2>4. EffectsInOrder' /\ Consented' /\ Audited'
    BY <1>14 DEF Abandon, IInv, EffectsInOrder, InOrder, Consented, Audited
  <2> QED BY <2>2, <2>3, <2>4 DEF IInv
<1>15. CASE UNCHANGED vars
  BY <1>15 DEF vars, IInv, TypeOK, EffectsInOrder, InOrder, Position, Verdict, Consented, Audited
<1> QED BY <1>1, <1>2, <1>3, <1>4, <1>5, <1>6, <1>7, <1>8, <1>9, <1>10, <1>11, <1>12, <1>13,
           <1>14, <1>15 DEF Next

\* The invariant holds in every reachable state of a replay.
THEOREM Invariant == Spec => []IInv
  BY InitInv, NextInv, PTL DEF Spec

\* Type correctness of the executor and its runner.
THEOREM TypeCorrect == Spec => []TypeOK
<1>1. IInv => TypeOK
  BY DEF IInv
<1> QED BY <1>1, Invariant, PTL

\* Each step is dispatched at most once, in schema order, and so takes effect,
\* even when a timed-out process is still at work after the replay is over.
THEOREM OrderSafe == Spec => []EffectsInOrder
<1>1. IInv => EffectsInOrder
  BY DEF IInv
<1> QED BY <1>1, Invariant, PTL

\* No irreversible step takes effect without the gate's True for that step.
THEOREM GateSafe == Spec => []IrreversibleWasApproved
<1>1. IInv => IrreversibleWasApproved
  <2> SUFFICES ASSUME IInv, NEW k \in DOMAIN landed
               PROVE  book.steps[landed[k]].irreversible => landed[k] \in approvals
    BY DEF IrreversibleWasApproved
  <2>1. landed[k] = k /\ k \in 1 .. Len(landed) /\ Len(landed) <= Len(dispatched)
    BY DEF IInv, TypeOK, EffectsInOrder, InOrder, Position, Before, Finished
  <2>2. Len(dispatched) \in Nat /\ Len(landed) \in Nat
    BY DEF IInv, TypeOK
  <2> QED BY <2>1, <2>2 DEF IInv, Consented
<1> QED BY <1>1, Invariant, PTL

\* What the results say of a step is what became of it.
THEOREM AuditSafe == Spec => []AuditIsTrue
<1>1. IInv => AuditIsTrue
  <2> SUFFICES ASSUME IInv PROVE AuditIsTrue
    OBVIOUS
  <2>1. at \in Nat /\ Len(landed) \in Nat /\ Len(landed) >= at - 1 /\ Len(book.steps) \in Nat
    BY DEF IInv, TypeOK, Position, Before, Finished, Runbook
  <2>2. ASSUME NEW k \in DOMAIN results
        PROVE  /\ results[k].status = "succeeded"
                    => \E n \in DOMAIN landed : landed[n] = results[k].step
               /\ results[k].status = "confirmation_rejected"
                    => \A n \in DOMAIN landed : landed[n] # results[k].step
    <3>1. DOMAIN landed = 1 .. Len(landed) /\ \A n \in DOMAIN landed : landed[n] = n
      BY DEF IInv, TypeOK, EffectsInOrder, InOrder
    <3>2. CASE results[k].status = "succeeded"
      BY <2>1, <2>2, <3>1, <3>2 DEF IInv, Audited
    <3>3. CASE results[k].status = "confirmation_rejected"
      BY <2>1, <2>2, <3>1, <3>3 DEF IInv, Audited, Verdict
    <3> QED BY <3>2, <3>3
  <2>3. outcome = "succeeded" => Len(landed) = Len(book.steps) /\ Len(results) = Len(book.steps)
    BY <2>1 DEF IInv, Verdict, Audited
  <2> QED BY <2>2, <2>3 DEF AuditIsTrue
<1> QED BY <1>1, Invariant, PTL

\* A call that does not resolve dispatches nothing and asks nobody.
THEOREM UnresolvedSafe == Spec => []UnresolvedReachesNobody
<1> DEFINE Stuck == ~Resolvable => dispatched = <<>> /\ pc \in {"called", "returned"}
<1>1. Init => Stuck
  BY DEF Init
<1>2. Stuck /\ [Next]_vars => Stuck'
  BY DEF Next, vars, Resolvable, Unknown, Missing, Mistyped, ResolveFails, Resolve, Complete,
         SubstitutionFails, DispatchReversible, RejectUnasked, AskGate, GateAnswers,
         TakesEffect, StrayTakesEffect, RunnerReturns, RunnerRaises, RunnerTimesOut,
         Abandon, AtStep, Stops, Dispatch
<1>3. Stuck => UnresolvedReachesNobody
  BY DEF UnresolvedReachesNobody, Resolvable
<1> QED BY <1>1, <1>2, <1>3, PTL DEF Spec

-----------------------------------------------------------------------------
\* Refinement

\* Steps that change neither the world, nor the consents, nor the outcome are
\* invisible to the person who asked for the replay.
LEMMA Invisible ==
  ASSUME UNCHANGED <<book, landed, approvals, outcome>>
  PROVE  UNCHANGED Promise!vars
  BY DEF Promise!vars

\* A step that takes effect is the next one, consented to if it must be, and
\* nothing has been reported after which none may follow.
LEMMA LandingKept ==
  ASSUME IInv, landed' = Append(landed, at), Len(landed) = at - 1, at <= Len(dispatched),
         strays = {at} \/ pc = "running",
         UNCHANGED <<book, approvals, outcome>>
  PROVE  Promise!TakeEffect
<1>1. at \in Nat \ {0} /\ Len(landed) + 1 = at /\ Len(landed') = Len(landed) + 1
  BY DEF IInv, TypeOK
<1>2. at \in 1 .. Len(dispatched)
  BY <1>1 DEF IInv, TypeOK
<1>3. at <= Len(book.steps) /\ (book.steps[at].irreversible => at \in approvals)
  BY <1>2 DEF IInv, Consented
<1>4. outcome \notin {"succeeded", "confirmation_rejected"}
  BY DEF IInv, Verdict
<1>5. Len(landed) < Len(book.steps)
  BY <1>1, <1>3 DEF IInv, TypeOK, Runbook
<1>6. book.steps[Len(landed) + 1].irreversible => Len(landed) + 1 \in approvals
  BY <1>1, <1>3
<1>7. (IF outcome = "confirmation_rejected" THEN "rejected" ELSE outcome)
        \notin {"succeeded", "rejected"}
  BY <1>4 DEF IInv, TypeOK, StepStatuses
<1>8. Len(landed)' = Len(landed) + 1
  BY <1>1
<1> QED BY <1>5, <1>6, <1>7, <1>8 DEF Promise!TakeEffect

\* The executor with its runner implements what ReplayPromise promises.
THEOREM KeepsPromise == Spec => ReplaySpec
<1>1. Init => Promise!Init
  BY DEF Init, Promise!Init
<1>2. IInv /\ [Next]_vars => [Promise!Next]_(Promise!vars)
  <2> SUFFICES ASSUME IInv, [Next]_vars PROVE [Promise!Next]_(Promise!vars)
    OBVIOUS
  <2>1. ASSUME NEW i \in Nat, NEW status \in {"failed", "confirmation_rejected"},
               Stops(i, status), pc \notin Finished, UNCHANGED <<book, landed, approvals>>
        PROVE  Promise!Next
    BY <2>1 DEF Stops, IInv, Verdict, Finished, Promise!Next, Promise!Report
  <2>2. CASE ResolveFails
    BY <2>1, <2>2 DEF ResolveFails, Finished
  <2>3. CASE Resolve \/ DispatchReversible \/ AskGate \/ RunnerReturns \/ Abandon
    BY <2>3, Invisible DEF Resolve, DispatchReversible, Dispatch, AskGate, RunnerReturns, Abandon
  <2>4. CASE Complete
    <3>1. outcome = "none" /\ at \in Nat /\ Len(landed) = at - 1 /\ at <= Len(book.steps) + 1
          /\ Len(book.steps) \in Nat
      BY <2>4 DEF Complete, IInv, TypeOK, Verdict, Position, Before, Runbook
    <3> QED BY <2>4, <3>1 DEF Complete, Promise!Next, Promise!Report
  <2>5. CASE SubstitutionFails \/ RejectUnasked
    BY <2>1, <2>5 DEF SubstitutionFails, RejectUnasked, AtStep, Finished, IInv, TypeOK
  <2>6. ASSUME NEW answer \in Answers, GateAnswers(answer) PROVE Promise!Next
    <3>1. CASE answer = "True"
      <4>1. outcome = "none" /\ outcome' = "none" /\ Len(landed) + 1 = at
        BY <2>6, <3>1
        DEF GateAnswers, Approved, Dispatch, IInv, TypeOK, Verdict, Position, Before
      <4>2. approvals' = approvals \union {at} /\ UNCHANGED <<book, landed>>
        BY <2>6, <3>1 DEF GateAnswers
      <4> QED BY <4>1, <4>2 DEF Promise!Next, Promise!Consent
    <3>2. CASE answer # "True"
      BY <2>1, <2>6, <3>2 DEF GateAnswers, Approved, Finished, IInv, TypeOK
    <3> QED BY <3>1, <3>2
  <2>7. CASE TakesEffect
    <3>1. pc = "running" /\ Len(landed) = at - 1 /\ at <= Len(dispatched)
      BY <2>7 DEF TakesEffect, IInv, TypeOK, Position, Before, Finished
    <3> QED BY <2>7, <3>1, LandingKept DEF TakesEffect, Promise!Next
  <2>8. ASSUME NEW i \in strays, StrayTakesEffect(i) PROVE Promise!Next
    <3>1. strays = {at} /\ i = at /\ Len(landed) = at - 1 /\ at <= Len(dispatched)
      BY <2>8 DEF StrayTakesEffect, IInv, TypeOK, Position, Before, Finished
    <3> QED BY <2>8, <3>1, LandingKept DEF StrayTakesEffect, Promise!Next
  <2>9. CASE RunnerRaises \/ RunnerTimesOut
    BY <2>1, <2>9 DEF RunnerRaises, RunnerTimesOut, Finished, IInv, TypeOK
  <2>10. CASE UNCHANGED vars
    BY <2>10, Invisible DEF vars
  <2> QED BY <2>2, <2>3, <2>4, <2>5, <2>6, <2>7, <2>8, <2>9, <2>10 DEF Next
<1> QED BY <1>1, <1>2, Invariant, PTL DEF Spec, ReplaySpec, Promise!Spec

-----------------------------------------------------------------------------
(***************************************************************************)
(* Learning.  The inductive invariant LearningInv says what is kept of the *)
(* search: its two branches are about the request, the store holds at most *)
(* the one runbook that the vocabulary can give, which is what the winner  *)
(* is distilled to, and every runbook that is kept or being filled in is   *)
(* Sound.  That it is what the last two theorems need is in the lemmas     *)
(* about the distiller: what was lifted, what survives, what is written    *)
(* back.                                                                   *)
(***************************************************************************)
\* The smaller of two numbers, as a relation: it is well founded.
Precedes == OpToRel(<, Nat)

LEMMA PrecedesIsLess == \A i \in Nat, j \in Nat : <<i, j>> \in Precedes <=> i < j
  BY DEF OpToRel, Precedes

LEMMA PrecedesWellFounded == IsWellFoundedOn(Precedes, Nat)
  BY NatLessThanWellFounded DEF Precedes

\* A set of places has a first one.
LEMMA First ==
  ASSUME NEW S, S \subseteq Nat, S # {}
  PROVE  Min(S) \in S /\ \A k \in S : Min(S) <= k
<1>1. PICK m \in S : \A k \in S : ~(<<k, m>> \in Precedes)
  BY WFMin, PrecedesWellFounded
<1>2. ASSUME NEW k \in S PROVE m <= k
  <2>1. <<k, m>> \in Precedes <=> k < m
    BY PrecedesIsLess
  <2>2. ~(<<k, m>> \in Precedes)
    BY <1>1
  <2> QED BY <2>1, <2>2
<1>3. \E x \in S : \A y \in S : x <= y
  BY <1>2
<1> QED BY <1>3 DEF Min

-----------------------------------------------------------------------------
\* The vocabulary's slots have names of their own and types the schema knows.
LEMMA VocabularySlots ==
  /\ DOMAIN Vocabulary.slots = 1..5
  /\ \A n \in 1..5 : Vocabulary.slots[n].type \in SlotTypes
  /\ \A n, m \in 1..5 : Vocabulary.slots[n].name = Vocabulary.slots[m].name => n = m
  /\ Vocabulary.id # ""
<1> DEFINE V == Vocabulary.slots
<1>1. V = << [name |-> "party_size", type |-> "integer"],
                  [name |-> "cuisine", type |-> "string"],
                  [name |-> "city", type |-> "string"],
                  [name |-> "date", type |-> "string"],
                  [name |-> "time", type |-> "string"] >>
      /\ Vocabulary.id # ""
  BY DEF Vocabulary
<1> HIDE DEF V
<1>2. DOMAIN V = 1..5
  <2>1. \A a, b, c, d, e : DOMAIN <<a, b, c, d, e>> = 1..5
    OBVIOUS
  <2> QED BY <1>1, <2>1
<1>3. \A n \in 1..5 : n = 1 \/ n = 2 \/ n = 3 \/ n = 4 \/ n = 5
  OBVIOUS
<1>4. V[1].name = "party_size" /\ V[2].name = "cuisine" /\ V[3].name = "city"
      /\ V[4].name = "date" /\ V[5].name = "time"
      /\ V[1].type = "integer" /\ V[2].type = "string" /\ V[3].type = "string"
      /\ V[4].type = "string" /\ V[5].type = "string"
  BY <1>1
<1>5. \A n \in 1..5 : V[n].type \in SlotTypes
  BY <1>3, <1>4 DEF SlotTypes
<1>6. \A n, m \in 1..5 : V[n].name = V[m].name => n = m
  BY <1>3, <1>4
<1> QED BY <1>1, <1>2, <1>5, <1>6 DEF V

\* What is lifted are slots of the vocabulary, all of them to be asked for.
LiftedSlots(slots) ==
  /\ DOMAIN slots \subseteq 1..5
  /\ \A n \in DOMAIN slots :
       \E example : slots[n] = Declared(Vocabulary.slots[n], example)

LEMMA DeclaredFields ==
  ASSUME NEW slot, NEW example
  PROVE  /\ Declared(slot, example).name = slot.name
         /\ Declared(slot, example).type = slot.type
         /\ Asked(Declared(slot, example))
  BY DEF Declared, Asked

LEMMA DeclaredRewritten ==
  ASSUME NEW slot, NEW example
  PROVE  WithoutExample(Declared(slot, example)) = Declared(slot, "none")
  BY DEF Declared, WithoutExample

LEMMA EvidenceIsLifted == ASSUME NEW t PROVE LiftedSlots(Evidence(t))
<1> DEFINE steps == SurvivingSteps(t.steps)
           written == WrittenValues(steps)
<1>1. LiftedSlots(LiftFromRequest(t.task))
  BY VocabularySlots DEF LiftedSlots, LiftFromRequest
<1>2. LiftedSlots(LiftSlots(t.task, written))
  <2> HIDE DEF written
  <2> QED BY VocabularySlots DEF LiftedSlots, LiftSlots, Lifted
<1>3. LiftedSlots(<<>>)
  BY DEF LiftedSlots
<1>4. \/ Evidence(t) = LiftFromRequest(t.task)
      \/ Evidence(t) = LiftSlots(t.task, written)
      \/ Evidence(t) = <<>>
  BY DEF Evidence
<1> QED BY <1>1, <1>2, <1>3, <1>4

-----------------------------------------------------------------------------
\* A runbook whose every step can be substituted once its questions are answered.
Sound(skill) == Loads(skill) /\ SelfContained(skill)

\* The names, types and flags of a document's slots, and its steps, make it sound;
\* its examples have no part in it.
LEMMA LiftedIsSound ==
  ASSUME NEW skill, LiftedSlots(skill.slots), skill.id = Vocabulary.id, skill.version = "1",
         \/ skill.steps = <<Find(skill.slots), Commit(skill.slots)>>
         \/ skill.steps = <<Find(skill.slots), Choose(skill.slots), Commit(skill.slots)>>
  PROVE  Sound(skill)
<1>0. DOMAIN skill.slots \subseteq 1..5
  BY DEF LiftedSlots
<1>1. \A d \in Range(skill.slots) : d.type \in SlotTypes /\ Asked(d)
  <2> TAKE d \in Range(skill.slots)
  <2>1. PICK n \in DOMAIN skill.slots : d = skill.slots[n]
    BY DEF Range
  <2>2. n \in 1..5 /\ d.type = Vocabulary.slots[n].type /\ Asked(d)
    BY <1>0, <2>1, DeclaredFields DEF LiftedSlots
  <2> QED BY <2>2, VocabularySlots
<1>2. \A i, j \in DOMAIN skill.slots : skill.slots[i].name = skill.slots[j].name => i = j
  <2>1. \A n \in DOMAIN skill.slots : skill.slots[n].name = Vocabulary.slots[n].name
    BY DeclaredFields DEF LiftedSlots
  <2> QED BY <1>0, <2>1, VocabularySlots
<1>3. Arguments(skill.slots) = SlotNames(skill)
  BY DEF Arguments, SlotNames, Range
<1>4. \A s \in {Find(skill.slots), Choose(skill.slots), Commit(skill.slots)} :
        /\ s.id # "" /\ s.action # ""
        /\ s.arguments \cup s.prompt \subseteq SlotNames(skill)
  <2> DEFINE a == Arguments(skill.slots)
  <2> HIDE DEF a
  <2>1. a = SlotNames(skill)
    BY <1>3 DEF a
  <2>2. /\ Find(skill.slots) = [id |-> "search", action |-> "restaurant.search",
                              irreversible |-> FALSE, arguments |-> a, prompt |-> {}]
        /\ Choose(skill.slots) = [id |-> "select", action |-> "restaurant.select",
                   irreversible |-> FALSE, arguments |-> a \cap {"time"}, prompt |-> {}]
        /\ Commit(skill.slots) = [id |-> "book", action |-> "restaurant.book",
                                irreversible |-> TRUE, arguments |-> a, prompt |-> a]
    BY DEF Find, Choose, Commit, ConfirmationPrompt, a
  <2> TAKE s \in {Find(skill.slots), Choose(skill.slots), Commit(skill.slots)}
  <2>3. CASE s = Find(skill.slots)
    BY <2>1, <2>2, <2>3
  <2>4. CASE s = Choose(skill.slots)
    BY <2>1, <2>2, <2>4
  <2>5. CASE s = Commit(skill.slots)
    BY <2>1, <2>2, <2>5
  <2> QED BY <2>3, <2>4, <2>5
<1>5. /\ Find(skill.slots).id = "search" /\ Choose(skill.slots).id = "select"
      /\ Commit(skill.slots).id = "book"
  BY DEF Find, Choose, Commit
<1> DEFINE f == Find(skill.slots)
           c == Choose(skill.slots)
           b == Commit(skill.slots)
<1>6. f.id # c.id /\ f.id # b.id /\ c.id # b.id
  BY <1>5
<1> HIDE DEF f, c, b
<1>7. /\ Range(skill.steps) \subseteq {f, c, b}
      /\ \A i, j \in DOMAIN skill.steps : skill.steps[i].id = skill.steps[j].id => i = j
  <2>1. CASE skill.steps = <<f, b>>
    BY <1>6, <2>1 DEF Range
  <2>2. CASE skill.steps = <<f, c, b>>
    BY <1>6, <2>2 DEF Range
  <2> QED BY <2>1, <2>2 DEF f, c, b
<1>8. \A s \in Range(skill.steps) :
        /\ s.id # "" /\ s.action # ""
        /\ s.arguments \cup s.prompt \subseteq SlotNames(skill)
  BY <1>4, <1>7 DEF f, c, b
<1>9. Loads(skill)
  BY <1>1, <1>2, <1>7, <1>8, VocabularySlots DEF Loads
<1>10. SelfContained(skill)
  <2>1. DOMAIN skill.slots \subseteq Nat
    BY <1>0
  <2> QED BY <1>1, <1>8, <2>1 DEF SelfContained
<1> QED BY <1>9, <1>10 DEF Sound

\* What was not refused is the assembled document, and something was lifted.
LEMMA Distilled ==
  ASSUME NEW t, Distill(t) # Refused
  PROVE  Distill(t) = Assemble(t) /\ DOMAIN Evidence(t) # {}
<1>1. /\ Winning(t) /\ Claims(t.task)
      /\ DOMAIN SurvivingSteps(t.steps) # {}
      /\ DOMAIN Evidence(t) # {}
      /\ Verified(Assemble(t))
  BY SMT DEF Distill
<1>2. Distill(t) = Assemble(t)
  BY <1>1, SMT DEF Distill
<1> QED BY <1>1, <1>2

\* What is written back keeps its slots but for their examples, and its steps.
LEMMA WrittenBackFields ==
  ASSUME NEW skill
  PROVE  /\ DOMAIN WrittenBack(skill).slots = DOMAIN skill.slots
         /\ \A n \in DOMAIN skill.slots :
              WrittenBack(skill).slots[n] = WithoutExample(skill.slots[n])
         /\ WrittenBack(skill).id = skill.id
         /\ WrittenBack(skill).version = skill.version
         /\ WrittenBack(skill).steps = skill.steps
  BY SMT DEF WrittenBack

\* The document that was lifted is written back as one of the same slot names.
Lifts(skill) ==
  /\ LiftedSlots(skill.slots) /\ skill.id = Vocabulary.id /\ skill.version = "1"
  /\ \/ skill.steps = <<Find(skill.slots), Commit(skill.slots)>>
     \/ skill.steps = <<Find(skill.slots), Choose(skill.slots), Commit(skill.slots)>>

LEMMA WrittenBackLifts ==
  ASSUME NEW skill, Lifts(skill), NEW back, back = WrittenBack(skill)
  PROVE  Lifts(back) /\ Arguments(back.slots) = Arguments(skill.slots)
<1>1. /\ DOMAIN back.slots = DOMAIN skill.slots
      /\ \A n \in DOMAIN skill.slots : back.slots[n] = WithoutExample(skill.slots[n])
      /\ back.id = skill.id /\ back.version = skill.version /\ back.steps = skill.steps
  BY WrittenBackFields
<1>2. \A n \in DOMAIN skill.slots :
        /\ back.slots[n] = Declared(Vocabulary.slots[n], "none")
        /\ back.slots[n].name = skill.slots[n].name
  <2> TAKE n \in DOMAIN skill.slots
  <2>1. PICK example : skill.slots[n] = Declared(Vocabulary.slots[n], example)
    BY DEF Lifts, LiftedSlots
  <2>2. back.slots[n] = Declared(Vocabulary.slots[n], "none")
    BY <1>1, <2>1, DeclaredRewritten
  <2> QED BY <2>1, <2>2, DeclaredFields
<1>3. LiftedSlots(back.slots)
  BY <1>1, <1>2 DEF Lifts, LiftedSlots
<1>4. Arguments(back.slots) = Arguments(skill.slots)
  BY <1>1, <1>2 DEF Arguments
<1>5. /\ Find(back.slots) = Find(skill.slots) /\ Choose(back.slots) = Choose(skill.slots)
      /\ Commit(back.slots) = Commit(skill.slots)
  BY <1>4 DEF Find, Choose, Commit, ConfirmationPrompt
<1> QED BY <1>1, <1>3, <1>4, <1>5 DEF Lifts

LEMMA LiftsIsSound ==
  ASSUME NEW skill, Lifts(skill)
  PROVE  /\ Sound(skill) /\ skill.id = Vocabulary.id
         /\ SlotNames(skill) = Arguments(skill.slots)
<1>1. Sound(skill) /\ skill.id = Vocabulary.id
  BY LiftedIsSound DEF Lifts
<1>2. SlotNames(skill) = Arguments(skill.slots)
  BY DEF SlotNames, Arguments, Range
<1> QED BY <1>1, <1>2

\* A document is remembered with the slots that were lifted, as a sound runbook.
LEMMA RememberedIsSound ==
  ASSUME NEW t, Distill(t) # Refused
  PROVE  /\ Sound(Remembered(Distill(t)))
         /\ Remembered(Distill(t)).id = Vocabulary.id
         /\ SlotNames(Remembered(Distill(t))) = Arguments(Evidence(t))
<1> DEFINE doc == Assemble(t)
           back == WrittenBack(doc)
<1>1. doc.slots = Evidence(t) /\ doc.id = Vocabulary.id /\ doc.version = "1"
  BY SMT DEF Assemble
<1>2. \/ doc.steps = <<Find(Evidence(t)), Commit(Evidence(t))>>
      \/ doc.steps = <<Find(Evidence(t)), Choose(Evidence(t)), Commit(Evidence(t))>>
  BY SMT DEF Assemble
<1> HIDE DEF doc
<1>3. Lifts(doc)
  BY <1>1, <1>2, EvidenceIsLifted DEF Lifts
<1>4. Lifts(back) /\ Arguments(back.slots) = Arguments(doc.slots)
  BY <1>3, WrittenBackLifts
<1>5. Remembered(doc) = doc \/ Remembered(doc) = back
  BY DEF Remembered, back
<1> HIDE DEF back
<1>6. \A b : Lifts(b) =>
        Sound(b) /\ b.id = Vocabulary.id /\ SlotNames(b) = Arguments(b.slots)
  BY LiftsIsSound
<1>7. Distill(t) = doc
  BY Distilled DEF doc
<1> QED BY <1>1, <1>3, <1>4, <1>5, <1>6, <1>7

-----------------------------------------------------------------------------
\* The inductive invariant.  Of every way that searches: what is stored, matched and
\* filled in is sound, and of the vocabulary's id there is at most one runbook, the last;
\* the branches that were searched are about the request; and what was learned last is
\* the winner's runbook.
Kept(books) ==
  /\ IsList(books)
  /\ \A i \in DOMAIN books : Sound(books[i])
  /\ \A i \in DOMAIN books : books[i].id = Vocabulary.id => i = Len(books)

IsBranch(t) ==
  \E branch, below, steps, ending :
    IsList(steps) /\ t = Trajectory(branch, below, steps, ending)

BranchesOfRequest ==
  stage \in {"searched", "judged", "learned"} =>
    /\ DOMAIN branches = 1..2
    /\ \A i \in 1..2 : IsBranch(branches[i])

WinnerIsBranch == stage \in {"judged", "learned"} => winner \in 1..2

LearnedFromWinner ==
  stage = "learned" =>
    /\ Distill(WinningPath) # Refused
    /\ store[Len(store)] = Remembered(Distill(WinningPath))

FillingSound ==
  /\ stage \in {"filling", "form"} => Sound(matched)
  /\ stage = "filling" => Prefills(matched, values)

NothingFails == stage \notin {"unloadable", "unresolved", "stranded"}

NeverJoined == stage \notin {"searched", "judged", "learned", "filling", "form"}

Searching == {"assistant", "parent", "artifact"}

LearnerInv ==
  /\ Kept(store) /\ BranchesOfRequest /\ WinnerIsBranch
  /\ LearnedFromWinner /\ FillingSound /\ NothingFails

LearningInv ==
  \/ learner = "join" /\ NeverJoined
  \/ learner \in Searching /\ LearnerInv

\* The matcher answers with one of the runbooks it was given, or with none.
LEMMA MatchIsOne ==
  ASSUME NEW utterance, NEW books, Match(utterance, books) # NoRunbook
  PROVE  \E i \in DOMAIN books : Match(utterance, books) = books[i]
<1> DEFINE scores == [i \in DOMAIN books |-> Score(Tokens(utterance), Tokens(Text(books[i])))]
<1>1. Best(scores) \subseteq DOMAIN books
  <2>1. DOMAIN scores = DOMAIN books
    OBVIOUS
  <2> HIDE DEF scores
  <2> QED BY <2>1 DEF Best
<1>2. /\ Best(scores) # {}
      /\ Match(utterance, books) = books[CHOOSE i \in Best(scores) : TRUE]
  BY SMT DEF Match, MatchTokens
<1>3. (CHOOSE i \in Best(scores) : TRUE) \in Best(scores)
  BY <1>2
<1> QED BY <1>1, <1>2, <1>3

\* What is looked up in the store, or in what is listed of it, is sound.
LEMMA LookedUp ==
  ASSUME Kept(store), NEW u, NEW books, books = store \/ books = Listed,
         NEW found, found = Match(u, books), found # NoRunbook
  PROVE  Sound(found)
<1>1. PICK i \in DOMAIN books : found = books[i]
  BY MatchIsOne
<1>2. i \in DOMAIN store /\ books[i] = store[i]
  BY DEF Listed
<1> QED BY <1>1, <1>2 DEF Kept

\* A runbook of the vocabulary's id takes the place of the one that is there, or comes last.
LEMMA UpsertedKept ==
  ASSUME Kept(store), NEW skill, Sound(skill), skill.id = Vocabulary.id,
         NEW after, after = Upserted(skill)
  PROVE  Kept(after) /\ after[Len(after)] = skill
<1>1. IsList(store)
  BY DEF Kept
<1>2. CASE \E i \in DOMAIN store : store[i].id = skill.id
  <2>1. PICK k \in DOMAIN store : store[k].id = skill.id
    BY <1>2
  <2>2. k = Len(store)
    BY <2>1 DEF Kept
  <2>3. \A i \in DOMAIN store : store[i].id = skill.id <=> i = k
    BY <2>1, <2>2 DEF Kept
  <2>4. after = [i \in DOMAIN store |-> IF store[i].id = skill.id THEN skill ELSE store[i]]
    BY <1>2 DEF Upserted
  <2>5. /\ DOMAIN after = DOMAIN store /\ after[k] = skill
        /\ \A i \in DOMAIN store : i # k => after[i] = store[i]
    BY <2>1, <2>3, <2>4
  <2>6. Len(after) = Len(store)
    BY <1>1, <2>5 DEF IsList
  <2>7. IsList(after)
    BY <1>1, <2>5, <2>6 DEF IsList
  <2>8. \A i \in DOMAIN after : Sound(after[i]) /\ (after[i].id = Vocabulary.id => i = Len(after))
    BY <2>2, <2>5, <2>6 DEF Kept
  <2> QED BY <2>2, <2>5, <2>6, <2>7, <2>8 DEF Kept
<1>3. CASE ~ \E i \in DOMAIN store : store[i].id = skill.id
  <2>1. after = Append(store, skill)
    BY <1>3 DEF Upserted
  <2>2. /\ Len(after) = Len(store) + 1 /\ DOMAIN after = 1..Len(store) + 1
        /\ after[Len(store) + 1] = skill
        /\ \A i \in DOMAIN store : after[i] = store[i]
    BY <1>1, <2>1 DEF IsList
  <2>3. IsList(after)
    BY <1>1, <2>2 DEF IsList
  <2>4. ASSUME NEW i \in DOMAIN after
        PROVE  Sound(after[i]) /\ (after[i].id = Vocabulary.id => i = Len(after))
    <3>1. i = Len(after) \/ i \in DOMAIN store
      BY <1>1, <2>2 DEF IsList
    <3> QED BY <1>3, <2>2, <3>1 DEF Kept
  <2> QED BY <2>2, <2>3, <2>4 DEF Kept
<1> QED BY <1>2, <1>3

\* The trajectory that is distilled is about the request, and its steps are a list.
LEMMA WinningPathOfRequest ==
  ASSUME BranchesOfRequest, WinnerIsBranch, stage \in {"judged", "learned"}
  PROVE  WinningPath.task = request /\ IsList(WinningPath.steps)
<1>1. winner \in 1..2
  BY DEF WinnerIsBranch
<1>2. PICK branch, below, steps, ending :
        IsList(steps) /\ branches[winner] = Trajectory(branch, below, steps, ending)
  BY <1>1 DEF BranchesOfRequest, IsBranch
<1>3. IsList(branches[1].steps)
  <2>1. \E b, l, s, e : IsList(s) /\ branches[1] = Trajectory(b, l, s, e)
    BY DEF BranchesOfRequest, IsBranch
  <2>2. \A b, l, s, e : Trajectory(b, l, s, e).steps = s
    BY DEF Trajectory
  <2> QED BY <2>1, <2>2
<1> DEFINE first == branches[1].steps
           won == [branch |-> branch, below |-> below, task |-> request, steps |-> steps,
                   success |-> ending # "no success", error |-> ending = "died",
                   answered |-> ending # "no answer"]
<1>4. branches[winner] = won
  BY <1>2 DEF Trajectory
<1> HIDE DEF first
<1>5. WinningPath = won \/ WinningPath = [won EXCEPT !.steps = first \o steps]
  <2>1. CASE ~branches[winner].below
    <3>1. WinningPath = branches[winner]
      BY <2>1 DEF WinningPath
    <3> QED BY <1>4, <3>1
  <2>2. CASE branches[winner].below
    <3>1. WinningPath = [branches[winner] EXCEPT
                           !.steps = branches[1].steps \o branches[winner].steps]
      BY <2>2 DEF WinningPath
    <3>2. branches[winner].steps = steps
      <4>1. \A b, l, s, e : Trajectory(b, l, s, e).steps = s
        BY DEF Trajectory
      <4> QED BY <1>2, <4>1
    <3> QED BY <1>4, <3>1, <3>2 DEF first
  <2> QED BY <2>1, <2>2
<1>6. IsList(first \o steps)
  BY <1>2, <1>3 DEF IsList, first
<1>7. won.task = request /\ won.steps = steps
  OBVIOUS
<1>8. [won EXCEPT !.steps = first \o steps].task = request
  OBVIOUS
<1>9. [won EXCEPT !.steps = first \o steps].steps = first \o steps
  OBVIOUS
<1> QED BY <1>2, <1>5, <1>6, <1>7, <1>8, <1>9

-----------------------------------------------------------------------------
\* What may be recorded is a list.
LEMMA RecordedIsList ==
  /\ \A way \in Searching :
       \A steps \in BoundedSeq(Steps, MaxSteps[way]) : IsList(steps)
  /\ \A steps \in BoundedSeq(Steps, LaterSteps) : IsList(steps)
  /\ \A other \in OtherWins : IsList(other.steps)
<1>1. ASSUME NEW n \in Nat, NEW steps \in BoundedSeq(Steps, n) PROVE IsList(steps)
  <2>1. PICK m \in 0..n : steps \in [1..m -> Steps]
    BY DEF BoundedSeq, SeqOf
  <2>2. steps \in Seq(Steps)
    BY <2>1
  <2> QED BY <2>2 DEF IsList
<1>2. \A way \in Searching : MaxSteps[way] \in Nat
  BY StepsAssumption, CatalogueAssumption DEF Searching
<1> QED BY <1>1, <1>2, StepsAssumption

LEMMA InitSound == EveryInit => LearningInv
<1> SUFFICES ASSUME EveryInit PROVE LearningInv
  OBVIOUS
<1>1. stage = "asked"
  BY DEF EveryInit, LearningInit, ConsoleInit, Fresh
<1>2. learner = "join" \/ (learner \in Searching /\ Kept(store))
  <2>1. CASE LearningInit
    <3>1. learner \in Learners /\ store = <<>>
      BY <2>1 DEF LearningInit, Fresh
    <3>2. Kept(<<>>)
      BY DEF Kept, IsList
    <3> QED BY <3>1, <3>2 DEF Learners, Searching
  <2>2. CASE ConsoleInit
    <3>1. learner \in {"parent", "artifact"} /\ store \in Catalogues
      BY <2>2 DEF ConsoleInit, Fresh
    <3>2. Kept(store)
      BY <3>1, CatalogueAssumption DEF Kept, Sound
    <3> QED BY <3>1, <3>2 DEF Searching
  <2> QED BY <2>1, <2>2 DEF EveryInit
<1> QED BY <1>1, <1>2 DEF LearningInv, LearnerInv, BranchesOfRequest, WinnerIsBranch,
               LearnedFromWinner, FillingSound, NothingFails, NeverJoined

\* Whoever searches keeps the invariant by every step.
LEMMA PairOfTwo ==
  ASSUME NEW pair, NEW a, NEW b, pair = <<a, b>>
  PROVE  DOMAIN pair = 1..2 /\ \A i \in 1..2 : pair[i] \in {a, b}
<1>1. \A i \in 1..2 : i = 1 \/ i = 2
  OBVIOUS
<1>2. DOMAIN pair = 1..2
  OBVIOUS
<1>3. pair[1] = a /\ pair[2] = b
  OBVIOUS
<1> QED BY <1>1, <1>2, <1>3

LEMMA SearchSound ==
  ASSUME LearnerInv, Search, learner \in Searching
  PROVE  LearnerInv'
<1>1. /\ stage' = "searched"
      /\ UNCHANGED <<learner, request, winner, store, learned, matched, values>>
  BY DEF Search
<1>2. \E a, b : branches' = <<a, b>> /\ IsBranch(a)' /\ IsBranch(b)'
  <2>1. PICK steps \in BoundedSeq(Steps, IF learned = Nobody THEN MaxSteps[learner] ELSE LaterSteps),
             other \in OtherWins, ending \in {"won", "no success", "died", "no answer"} :
          branches' = <<Trajectory("b0", FALSE, steps, ending),
                        Trajectory("b1", other.below, other.steps, other.ending)>>
    BY DEF Search
  <2>2. IsList(steps) /\ IsList(other.steps)
    <3>1. CASE learned = Nobody
      BY <3>1, RecordedIsList
    <3>2. CASE learned # Nobody
      BY <3>2, RecordedIsList
    <3> QED BY <3>1, <3>2
  <2>3. \A b, l, s, e : Trajectory(b, l, s, e)' = Trajectory(b, l, s, e)
    BY <1>1 DEF Trajectory
  <2>4. /\ IsBranch(Trajectory("b0", FALSE, steps, ending))'
        /\ IsBranch(Trajectory("b1", other.below, other.steps, other.ending))'
    BY <2>2, <2>3 DEF IsBranch
  <2> QED BY <2>1, <2>3, <2>4
<1>3. BranchesOfRequest'
  <2>1. PICK a, b : branches' = <<a, b>> /\ IsBranch(a)' /\ IsBranch(b)'
    BY <1>2
  <2>2. DOMAIN branches' = 1..2 /\ \A i \in 1..2 : branches'[i] \in {a, b}
    BY <2>1, PairOfTwo
  <2> QED BY <2>1, <2>2 DEF BranchesOfRequest
<1> QED BY <1>1, <1>3 DEF LearnerInv, WinnerIsBranch, LearnedFromWinner,
               FillingSound, NothingFails

LEMMA JudgeSound ==
  ASSUME LearnerInv, Judge \/ JudgeFails \/ Pick \/ Refuse
  PROVE  LearnerInv'
<1>1. UNCHANGED <<learner, request, branches, store, learned, matched, values>>
  BY DEF Judge, JudgeFails, Pick, Refuse
<1>2. \/ stage' \in {"failed", "refused"}
      \/ stage = "searched" /\ stage' = "judged" /\ winner' \in DOMAIN branches
  BY DEF Judge, JudgeFails, Pick, Refuse
<1>3. \A t : IsBranch(t)' = IsBranch(t)
  BY <1>1 DEF IsBranch, Trajectory
<1>4. BranchesOfRequest'
  BY <1>1, <1>2, <1>3 DEF LearnerInv, BranchesOfRequest
<1>5. WinnerIsBranch'
  BY <1>1, <1>2 DEF LearnerInv, WinnerIsBranch, BranchesOfRequest
<1> QED BY <1>1, <1>2, <1>4, <1>5 DEF LearnerInv, LearnedFromWinner, FillingSound,
                                     NothingFails

LEMMA SaveSound ==
  ASSUME LearnerInv, Save
  PROVE  LearnerInv'
<1> DEFINE document == Distill(WinningPath)
<1>1. /\ stage = "judged" /\ stage' = "learned"
      /\ document # Refused
      /\ store' = Upserted(Remembered(document))
      /\ UNCHANGED <<learner, request, branches, winner, matched, values>>
  BY DEF Save
<1>2. document' = document /\ Remembered(document)' = Remembered(document)
  BY <1>1 DEF Remembered, WinningPath
<1>3. Sound(Remembered(document)) /\ Remembered(document).id = Vocabulary.id
  BY <1>1, RememberedIsSound
<1> HIDE DEF document
<1>4. Kept(store') /\ store'[Len(store')] = Remembered(document)
  BY <1>1, <1>3, UpsertedKept DEF LearnerInv
<1>5. Kept(store)'
  BY <1>4
<1>6. \A t : IsBranch(t)' = IsBranch(t)
  BY <1>1 DEF IsBranch, Trajectory
<1>7. BranchesOfRequest' /\ WinnerIsBranch'
  BY <1>1, <1>6 DEF LearnerInv, BranchesOfRequest, WinnerIsBranch
<1>8. LearnedFromWinner'
  BY <1>1, <1>2, <1>4 DEF LearnedFromWinner, document
<1> QED BY <1>1, <1>5, <1>7, <1>8 DEF LearnerInv, FillingSound, NothingFails

LEMMA AskAgainSound ==
  ASSUME LearnerInv, AskAgain
  PROVE  LearnerInv'
  BY DEF LearnerInv, AskAgain, BranchesOfRequest, WinnerIsBranch, LearnedFromWinner,
         FillingSound, NothingFails

LEMMA WarmSound ==
  ASSUME LearnerInv, Warm
  PROVE  LearnerInv'
<1>1. /\ UNCHANGED <<learner, request, branches, winner, store, learned>>
      /\ matched' = Lookup(request) /\ matched' # NoRunbook
  BY DEF Warm
<1>2. Sound(matched')
  BY <1>1, LookedUp DEF LearnerInv, Lookup
<1>3. \/ stage' = "rejected"
      \/ stage' = "filling" /\ Prefills(matched', values')
  BY <1>2 DEF Warm, Sound
<1> QED BY <1>1, <1>2, <1>3 DEF LearnerInv, BranchesOfRequest, WinnerIsBranch,
               LearnedFromWinner, FillingSound, NothingFails
-----------------------------------------------------------------------------
\* What a sound runbook's questions are answered with is admitted.
LEMMA DefinitionOf ==
  ASSUME NEW skill, Loads(skill), NEW i \in DOMAIN skill.slots
  PROVE  Definition(skill, skill.slots[i].name) = skill.slots[i]
<1> DEFINE name == skill.slots[i].name
           d == Definition(skill, name)
<1>1. d \in Range(skill.slots) /\ d.name = name
  <2>1. skill.slots[i] \in Range(skill.slots)
    BY DEF Range
  <2> QED BY <2>1 DEF Definition
<1>2. PICK j \in DOMAIN skill.slots : d = skill.slots[j]
  BY <1>1 DEF Range
<1>3. i = j
  BY <1>1, <1>2 DEF Loads
<1> QED BY <1>2, <1>3

LEMMA ParseAdmits ==
  ASSUME NEW type, NEW reply, Parse(type, reply) # Unparsed
  PROVE  Parse(type, reply) \in Admits(type)
  BY DEF Parse

LEMMA AnsweredPrefills ==
  ASSUME NEW skill, Loads(skill), NEW given, Prefills(skill, given), NEW k \in DOMAIN skill.slots,
         NEW name, name = skill.slots[k].name,
         NEW kind, kind \in Admits(skill.slots[k].type),
         NEW after, after = Given(given, name, kind)
  PROVE  Prefills(skill, after)
<1>1. /\ DOMAIN after = DOMAIN given \cup {name}
      /\ \A n \in DOMAIN given : n # name => after[n] = given[n]
      /\ after[name] = kind
  <2>1. after = [n \in DOMAIN given \cup {name} |-> IF n = name THEN kind ELSE given[n]]
    BY DEF Given
  <2> QED BY <2>1
<1>2. Definition(skill, name) = skill.slots[k]
  BY DefinitionOf
<1>3. name \in SlotNames(skill)
  BY DEF SlotNames, Range
<1>4. DOMAIN after \subseteq SlotNames(skill)
  BY <1>1, <1>3 DEF Prefills
<1>5. ASSUME NEW n \in DOMAIN after
      PROVE  after[n] \in Admits(Definition(skill, n).type)
  BY <1>1, <1>2, <1>5 DEF Prefills
<1> QED BY <1>4, <1>5 DEF Prefills

LEMMA AnswerSound ==
  ASSUME LearnerInv, Answer
  PROVE  LearnerInv'
<1> DEFINE missing == MissingRequired(matched, values)
<1>1. /\ stage = "filling" /\ missing # {}
      /\ UNCHANGED <<learner, request, branches, winner, store, learned, matched>>
  BY DEF Answer
<1>2. Sound(matched) /\ Prefills(matched, values)
  BY <1>1 DEF LearnerInv, FillingSound
<1>3. missing \subseteq DOMAIN matched.slots /\ missing \subseteq Nat
  BY <1>2 DEF MissingRequired, Sound, SelfContained
<1>4. Min(missing) \in DOMAIN matched.slots
  BY <1>1, <1>3, First
<1> HIDE DEF missing
<1>5. \/ stage' = "gave up"
      \/ stage' = "filling" /\ Prefills(matched, values')
  <2>1. PICK reply \in Replies :
          LET slot == matched.slots[Min(missing)]
          IN  IF Parse(slot.type, reply) = Unparsed
              THEN stage' = "gave up" /\ UNCHANGED values
              ELSE stage' = stage /\ values' = Given(values, slot.name, Parse(slot.type, reply))
    BY DEF Answer, missing
  <2>2. CASE Parse(matched.slots[Min(missing)].type, reply) = Unparsed
    BY <2>1, <2>2
  <2>3. CASE Parse(matched.slots[Min(missing)].type, reply) # Unparsed
    <3>1. \E name, kind :
            /\ name = matched.slots[Min(missing)].name
            /\ kind = Parse(matched.slots[Min(missing)].type, reply)
            /\ stage' = stage /\ values' = Given(values, name, kind)
      BY <2>1, <2>3
    <3>2. PICK name, kind :
            /\ name = matched.slots[Min(missing)].name
            /\ kind = Parse(matched.slots[Min(missing)].type, reply)
            /\ stage' = stage /\ values' = Given(values, name, kind)
      BY <3>1
    <3>3. kind \in Admits(matched.slots[Min(missing)].type)
      BY <2>3, <3>2, ParseAdmits
    <3>4. Loads(matched)
      BY <1>2 DEF Sound
    <3>5. Prefills(matched, values')
      BY <1>2, <1>4, <3>2, <3>3, <3>4, AnsweredPrefills
    <3> QED BY <1>1, <3>2, <3>5
  <2> QED BY <2>2, <2>3
<1> QED BY <1>1, <1>2, <1>5 DEF LearnerInv, BranchesOfRequest, WinnerIsBranch,
               LearnedFromWinner, FillingSound, NothingFails

\* Once nothing is missing, every name that a sound runbook refers to has a value.
LEMMA ReplaySound ==
  ASSUME LearnerInv, Replay
  PROVE  LearnerInv'
<1>1. /\ stage = "filling" /\ MissingRequired(matched, values) = {}
      /\ UNCHANGED <<learner, request, branches, winner, store, learned, matched, values>>
  BY DEF Replay
<1>2. Sound(matched) /\ Prefills(matched, values)
  BY <1>1 DEF LearnerInv, FillingSound
<1>3. Resolves(matched, values)
  BY <1>1, <1>2 DEF Resolves
<1>4. SlotNames(matched) \subseteq Resolved(matched, values)
  <2>1. ASSUME NEW i \in DOMAIN matched.slots
        PROVE  matched.slots[i].name \in DOMAIN values
    <3>1. Asked(matched.slots[i])
      BY <1>2 DEF Sound, SelfContained, Range
    <3> QED BY <1>1, <3>1 DEF MissingRequired
  <2> QED BY <2>1 DEF SlotNames, Resolved, Range
<1>5. \A s \in Range(matched.steps) : Substitutes(s, Resolved(matched, values))
  BY <1>2, <1>4 DEF Sound, SelfContained, Substitutes
<1>6. stage' = "replayed"
  BY <1>3, <1>5 DEF Replay
<1> QED BY <1>1, <1>6 DEF LearnerInv, BranchesOfRequest, WinnerIsBranch,
               LearnedFromWinner, FillingSound, NothingFails
-----------------------------------------------------------------------------
\* The form of an agent is opened on what is listed, and holds what the agent needs
\* when it is sent.
LEMMA OfferSound ==
  ASSUME LearnerInv, Offer
  PROVE  LearnerInv'
<1>1. /\ stage' = "form" /\ matched' = MatchCompleted(request) /\ matched' # NoRunbook
      /\ UNCHANGED <<learner, request, branches, winner, store, learned>>
  BY DEF Offer
<1>2. Sound(matched')
  BY <1>1, LookedUp DEF LearnerInv, MatchCompleted
<1> QED BY <1>1, <1>2 DEF LearnerInv, BranchesOfRequest, WinnerIsBranch, LearnedFromWinner,
               FillingSound, NothingFails

LEMMA UseSound ==
  ASSUME LearnerInv, Use
  PROVE  LearnerInv'
<1>1. /\ stage = "form" /\ Sound(matched)
      /\ UNCHANGED <<learner, request, branches, winner, store, learned, matched>>
  BY DEF Use, LearnerInv, FillingSound
<1>2. PICK given \in SUBSET SlotNames(matched), confirmed \in BOOLEAN :
        /\ {d.name : d \in {d \in Range(matched.slots) : Always(d)}} \subseteq given
        /\ values' \in Entries(given)
        /\ stage' =
             CASE ~Resolves(matched, values') -> "slot failure"
               [] Resolves(matched, values') /\ \E s \in Range(matched.steps) :
                      ~Substitutes(s, Resolved(matched, values')) -> "stranded"
               [] OTHER -> IF confirmed \/ \A s \in Range(matched.steps) : ~s.irreversible
                           THEN "replayed" ELSE "declined"
  BY DEF Use
<1>3. SlotNames(matched) \subseteq given
  <2>1. \A d \in Range(matched.slots) : Always(d)
    BY <1>1 DEF Sound, SelfContained, Asked, Always
  <2> QED BY <1>2, <2>1 DEF SlotNames
<1>4. DOMAIN values' = given
  BY <1>2 DEF Entries
<1>5. \A s \in Range(matched.steps) : Substitutes(s, Resolved(matched, values'))
  BY <1>1, <1>3, <1>4 DEF Sound, SelfContained, Substitutes, Resolved
<1>6. stage' \in {"slot failure", "replayed", "declined"}
  BY <1>2, <1>5
<1> QED BY <1>1, <1>6 DEF LearnerInv, BranchesOfRequest, WinnerIsBranch, LearnedFromWinner,
               FillingSound, NothingFails
-----------------------------------------------------------------------------
\* The invariant holds of every state, whichever of the ways is taken.
LEMMA StutterSound == LearningInv /\ UNCHANGED learning => LearningInv'
<1> SUFFICES ASSUME LearningInv, UNCHANGED learning PROVE LearningInv'
  OBVIOUS
<1>1. /\ stage' = stage /\ learner' = learner /\ request' = request /\ branches' = branches
      /\ winner' = winner /\ store' = store /\ matched' = matched /\ values' = values
  BY DEF learning
<1>2. \A t : IsBranch(t)' = IsBranch(t)
  BY <1>1 DEF IsBranch, Trajectory
<1>3. BranchesOfRequest' = BranchesOfRequest
  BY <1>1, <1>2 DEF BranchesOfRequest
<1>4. LearnedFromWinner' = LearnedFromWinner
  <2>1. WinningPath' = WinningPath
    BY <1>1 DEF WinningPath
  <2>2. \A document : Remembered(document)' = Remembered(document)
    BY <1>1 DEF Remembered
  <2> QED BY <1>1, <2>1, <2>2 DEF LearnedFromWinner
<1>5. /\ WinnerIsBranch' = WinnerIsBranch /\ FillingSound' = FillingSound
      /\ NothingFails' = NothingFails /\ NeverJoined' = NeverJoined
  BY <1>1 DEF WinnerIsBranch, FillingSound, NothingFails, NeverJoined
<1> QED BY <1>1, <1>3, <1>4, <1>5 DEF LearningInv, LearnerInv

LEMMA LearningStep == LearningInv /\ [EveryNext]_learning => LearningInv'
<1> SUFFICES ASSUME LearningInv, EveryNext PROVE LearningInv'
  BY StutterSound
<1>1. learner' = learner
  BY DEF EveryNext, LearningNext, ConsoleNext, Explore, Pick, Search, Judge, JudgeFails, Refuse,
         Save, AskAgain, Warm, Answer, Replay, AcceptSynthesized, ReplayAtOnce, Offer, Use
<1>2. CASE learner = "join" /\ NeverJoined
  <2>1. AcceptSynthesized \/ ReplayAtOnce
    BY <1>2 DEF NeverJoined, EveryNext, LearningNext, Search, Judge, JudgeFails, Refuse, Save,
                AskAgain, Warm, Answer, Replay
  <2>2. CASE AcceptSynthesized
    BY <1>1, <1>2, <2>2 DEF AcceptSynthesized, LearningInv, NeverJoined
  <2>3. CASE ReplayAtOnce
    <3>1. stage' \in {"no match", "unloadable", "slot failure", "stranded", "replayed"}
      BY <2>3 DEF ReplayAtOnce
    <3> QED BY <1>1, <1>2, <3>1 DEF LearningInv, NeverJoined
  <2> QED BY <2>1, <2>2, <2>3
<1>3. CASE learner \in Searching /\ LearnerInv
  <2>1. LearnerInv'
    <3>1. CASE Search
      BY <1>3, <3>1, SearchSound
    <3>2. CASE Judge \/ JudgeFails \/ Pick \/ Refuse
      BY <1>3, <3>2, JudgeSound
    <3>3. CASE Save
      BY <1>3, <3>3, SaveSound
    <3>4. CASE AskAgain
      BY <1>3, <3>4, AskAgainSound
    <3>5. CASE Warm
      BY <1>3, <3>5, WarmSound
    <3>6. CASE Answer
      BY <1>3, <3>6, AnswerSound
    <3>7. CASE Replay
      BY <1>3, <3>7, ReplaySound
    <3>8. CASE Offer
      BY <1>3, <3>8, OfferSound
    <3>9. CASE Use
      BY <1>3, <3>9, UseSound
    <3>10. ~ (AcceptSynthesized \/ ReplayAtOnce)
      BY <1>3 DEF AcceptSynthesized, ReplayAtOnce, Searching
    <3> QED BY <3>1, <3>2, <3>3, <3>4, <3>5, <3>6, <3>7, <3>8, <3>9, <3>10
            DEF EveryNext, LearningNext, ConsoleNext, Explore
  <2> QED BY <1>1, <1>3, <2>1 DEF LearningInv
<1> QED BY <1>2, <1>3 DEF LearningInv

\* A slot is declared only of what the task says something of.
LEMMA DeclaredIsSaid == ASSUME NEW t PROVE Arguments(Evidence(t)) \subseteq DOMAIN t.task.said
<1> DEFINE steps == SurvivingSteps(t.steps)
<1>1. Arguments(LiftFromRequest(t.task)) \subseteq DOMAIN t.task.said
  <2> DEFINE lifted == LiftFromRequest(t.task)
  <2>1. \A n \in DOMAIN lifted : Says(t.task, Vocabulary.slots[n])
    BY DEF LiftFromRequest
  <2>2. \A n \in DOMAIN lifted : lifted[n].name = Vocabulary.slots[n].name
    BY DeclaredFields DEF LiftFromRequest
  <2> HIDE DEF lifted
  <2>3. Arguments(lifted) \subseteq DOMAIN t.task.said
    BY <2>1, <2>2 DEF Arguments, Says
  <2> QED BY <2>3 DEF lifted
<1>2. ASSUME NEW written
      PROVE  Arguments(LiftSlots(t.task, written)) \subseteq DOMAIN t.task.said
  <2>1. \A n \in Lifted(t.task, written) : Says(t.task, Vocabulary.slots[n])
    BY DEF Lifted, Explains
  <2>2. DOMAIN LiftSlots(t.task, written) = Lifted(t.task, written)
    BY DEF LiftSlots
  <2>3. \A n \in Lifted(t.task, written) :
          LiftSlots(t.task, written)[n].name = Vocabulary.slots[n].name
    BY DeclaredFields DEF LiftSlots
  <2> QED BY <2>1, <2>2, <2>3 DEF Arguments, Says
<1>3. Arguments(<<>>) \subseteq DOMAIN t.task.said
  BY DEF Arguments
<1>4. \/ Evidence(t) = LiftFromRequest(t.task)
      \/ Evidence(t) = LiftSlots(t.task, WrittenValues(steps))
      \/ Evidence(t) = <<>>
  BY DEF Evidence
<1> QED BY <1>1, <1>2, <1>3, <1>4

\* What was written last is among what survives.
LEMMA LastSurvives ==
  ASSUME NEW steps, IsList(steps)
  PROVE  LastWrites(steps) \subseteq Range(WrittenValues(SurvivingSteps(steps)))
<1> DEFINE kept == SurvivingSteps(steps)
<1>1. ASSUME NEW i \in DOMAIN steps, i \in Live(steps), steps[i].value # NoValue,
             \A j \in i+1..Len(steps) :
               j \in Live(steps) =>
                 <<steps[j].action, steps[j].selector>> # <<steps[i].action, steps[i].selector>>
      PROVE  i \in DOMAIN kept /\ kept[i] = steps[i]
  <2>1. ASSUME NEW j \in Live(steps), SameField(steps[i], steps[j]) PROVE j <= i
    <3>1. i \in 1..Len(steps) /\ j \in 1..Len(steps) /\ Len(steps) \in Nat
      BY DEF IsList, Live
    <3>2. steps[i].action = steps[j].action /\ steps[i].selector = steps[j].selector
      BY <2>1 DEF SameField
    <3>3. j \notin i+1..Len(steps)
      BY <1>1, <3>2
    <3> QED BY <3>1, <3>3
  <2> QED BY <1>1, <2>1 DEF SurvivingSteps
<1>2. ASSUME NEW i \in DOMAIN kept, kept[i] = steps[i], steps[i].value # NoValue
      PROVE  steps[i].value \in Range(WrittenValues(kept))
  <2> HIDE DEF kept
  <2>1. i \in DOMAIN WrittenValues(kept) /\ WrittenValues(kept)[i] = steps[i].value
    BY <1>2 DEF WrittenValues
  <2> QED BY <2>1 DEF Range
<1>3. ASSUME NEW v \in LastWrites(steps)
      PROVE  \E i \in DOMAIN steps :
               /\ i \in Live(steps) /\ steps[i].value # NoValue /\ v = steps[i].value
               /\ \A j \in i+1..Len(steps) :
                    j \in Live(steps) =>
                      <<steps[j].action, steps[j].selector>> # <<steps[i].action, steps[i].selector>>
  BY <1>3 DEF LastWrites, Live
<1> QED BY <1>1, <1>2, <1>3

\* A value that explains a slot reads as what the task says of it.
LEMMA AttributedIsSaid ==
  ASSUME NEW task, NEW written, DOMAIN written \subseteq Nat,
         NEW v \in Attributed(task, written)
  PROVE  \E name \in Arguments(LiftSlots(task, written)) :
           name \in DOMAIN v.reads /\ v.reads[name].key = task.said[name].key
<1>1. PICK n \in Lifted(task, written) : v = Explained(task, written, n)
  BY DEF Attributed
<1> DEFINE slot == Vocabulary.slots[n]
           places == Explains(task, written, slot)
<1>2. places # {} /\ places \subseteq Nat
  BY DEF Lifted, Explains
<1>3. Min(places) \in places
  <2> HIDE DEF places
  <2> QED BY <1>2, First
<1>4. v = written[Min(places)]
  BY <1>1 DEF Explained
<1>5. Reads(v, slot, task.said[slot.name].key)
  <2>1. \A i \in places : Reads(written[i], slot, task.said[slot.name].key)
    BY DEF Explains
  <2> HIDE DEF places, slot
  <2> QED BY <1>3, <1>4, <2>1
<1>6. slot.name \in Arguments(LiftSlots(task, written))
  <2>1. n \in DOMAIN LiftSlots(task, written)
    BY DEF LiftSlots
  <2>2. LiftSlots(task, written)[n].name = slot.name
    BY DeclaredFields DEF LiftSlots
  <2> QED BY <2>1, <2>2 DEF Arguments
<1>7. slot.name \in DOMAIN v.reads /\ v.reads[slot.name].key = task.said[slot.name].key
  BY <1>5 DEF Reads
<1> QED BY <1>6, <1>7

\* What is distilled from a browser run accounts for every value the run left.
LEMMA DistilledIsEvidenced ==
  ASSUME NEW t, Distill(t) # Refused, IsList(t.steps), ~ \E s \in Range(t.steps) : s.command,
         NEW v \in LastWrites(t.steps)
  PROVE  \E name \in Arguments(Evidence(t)) :
           name \in DOMAIN v.reads /\ v.reads[name].key = t.task.said[name].key
<1> DEFINE kept == SurvivingSteps(t.steps)
           written == WrittenValues(kept)
<1>1. ~ IsResearch(kept)
  BY DEF IsResearch, SurvivingSteps, Live, Range
<1>2. DOMAIN Evidence(t) # {}
  BY Distilled
<1>3. /\ Evidence(t) = LiftSlots(t.task, written)
      /\ Range(written) \subseteq Attributed(t.task, written)
  <2>1. DOMAIN <<>> = {}
    OBVIOUS
  <2> QED BY <1>1, <1>2, <2>1 DEF Evidence
<1>4. v \in Attributed(t.task, written)
  BY <1>3, LastSurvives
<1>5. DOMAIN written \subseteq Nat
  BY DEF WrittenValues, SurvivingSteps, Live, IsList
<1> HIDE DEF written
<1> QED BY <1>3, <1>4, <1>5, AttributedIsSaid

-----------------------------------------------------------------------------
\* Nobody has won until the branches are judged.
NotJudged == stage \in {"asked", "searched"} => winner = 0

LearningTypeInv == LearningTypeOK /\ NotJudged /\ LearningInv

\* The longest successful branch is one of the branches.
LEMMA LongestIsBranch ==
  ASSUME BranchesOfRequest, stage = "searched", Successful # {}
  PROVE  LongestSuccessful \in DOMAIN branches
<1>1. DOMAIN branches = 1..2 /\ IsBranch(branches[1]) /\ IsBranch(branches[2])
  BY DEF BranchesOfRequest
<1> DEFINE length(i) == Len(branches[i].steps)
<1>2. ASSUME NEW t, IsBranch(t) PROVE Len(t.steps) \in Nat
  <2>1. PICK b, l, s, e : IsList(s) /\ t = Trajectory(b, l, s, e)
    BY <1>2 DEF IsBranch
  <2>2. t.steps = s
    BY <2>1 DEF Trajectory
  <2> QED BY <2>1, <2>2 DEF IsList
<1>3. length(1) \in Nat /\ length(2) \in Nat
  BY <1>1, <1>2
<1>4. Successful \subseteq {1, 2}
  BY <1>1 DEF Successful
<1>5. \E i \in Successful : \A j \in Successful :
        length(j) < length(i) \/ (length(j) = length(i) /\ j >= i)
  <2> HIDE DEF length
  <2>1. CASE Successful = {1}
    BY <2>1
  <2>2. CASE Successful = {2}
    BY <2>2
  <2>3. CASE Successful = {1, 2}
    BY <1>3, <2>3
  <2> QED BY <1>4, <2>1, <2>2, <2>3
<1>6. LongestSuccessful \in Successful
  BY <1>5 DEF LongestSuccessful
<1> QED BY <1>6 DEF Successful

LEMMA LearningTypeStep ==
  ASSUME LearningTypeInv, LearningNext
  PROVE  LearningTypeOK' /\ NotJudged'
<1>1. /\ learner \in Learners /\ request \in Requests /\ learned \in Requests \cup {Nobody}
      /\ winner \in {0} \cup DOMAIN branches
      /\ \A name \in DOMAIN values : values[name] \in Kinds
      /\ NotJudged /\ LearningInv
  BY DEF LearningTypeInv, LearningTypeOK
<1>2. learner' = learner
  BY DEF LearningNext, Search, Judge, JudgeFails, Refuse, Save, AskAgain, Warm, Answer, Replay,
         AcceptSynthesized, ReplayAtOnce
<1>3. stage' \in {"asked", "searched", "judged", "learned", "filling"} \cup Final
  BY DEF LearningTypeInv, LearningTypeOK, LearningNext, Search, Judge, JudgeFails, Refuse, Save,
         AskAgain, Warm, Answer, Replay, AcceptSynthesized, ReplayAtOnce, Final
<1>4. request' \in Requests /\ learned' \in Requests \cup {Nobody}
  BY <1>1 DEF LearningNext, Search, Judge, JudgeFails, Refuse, Save, AskAgain, Warm, Answer,
              Replay, AcceptSynthesized, ReplayAtOnce
<1>5. winner' \in {0} \cup DOMAIN branches' /\ NotJudged'
  <2>1. CASE Search
    BY <1>1, <2>1 DEF Search, NotJudged
  <2>2. CASE Judge
    BY <2>2 DEF Judge, NotJudged
  <2>3. CASE JudgeFails
    <3>1. stage = "searched" /\ stage' = "failed" /\ branches' = branches
          /\ winner' = IF learner = "assistant" /\ Successful # {} THEN LongestSuccessful ELSE 0
      BY <2>3 DEF JudgeFails
    <3>2. LearnerInv
      BY <1>1, <3>1 DEF LearningInv, NeverJoined
    <3>3. Successful # {} => LongestSuccessful \in DOMAIN branches
      BY <3>1, <3>2, LongestIsBranch DEF LearnerInv
    <3> QED BY <3>1, <3>3 DEF NotJudged
  <2>4. CASE AskAgain
    BY <2>4 DEF AskAgain, NotJudged
  <2>5. CASE Refuse \/ Save \/ Warm \/ Answer \/ Replay \/ AcceptSynthesized \/ ReplayAtOnce
    BY <1>1, <2>5 DEF Refuse, Save, Warm, Answer, Replay, AcceptSynthesized, ReplayAtOnce,
                      NotJudged
  <2> QED BY <2>1, <2>2, <2>3, <2>4, <2>5 DEF LearningNext
<1>6. \A name \in DOMAIN values' : values'[name] \in Kinds
  <2>1. CASE Warm \/ ReplayAtOnce
    BY <2>1, PrefilledAssumption DEF Warm, ReplayAtOnce
  <2>2. CASE Answer
    <3>1. stage = "filling"
      BY <2>2 DEF Answer
    <3>2. ASSUME NEW type, NEW reply \in Replies, Parse(type, reply) # Unparsed
          PROVE  Parse(type, reply) \in Kinds
      BY <3>2 DEF Parse, Read, Replies, Kinds, Unparsed
    <3>3. ASSUME NEW x, NEW kind \in Kinds, values' = Given(values, x, kind)
          PROVE  \A name \in DOMAIN values' : values'[name] \in Kinds
      BY <1>1, <3>3 DEF Given
    <3> QED BY <1>1, <2>2, <3>2, <3>3 DEF Answer
  <2>3. CASE ~ (Warm \/ ReplayAtOnce \/ Answer)
    <3>1. values' = values
      BY <2>3 DEF LearningNext, Search, Judge, JudgeFails, Refuse, Save, AskAgain, Replay,
                  AcceptSynthesized
    <3> QED BY <1>1, <3>1
  <2> QED BY <2>1, <2>2, <2>3
<1> QED BY <1>1, <1>2, <1>3, <1>4, <1>5, <1>6 DEF LearningTypeOK

\* The variables of Learning keep their types.
THEOREM LearningTypeCorrect == LearningSpec => []LearningTypeOK
<1>1. LearningInit => LearningTypeInv
  <2> SUFFICES ASSUME LearningInit PROVE LearningTypeInv
    OBVIOUS
  <2>1. LearningTypeOK /\ NotJudged
    BY DEF LearningInit, Fresh, LearningTypeOK, NotJudged, NoValues
  <2>2. LearningInv
    BY InitSound DEF EveryInit
  <2> QED BY <2>1, <2>2 DEF LearningTypeInv
<1>2. LearningTypeInv /\ [LearningNext]_learning => LearningTypeInv'
  <2> SUFFICES ASSUME LearningTypeInv, [LearningNext]_learning PROVE LearningTypeInv'
    OBVIOUS
  <2>1. CASE UNCHANGED learning
    <3>1. LearningInv'
      BY <2>1, StutterSound DEF LearningTypeInv
    <3> QED BY <2>1, <3>1 DEF LearningTypeInv, LearningTypeOK, NotJudged, learning
  <2>2. CASE LearningNext
    <3>1. EveryNext
      BY <2>2 DEF LearningTypeInv, LearningTypeOK, Learners, EveryNext
    <3>2. LearningInv'
      BY <3>1, LearningStep DEF LearningTypeInv
    <3> QED BY <2>2, <3>2, LearningTypeStep DEF LearningTypeInv
  <2> QED BY <2>1, <2>2
<1>3. LearningTypeInv => LearningTypeOK
  BY DEF LearningTypeInv
<1> QED BY <1>1, <1>2, <1>3, PTL DEF LearningSpec

\* Whatever is answered to its questions or put into its form, a skill that was saved
\* loads, resolves and substitutes every step: nothing fails after a step has run.  For
\* every vocabulary of words, every request, every run of a branch and every value that
\* comes along.
THEOREM LearnedSkillsReplay == EverySpec => []LearnedSkillReplays
<1>1. LearningInv => LearnedSkillReplays
  BY DEF LearningInv, LearnerInv, NothingFails, LearnedSkillReplays
<1> QED BY <1>1, InitSound, LearningStep, PTL DEF EverySpec

\* A skill takes as slots what its run did for the request, no more and no less: each
\* value the run left in a field is what the request says of a declared slot, and no
\* slot is declared of which the request says nothing.
THEOREM LearnedSlotsAreEvidenced == EverySpec => []SlotsAreEvidenced
<1>1. ASSUME LearningInv PROVE SlotsAreEvidenced
  <2> SUFFICES ASSUME stage = "learned" PROVE SlotsAreEvidenced
    BY DEF SlotsAreEvidenced
  <2> DEFINE t == WinningPath
             kept == Remembered(Distill(t))
  <2>1. LearnerInv
    BY <1>1 DEF LearningInv, NeverJoined
  <2>2. t.task = request /\ IsList(t.steps)
    BY <2>1, WinningPathOfRequest DEF LearnerInv
  <2>3. Distill(t) # Refused /\ store[Len(store)] = kept
    BY <2>1 DEF LearnerInv, LearnedFromWinner
  <2>4. SlotNames(kept) = Arguments(Evidence(t))
    BY <2>3, RememberedIsSound
  <2>5. Arguments(Evidence(t)) \subseteq DOMAIN request.said
    BY <2>2, DeclaredIsSaid
  <2>6. ASSUME ~ \E s \in Range(t.steps) : s.command,
               NEW v \in LastWrites(t.steps)
        PROVE  \E name \in Arguments(Evidence(t)) :
                 name \in DOMAIN v.reads /\ v.reads[name].key = request.said[name].key
    BY <2>2, <2>3, <2>6, DistilledIsEvidenced
  <2> HIDE DEF t, kept
  <2> QED BY <2>3, <2>4, <2>5, <2>6 DEF SlotsAreEvidenced, t
<1> QED BY <1>1, InitSound, LearningStep, PTL DEF EverySpec

-----------------------------------------------------------------------------
(* The edit distance *)

\* What holds of 0, and of the number after each of which it holds, holds of all.
LEMMA Stepwise ==
  ASSUME NEW S, 0 \in S, \A n \in Nat : n \in S => n + 1 \in S
  PROVE  Nat \subseteq S
<1> DEFINE missing == Nat \ S
<1> SUFFICES ASSUME missing # {} PROVE FALSE
  OBVIOUS
<1>1. Min(missing) \in missing /\ \A k \in missing : Min(missing) <= k
  BY First
<1> DEFINE m == Min(missing)
<1> HIDE DEF m
<1>2. m \in Nat /\ m # 0 /\ m \notin S /\ \A k \in Nat : k \notin S => m <= k
  BY <1>1 DEF m
<1>3. m - 1 \in Nat /\ m - 1 \in S
  BY <1>2
<1> QED BY <1>2, <1>3

-----------------------------------------------------------------------------
\* The table of distances is well defined: it is filled in along the sums of its indices.
Cells(left, right) == (0..Len(left)) \X (0..Len(right))
Filled(left, right, d, i, j) == d[<<i, j>>] = Fewest(left, right, d, i, j)
FilledUpTo(left, right, d, n) ==
    /\ \A cell \in Cells(left, right) :
         cell[1] + cell[2] <= n => d[cell] = Fewest(left, right, d, cell[1], cell[2])
    /\ DOMAIN d = Cells(left, right)

\* A cell depends on those whose sum is less.
LEMMA FewestDepends ==
  ASSUME NEW left, NEW right, NEW d, NEW e, NEW i \in Nat, NEW j \in Nat,
         \A k \in 0..i, l \in 0..j : k + l < i + j => d[<<k, l>>] = e[<<k, l>>]
  PROVE  Fewest(left, right, d, i, j) = Fewest(left, right, e, i, j)
<1>1. CASE i = 0 \/ j = 0
  BY <1>1 DEF Fewest
<1>2. CASE i # 0 /\ j # 0
  <2>1. /\ i - 1 \in 0..i /\ j - 1 \in 0..j /\ i \in 0..i /\ j \in 0..j
        /\ (i - 1) + j < i + j /\ i + (j - 1) < i + j /\ (i - 1) + (j - 1) < i + j
    BY <1>2
  <2>2. /\ d[<<i - 1, j>>] = e[<<i - 1, j>>] /\ d[<<i, j - 1>>] = e[<<i, j - 1>>]
        /\ d[<<i - 1, j - 1>>] = e[<<i - 1, j - 1>>]
    BY <2>1
  <2>3. i > 1 /\ j > 1 => d[<<i - 2, j - 2>>] = e[<<i - 2, j - 2>>]
    BY i > 1 /\ j > 1 => i - 2 \in 0..i /\ j - 2 \in 0..j /\ (i - 2) + (j - 2) < i + j
  <2> QED BY <1>2, <2>2, <2>3 DEF Fewest, Swapped
<1> QED BY <1>1, <1>2

LEMMA TableExists ==
  ASSUME NEW left, NEW right, Len(left) \in Nat, Len(right) \in Nat, NEW n \in Nat
  PROVE  \E d : FilledUpTo(left, right, d, n)
<1> DEFINE S == {m \in Nat : \E d : FilledUpTo(left, right, d, m)}
<1> DEFINE next(d) == [cell \in Cells(left, right) |-> Fewest(left, right, d, cell[1], cell[2])]
<1>1. 0 \in S
  <2> DEFINE zero == [cell \in Cells(left, right) |-> cell[1] + cell[2]]
  <2>1. FilledUpTo(left, right, zero, 0)
    <3> SUFFICES ASSUME NEW cell \in Cells(left, right), cell[1] + cell[2] <= 0
                 PROVE  zero[cell] = Fewest(left, right, zero, cell[1], cell[2])
      BY DEF FilledUpTo
    <3>1. cell[1] \in Nat /\ cell[2] \in Nat
      BY DEF Cells
    <3>2. cell[1] = 0
      BY <3>1
    <3> QED BY <3>2 DEF Fewest
  <2> QED BY <2>1
<1>2. ASSUME NEW m \in Nat, m \in S PROVE m + 1 \in S
  <2>1. PICK d : FilledUpTo(left, right, d, m)
    BY <1>2
  <2>2. FilledUpTo(left, right, next(d), m + 1)
    <3> SUFFICES ASSUME NEW cell \in Cells(left, right), cell[1] + cell[2] <= m + 1
                 PROVE  Fewest(left, right, d, cell[1], cell[2])
                          = Fewest(left, right, next(d), cell[1], cell[2])
      BY DEF FilledUpTo
    <3>1. cell[1] \in 0..Len(left) /\ cell[2] \in 0..Len(right)
      BY DEF Cells
    <3>2. ASSUME NEW k \in 0..cell[1], NEW l \in 0..cell[2], k + l < cell[1] + cell[2]
          PROVE  d[<<k, l>>] = next(d)[<<k, l>>]
      <4>1. <<k, l>> \in Cells(left, right) /\ k + l <= m
        BY <3>1, <3>2 DEF Cells
      <4>2. <<k, l>>[1] = k /\ <<k, l>>[2] = l
        OBVIOUS
      <4> QED BY <2>1, <4>1, <4>2 DEF FilledUpTo
    <3> HIDE DEF next
    <3> QED BY <3>1, <3>2, FewestDepends
  <2> QED BY <2>2
<1> HIDE DEF S
<1>3. Nat \subseteq S
  BY <1>1, <1>2, Stepwise
<1> QED BY <1>3 DEF S

LEMMA DistancesFilled ==
  ASSUME NEW left, NEW right, Len(left) \in Nat, Len(right) \in Nat,
         NEW i \in 0..Len(left), NEW j \in 0..Len(right)
  PROVE  Filled(left, right, Distances(left, right), i, j)
<1> DEFINE Table(d) ==
      d = [cell \in (0..Len(left)) \X (0..Len(right)) |-> Fewest(left, right, d, cell[1], cell[2])]
<1>1. Distances(left, right) = CHOOSE d : Table(d)
  BY DEF Distances
<1>2. \E d : Table(d)
  <2>1. PICK e : FilledUpTo(left, right, e, Len(left) + Len(right))
    BY TableExists
  <2> DEFINE d == [cell \in (0..Len(left)) \X (0..Len(right)) |-> e[cell]]
  <2>2. ASSUME NEW cell \in (0..Len(left)) \X (0..Len(right))
        PROVE  d[cell] = Fewest(left, right, d, cell[1], cell[2])
    <3>1. cell[1] \in 0..Len(left) /\ cell[2] \in 0..Len(right)
      OBVIOUS
    <3>2. cell[1] + cell[2] <= Len(left) + Len(right)
      BY <3>1
    <3>3. e[cell] = Fewest(left, right, e, cell[1], cell[2])
      BY <2>1, <3>2 DEF FilledUpTo, Cells
    <3>4. ASSUME NEW k \in 0..cell[1], NEW l \in 0..cell[2]
          PROVE  d[<<k, l>>] = e[<<k, l>>]
      BY <3>1
    <3>5. Fewest(left, right, d, cell[1], cell[2]) = Fewest(left, right, e, cell[1], cell[2])
      <4> HIDE DEF d
      <4> QED BY <3>1, <3>4, FewestDepends
    <3> QED BY <3>3, <3>5
  <2>3. Table(d)
    <3>1. d = [cell \in (0..Len(left)) \X (0..Len(right)) |-> d[cell]]
      OBVIOUS
    <3> HIDE DEF d
    <3> QED BY <3>1, <2>2
  <2> QED BY <2>3
<1> HIDE DEF Table
<1>3. Table(Distances(left, right))
  BY <1>1, <1>2
<1>4. <<i, j>> \in (0..Len(left)) \X (0..Len(right)) /\ <<i, j>>[1] = i /\ <<i, j>>[2] = j
  OBVIOUS
<1> QED BY <1>3, <1>4 DEF Table, Filled

\* Within the table, the fewest is the least of three cells or four.
IsFewest(left, right, d, i, j, f) ==
    /\ f \in Nat
    /\ f <= d[<<i - 1, j>>] + 1 /\ f <= d[<<i, j - 1>>] + 1
    /\ f <= d[<<i - 1, j - 1>>] + Slip(left, right, i, j)
    /\ Swapped(left, right, i, j) => f <= d[<<i - 2, j - 2>>] + 1
    /\ \/ f = d[<<i - 1, j>>] + 1 \/ f = d[<<i, j - 1>>] + 1
       \/ f = d[<<i - 1, j - 1>>] + Slip(left, right, i, j)
       \/ Swapped(left, right, i, j) /\ f = d[<<i - 2, j - 2>>] + 1

LEMMA FewestIsLeast ==
  ASSUME NEW left, NEW right, NEW d, NEW i \in Nat, NEW j \in Nat, i # 0, j # 0,
         \A k \in 0..i, l \in 0..j : k + l < i + j => d[<<k, l>>] \in Nat
  PROVE  IsFewest(left, right, d, i, j, Fewest(left, right, d, i, j))
<1> DEFINE slip == Slip(left, right, i, j)
           swapped == Swapped(left, right, i, j)
           S == {d[<<i - 1, j>>] + 1, d[<<i, j - 1>>] + 1, d[<<i - 1, j - 1>>] + slip}
                \cup (IF swapped THEN {d[<<i - 2, j - 2>>] + 1} ELSE {})
<1>1. Fewest(left, right, d, i, j) = Min(S)
  BY DEF Fewest
<1>2. /\ d[<<i - 1, j>>] \in Nat /\ d[<<i, j - 1>>] \in Nat /\ d[<<i - 1, j - 1>>] \in Nat
      /\ i > 1 /\ j > 1 => d[<<i - 2, j - 2>>] \in Nat
  <2>1. /\ i - 1 \in 0..i /\ j - 1 \in 0..j /\ i \in 0..i /\ j \in 0..j
        /\ (i - 1) + j < i + j /\ i + (j - 1) < i + j /\ (i - 1) + (j - 1) < i + j
    OBVIOUS
  <2>2. i > 1 /\ j > 1 => i - 2 \in 0..i /\ j - 2 \in 0..j /\ (i - 2) + (j - 2) < i + j
    OBVIOUS
  <2> QED BY <2>1, <2>2
<1>3. slip \in {0, 1} /\ (swapped => i > 1 /\ j > 1)
  BY DEF Slip, Swapped
<1> HIDE DEF slip, swapped
<1>4. S \subseteq Nat /\ S # {}
  BY <1>2, <1>3
<1>5. Min(S) \in S /\ \A k \in S : Min(S) <= k
  <2> HIDE DEF S
  <2> QED BY <1>4, First
<1>6. /\ Min(S) \in Nat
      /\ Min(S) <= d[<<i - 1, j>>] + 1 /\ Min(S) <= d[<<i, j - 1>>] + 1
      /\ Min(S) <= d[<<i - 1, j - 1>>] + slip
      /\ swapped => Min(S) <= d[<<i - 2, j - 2>>] + 1
  <2> DEFINE m == Min(S)
  <2>1. m \in S /\ (\A k \in S : m <= k)
    BY <1>5
  <2> HIDE DEF m
  <2>2. m \in Nat
    BY <2>1, <1>4
  <2>3. /\ m <= d[<<i - 1, j>>] + 1 /\ m <= d[<<i, j - 1>>] + 1
        /\ m <= d[<<i - 1, j - 1>>] + slip
        /\ swapped => m <= d[<<i - 2, j - 2>>] + 1
    BY <2>1
  <2> QED BY <2>2, <2>3 DEF m
<1>7. \/ Min(S) = d[<<i - 1, j>>] + 1 \/ Min(S) = d[<<i, j - 1>>] + 1
      \/ Min(S) = d[<<i - 1, j - 1>>] + slip
      \/ swapped /\ Min(S) = d[<<i - 2, j - 2>>] + 1
  <2> DEFINE m == Min(S)
  <2>1. m \in S
    BY <1>5
  <2> HIDE DEF m
  <2>2. \/ m = d[<<i - 1, j>>] + 1 \/ m = d[<<i, j - 1>>] + 1
        \/ m = d[<<i - 1, j - 1>>] + slip
        \/ swapped /\ m = d[<<i - 2, j - 2>>] + 1
    BY <2>1
  <2> QED BY <2>2 DEF m
<1> QED BY <1>1, <1>6, <1>7 DEF slip, swapped, IsFewest

\* The distance of two prefixes is a number, and no less than what their lengths differ by.
LEMMA AtLeastApart ==
  ASSUME NEW left, NEW right, Len(left) \in Nat, Len(right) \in Nat,
         NEW i \in 0..Len(left), NEW j \in 0..Len(right)
  PROVE  LET d == Distances(left, right)[<<i, j>>] IN d \in Nat /\ i - j <= d /\ j - i <= d
<1> DEFINE d == Distances(left, right)
           Apart(k, l) == d[<<k, l>>] \in Nat /\ k - l <= d[<<k, l>>] /\ l - k <= d[<<k, l>>]
           S == {n \in Nat : \A k \in 0..Len(left), l \in 0..Len(right) :
                                 k + l <= n => Apart(k, l)}
<1>1. \A k \in 0..Len(left), l \in 0..Len(right) :
         d[<<k, l>>] = Fewest(left, right, d, k, l)
  BY DistancesFilled DEF Filled
<1> HIDE DEF d
<1>2. \A k \in 0..Len(left), l \in 0..Len(right) : k = 0 \/ l = 0 => Apart(k, l)
  <2> SUFFICES ASSUME NEW k \in 0..Len(left), NEW l \in 0..Len(right), k = 0 \/ l = 0
               PROVE  Apart(k, l)
    OBVIOUS
  <2>1. Fewest(left, right, d, k, l) = k + l
    BY DEF Fewest
  <2> QED BY <1>1, <2>1
<1>3. 0 \in S
  <2> SUFFICES ASSUME NEW k \in 0..Len(left), NEW l \in 0..Len(right), k + l <= 0
               PROVE  Apart(k, l)
    OBVIOUS
  <2> QED BY <1>2
<1>4. ASSUME NEW n \in Nat, n \in S PROVE n + 1 \in S
  <2> SUFFICES ASSUME NEW k \in 0..Len(left), NEW l \in 0..Len(right), k + l <= n + 1,
                      k # 0, l # 0
               PROVE  Apart(k, l)
    BY <1>2
  <2>1. \A k1 \in 0..Len(left), l1 \in 0..Len(right) : k1 + l1 <= n => Apart(k1, l1)
    BY <1>4
  <2>2. \A k1 \in 0..k, l1 \in 0..l : k1 + l1 < k + l =>
           k1 \in 0..Len(left) /\ l1 \in 0..Len(right) /\ k1 + l1 <= n
    OBVIOUS
  <2>3. \A k1 \in 0..k, l1 \in 0..l : k1 + l1 < k + l => Apart(k1, l1)
    BY <2>1, <2>2
  <2> HIDE DEF Apart
  <2>4. k \in Nat \ {0} /\ l \in Nat \ {0} /\ d[<<k, l>>] = Fewest(left, right, d, k, l)
    BY <1>1
  <2> DEFINE slip == Slip(left, right, k, l)
             swapped == Swapped(left, right, k, l)
  <2>5. IsFewest(left, right, d, k, l, d[<<k, l>>])
    <3>1. \A k1 \in 0..k, l1 \in 0..l : k1 + l1 < k + l => d[<<k1, l1>>] \in Nat
      BY <2>3 DEF Apart
    <3> QED BY <2>4, <3>1, FewestIsLeast
  <2>6. slip \in {0, 1} /\ (swapped => k > 1 /\ l > 1)
    BY DEF Slip, Swapped
  <2> HIDE DEF slip, swapped
  <2>7. Apart(k - 1, l) /\ Apart(k, l - 1) /\ Apart(k - 1, l - 1)
    BY <2>3, <2>4, k - 1 \in 0..k, l - 1 \in 0..l, k \in 0..k, l \in 0..l,
       (k - 1) + l < k + l, k + (l - 1) < k + l, (k - 1) + (l - 1) < k + l
  <2>8. swapped => Apart(k - 2, l - 2)
    BY <2>3, <2>6, k > 1 /\ l > 1 => k - 2 \in 0..k /\ l - 2 \in 0..l /\ (k - 2) + (l - 2) < k + l
  <2> DEFINE here == d[<<k, l>>]
             above == d[<<k - 1, l>>]
             beside == d[<<k, l - 1>>]
             across == d[<<k - 1, l - 1>>]
             before == d[<<k - 2, l - 2>>]
  <2>9. /\ here \in Nat
        /\ \/ here = above + 1 \/ here = beside + 1 \/ here = across + slip
           \/ swapped /\ here = before + 1
    BY <2>5 DEF IsFewest, slip, swapped
  <2>10. /\ above \in Nat /\ (k - 1) - l <= above /\ l - (k - 1) <= above
         /\ beside \in Nat /\ k - (l - 1) <= beside /\ (l - 1) - k <= beside
         /\ across \in Nat /\ (k - 1) - (l - 1) <= across /\ (l - 1) - (k - 1) <= across
    BY <2>7 DEF Apart
  <2>11. swapped => before \in Nat /\ (k - 2) - (l - 2) <= before /\ (l - 2) - (k - 2) <= before
    BY <2>8 DEF Apart
  <2> HIDE DEF here, above, beside, across, before
  <2>12. k - l <= here /\ l - k <= here
    BY <2>4, <2>6, <2>9, <2>10, <2>11
  <2> QED BY <2>9, <2>12 DEF Apart, here
<1> HIDE DEF S
<1>5. Nat \subseteq S
  BY <1>3, <1>4, Stepwise
<1>6. i + j \in Nat /\ i + j <= i + j
  OBVIOUS
<1> QED BY <1>5, <1>6 DEF S, d

\* A cell is the least of its neighbours, as the definition has it.
LEMMA WithinTable ==
  ASSUME NEW left, NEW right, Len(left) \in Nat, Len(right) \in Nat,
         NEW i \in 1..Len(left), NEW j \in 1..Len(right)
  PROVE  LET d == Distances(left, right) IN IsFewest(left, right, d, i, j, d[<<i, j>>])
<1> DEFINE d == Distances(left, right)
<1>1. d[<<i, j>>] = Fewest(left, right, d, i, j)
  BY i \in 0..Len(left), j \in 0..Len(right), DistancesFilled DEF Filled
<1>2. ASSUME NEW k \in 0..i, NEW l \in 0..j PROVE d[<<k, l>>] \in Nat
  BY k \in 0..Len(left), l \in 0..Len(right), AtLeastApart
<1> HIDE DEF d
<1>3. IsFewest(left, right, d, i, j, Fewest(left, right, d, i, j))
  BY <1>2, FewestIsLeast, i \in Nat, j \in Nat, i # 0, j # 0
<1> QED BY <1>1, <1>3 DEF d

LEMMA OnTheEdge ==
  ASSUME NEW left, NEW right, Len(left) \in Nat, Len(right) \in Nat,
         NEW i \in 0..Len(left), NEW j \in 0..Len(right), i = 0 \/ j = 0
  PROVE  Distances(left, right)[<<i, j>>] = i + j
<1> DEFINE d == Distances(left, right)
<1>1. d[<<i, j>>] = Fewest(left, right, d, i, j)
  BY DistancesFilled DEF Filled
<1> HIDE DEF d
<1>2. d[<<i, j>>] = i + j
  BY <1>1 DEF Fewest
<1> QED BY <1>2 DEF d

\* A whole row over the limit: no later cell gets under it again.  A swap steps over the
\* row, but costs no less than the two letters it swaps, put one for the other.
RowOver(left, right, limit, i) ==
    \A j \in 0..Len(right) : Distances(left, right)[<<i, j>>] > limit

LEMMA NextOver ==
  ASSUME NEW left, NEW right, Len(left) \in Nat, Len(right) \in Nat, NEW limit \in Nat,
         NEW i \in 1..Len(left), RowOver(left, right, limit, i - 1)
  PROVE  RowOver(left, right, limit, i)
<1> DEFINE d == Distances(left, right)
           S == {n \in Nat : n <= Len(right) => d[<<i, n>>] > limit}
<1>1. \A k \in 0..Len(left), l \in 0..Len(right) : d[<<k, l>>] \in Nat
  BY AtLeastApart
<1>2. \A l \in 0..Len(right) : d[<<i - 1, l>>] > limit
  BY DEF RowOver
<1>3. i \in 0..Len(left) /\ i - 1 \in 0..Len(left) /\ 0 \in 0..Len(right)
  OBVIOUS
<1>4. d[<<i, 0>>] = i /\ d[<<i - 1, 0>>] = i - 1
  BY <1>3, OnTheEdge
<1>5. ASSUME NEW l \in 1..Len(right) PROVE IsFewest(left, right, d, i, l, d[<<i, l>>])
  BY WithinTable
<1>6. ASSUME NEW k \in 1..Len(left), NEW l \in 1..Len(right)
      PROVE  IsFewest(left, right, d, k, l, d[<<k, l>>])
  BY WithinTable
<1> HIDE DEF d
<1>7. 0 \in S
  BY <1>2, <1>3, <1>4
<1>8. ASSUME NEW n \in Nat, n \in S PROVE n + 1 \in S
  <2> SUFFICES ASSUME n + 1 <= Len(right) PROVE d[<<i, n + 1>>] > limit
    OBVIOUS
  <2> DEFINE j == n + 1
             here == d[<<i, j>>]
             above == d[<<i - 1, j>>]
             beside == d[<<i, j - 1>>]
             across == d[<<i - 1, j - 1>>]
             before == d[<<i - 2, j - 2>>]
             slip == Slip(left, right, i, j)
             swapped == Swapped(left, right, i, j)
  <2>1. j \in 1..Len(right) /\ j - 1 = n /\ j \in 0..Len(right) /\ n \in 0..Len(right)
    OBVIOUS
  <2>2. above \in Nat /\ above > limit /\ across \in Nat /\ across > limit
    BY <1>1, <1>2, <1>3, <2>1
  <2>3. beside \in Nat /\ beside > limit
    BY <1>1, <1>3, <1>8, <2>1
  <2>4. slip \in {0, 1} /\ (swapped => i > 1 /\ j > 1)
    BY DEF Slip, Swapped
  <2>5. /\ here \in Nat
        /\ \/ here = above + 1 \/ here = beside + 1 \/ here = across + slip
           \/ swapped /\ here = before + 1
    BY <1>5, <2>1 DEF IsFewest
  <2>6. swapped => before \in Nat /\ across <= before + 1
    <3> SUFFICES ASSUME swapped PROVE before \in Nat /\ across <= before + 1
      OBVIOUS
    <3>1. i > 1 /\ j > 1
      BY <2>4
    <3>2. i - 1 \in 1..Len(left) /\ j - 1 \in 1..Len(right)
      BY <3>1, <2>1
    <3>3. IsFewest(left, right, d, i - 1, j - 1, d[<<i - 1, j - 1>>])
      <4> HIDE DEF j
      <4> QED BY <3>2, <1>6
    <3>4. (i - 1) - 1 = i - 2 /\ (j - 1) - 1 = j - 2
      OBVIOUS
    <3>5. across <= before + Slip(left, right, i - 1, j - 1)
      <4> HIDE DEF j
      <4> QED BY <3>3, <3>4 DEF IsFewest
    <3>6. i - 2 \in 0..Len(left) /\ j - 2 \in 0..Len(right)
      BY <3>1, <2>1
    <3>7. before \in Nat
      <4> HIDE DEF j
      <4> QED BY <3>6, <1>1
    <3>8. Slip(left, right, i - 1, j - 1) \in {0, 1}
      BY DEF Slip
    <3> HIDE DEF j, across, before
    <3> QED BY <2>2, <3>5, <3>7, <3>8
  <2> HIDE DEF above, beside, across, before, slip, swapped, here, j
  <2>7. here > limit
    BY <2>2, <2>3, <2>4, <2>5, <2>6
  <2> QED BY <2>7 DEF here, j
<1> HIDE DEF S
<1>9. Nat \subseteq S
  BY <1>7, <1>8, Stepwise
<1> QED BY <1>9 DEF S, RowOver, d

LEMMA OverStays ==
  ASSUME NEW left, NEW right, Len(left) \in Nat, Len(right) \in Nat, NEW limit \in Nat,
         NEW i \in 0..Len(left), RowOver(left, right, limit, i)
  PROVE  RowOver(left, right, limit, Len(left))
<1> DEFINE S == {n \in Nat : i + n <= Len(left) => RowOver(left, right, limit, i + n)}
<1>1. 0 \in S
  BY i + 0 = i
<1>2. ASSUME NEW n \in Nat, n \in S PROVE n + 1 \in S
  <2> SUFFICES ASSUME i + (n + 1) <= Len(left)
               PROVE  RowOver(left, right, limit, i + (n + 1))
    OBVIOUS
  <2>1. RowOver(left, right, limit, i + n)
    BY <1>2
  <2>2. i + (n + 1) \in 1..Len(left) /\ (i + (n + 1)) - 1 = i + n
    OBVIOUS
  <2> QED BY <2>1, <2>2, NextOver
<1> HIDE DEF S
<1>3. Nat \subseteq S
  BY <1>1, <1>2, Stepwise
<1>4. Len(left) - i \in Nat /\ i + (Len(left) - i) = Len(left) /\ Len(left) <= Len(left)
  OBVIOUS
<1> QED BY <1>3, <1>4 DEF S

-----------------------------------------------------------------------------
\* The scan computes the rows of that table, from the two before each.
RowOf(left, right, i) == [j \in 0..Len(right) |-> Distances(left, right)[<<i, j>>]]

LEMMA CellIsDistance ==
  ASSUME NEW left, NEW right, Len(left) \in Nat, Len(right) \in Nat,
         NEW i \in 1..Len(left), NEW j \in 1..Len(right), NEW before,
         i > 1 => before = RowOf(left, right, i - 2)
  PROVE  Cell(left, right, i, j, RowOf(left, right, i - 1), before,
              Distances(left, right)[<<i, j - 1>>])
           = Distances(left, right)[<<i, j>>]
<1> DEFINE d == Distances(left, right)
           above == d[<<i - 1, j>>]
           beside == d[<<i, j - 1>>]
           across == d[<<i - 1, j - 1>>]
           slip == Slip(left, right, i, j)
           edited == Min({above + 1, beside + 1, across + slip})
           here == d[<<i, j>>]
<1>1. above \in Nat /\ beside \in Nat /\ across \in Nat
  <2>1. /\ i \in 0..Len(left) /\ i - 1 \in 0..Len(left)
        /\ j \in 0..Len(right) /\ j - 1 \in 0..Len(right)
    OBVIOUS
  <2> QED BY <2>1, AtLeastApart
<1>2. IsFewest(left, right, d, i, j, here)
  BY WithinTable
<1>3. RowOf(left, right, i - 1)[j] = above /\ RowOf(left, right, i - 1)[j - 1] = across
  BY j \in 0..Len(right), j - 1 \in 0..Len(right) DEF RowOf
<1>4. ASSUME Swapped(left, right, i, j)
      PROVE  before[j - 2] = d[<<i - 2, j - 2>>] /\ d[<<i - 2, j - 2>>] \in Nat
  <2>1. i > 1 /\ j > 1
    BY <1>4 DEF Swapped
  <2>2. i - 2 \in 0..Len(left) /\ j - 2 \in 0..Len(right)
    BY <2>1
  <2>3. d[<<i - 2, j - 2>>] \in Nat
    BY <2>2, AtLeastApart
  <2>4. RowOf(left, right, i - 2)[j - 2] = d[<<i - 2, j - 2>>]
    BY <2>2 DEF RowOf
  <2> QED BY <2>1, <2>3, <2>4
<1>5. Cell(left, right, i, j, RowOf(left, right, i - 1), before, beside)
        = IF Swapped(left, right, i, j) THEN Lesser(edited, before[j - 2] + 1) ELSE edited
  BY <1>3 DEF Cell, Swapped, Slip
<1>6. slip \in {0, 1}
  BY DEF Slip
<1> HIDE DEF d, above, beside, across, slip, here
<1>7. /\ edited \in Nat
      /\ edited <= above + 1 /\ edited <= beside + 1 /\ edited <= across + slip
      /\ edited = above + 1 \/ edited = beside + 1 \/ edited = across + slip
  <2> DEFINE T == {above + 1, beside + 1, across + slip}
  <2>1. T \subseteq Nat /\ T # {}
    BY <1>1, <1>6
  <2>2. Min(T) \in T /\ \A k \in T : Min(T) <= k
    <3> HIDE DEF T
    <3> QED BY <2>1, First
  <2> QED BY <1>1, <1>6, <2>2
<1> HIDE DEF edited
<1>8. CASE ~Swapped(left, right, i, j)
  <2>1. /\ here \in Nat /\ here <= above + 1 /\ here <= beside + 1 /\ here <= across + slip
        /\ here = above + 1 \/ here = beside + 1 \/ here = across + slip
    BY <1>2, <1>8 DEF IsFewest, above, beside, across, slip
  <2>2. here = edited
    BY <1>1, <1>6, <1>7, <2>1
  <2> QED BY <1>5, <1>8, <2>2 DEF d, beside, here
<1>9. CASE Swapped(left, right, i, j)
  <2> DEFINE swap == before[j - 2] + 1
  <2>1. swap \in Nat
    BY <1>4, <1>9
  <2>2. /\ here \in Nat /\ here <= above + 1 /\ here <= beside + 1 /\ here <= across + slip
        /\ here <= swap
        /\ here = above + 1 \/ here = beside + 1 \/ here = across + slip \/ here = swap
    BY <1>2, <1>4, <1>9 DEF IsFewest, above, beside, across, slip
  <2>3. Cell(left, right, i, j, RowOf(left, right, i - 1), before, beside) = Lesser(edited, swap)
    BY <1>5, <1>9
  <2> HIDE DEF swap
  <2>4. Lesser(edited, swap) = here
    BY <1>1, <1>6, <1>7, <2>1, <2>2 DEF Lesser
  <2> QED BY <2>3, <2>4 DEF d, beside, here
<1> QED BY <1>8, <1>9

LEMMA RowIsDistances ==
  ASSUME NEW left, NEW right, Len(left) \in Nat, Len(right) \in Nat,
         NEW i \in 1..Len(left), NEW before,
         i > 1 => before = RowOf(left, right, i - 2)
  PROVE  NextRow(left, right, i, RowOf(left, right, i - 1), before) = RowOf(left, right, i)
<1> DEFINE d == Distances(left, right)
           cell(j, beside) == Cell(left, right, i, j, RowOf(left, right, i - 1), before, beside)
           IsRow(f) == f = [j \in 0..Len(right) |-> IF j = 0 THEN i ELSE cell(j, f[j - 1])]
           current == CHOOSE f : IsRow(f)
<1>1. NextRow(left, right, i, RowOf(left, right, i - 1), before)
        = [j \in 0..Len(right) |-> current[j]]
  BY DEF NextRow
<1>2. \A j \in 1..Len(right) : cell(j, d[<<i, j - 1>>]) = d[<<i, j>>]
  BY CellIsDistance
<1>3. d[<<i, 0>>] = i
  BY i \in 0..Len(left), 0 \in 0..Len(right), OnTheEdge
<1> HIDE DEF cell, d
<1>4. IsRow([j \in 0..Len(right) |-> d[<<i, j>>]])
  <2> DEFINE f == [j \in 0..Len(right) |-> d[<<i, j>>]]
  <2>1. ASSUME NEW j \in 0..Len(right)
        PROVE  f[j] = IF j = 0 THEN i ELSE cell(j, f[j - 1])
    <3>1. CASE j = 0
      BY <1>3, <3>1
    <3>2. CASE j # 0
      <4>1. j \in 1..Len(right) /\ j - 1 \in 0..Len(right)
        BY <3>2
      <4>2. f[j - 1] = d[<<i, j - 1>>] /\ f[j] = d[<<i, j>>]
        BY <4>1
      <4> HIDE DEF f
      <4> QED BY <1>2, <3>2, <4>1, <4>2
    <3> QED BY <3>1, <3>2
  <2>2. f = [j \in 0..Len(right) |-> f[j]]
    OBVIOUS
  <2> HIDE DEF f
  <2>3. IsRow(f)
    BY <2>1, <2>2
  <2> QED BY <2>3 DEF f
<1>5. IsRow(current)
  <2> HIDE DEF IsRow
  <2> QED BY <1>4
<1> HIDE DEF current
<1> DEFINE S == {n \in Nat : n <= Len(right) => current[n] = d[<<i, n>>]}
<1>6. 0 \in S
  BY <1>3, <1>5
<1>7. ASSUME NEW n \in Nat, n \in S PROVE n + 1 \in S
  <2> SUFFICES ASSUME n + 1 <= Len(right) PROVE current[n + 1] = d[<<i, n + 1>>]
    OBVIOUS
  <2>1. n + 1 \in 1..Len(right) /\ n + 1 \in 0..Len(right) /\ (n + 1) - 1 = n /\ n + 1 # 0
    OBVIOUS
  <2>2. current[n] = d[<<i, n>>]
    BY <1>7
  <2>3. current[n + 1] = cell(n + 1, current[n])
    BY <1>5, <2>1
  <2> QED BY <1>2, <2>1, <2>2, <2>3
<1> HIDE DEF S
<1>8. Nat \subseteq S
  BY <1>6, <1>7, Stepwise
<1>9. \A j \in 0..Len(right) : current[j] = d[<<i, j>>]
  BY <1>8 DEF S
<1> QED BY <1>1, <1>9 DEF RowOf, d

\* The recursive function of the rows is what its equation says.
RowAt(left, right, limit, rows, i) ==
    IF i = 0 THEN FirstRow(right) ELSE Scan(left, right, limit, i, rows[i - 1])

RowsUpTo(left, right, limit, n, f) ==
    f = [i \in 0..n |-> RowAt(left, right, limit, f, i)]

LEMMA RowsExist ==
  ASSUME NEW left, NEW right, NEW limit, NEW n \in Nat
  PROVE  \E f : RowsUpTo(left, right, limit, n, f)
<1> DEFINE Upto(f, m) == f = [i \in 0..m |-> RowAt(left, right, limit, f, i)]
           S == {m \in Nat : \E f : Upto(f, m)}
<1>1. 0 \in S
  <2>1. Upto([i \in 0..0 |-> FirstRow(right)], 0)
    BY DEF RowAt
  <2> QED BY <2>1
<1>2. ASSUME NEW m \in Nat, m \in S PROVE m + 1 \in S
  <2>1. PICK f : Upto(f, m)
    BY <1>2
  <2> DEFINE g == [i \in 0..m + 1 |-> RowAt(left, right, limit, f, i)]
  <2>2. ASSUME NEW i \in 0..m + 1 PROVE g[i] = RowAt(left, right, limit, g, i)
    <3>1. i # 0 => i - 1 \in 0..m /\ i - 1 \in 0..m + 1
      OBVIOUS
    <3>2. i # 0 => g[i - 1] = f[i - 1]
      BY <2>1, <3>1
    <3>3. g[i] = RowAt(left, right, limit, f, i)
      OBVIOUS
    <3> HIDE DEF g
    <3> QED BY <3>2, <3>3 DEF RowAt
  <2>3. g = [i \in 0..m + 1 |-> g[i]]
    OBVIOUS
  <2> HIDE DEF g
  <2>4. Upto(g, m + 1)
    BY <2>2, <2>3
  <2> QED BY <2>4
<1> HIDE DEF S
<1>3. Nat \subseteq S
  BY <1>1, <1>2, Stepwise
<1> QED BY <1>3 DEF S, RowsUpTo

LEMMA RowsFilled ==
  ASSUME NEW left, NEW right, NEW limit, Len(left) \in Nat, NEW i \in 0..Len(left)
  PROVE  Rows(left, right, limit)[i] = RowAt(left, right, limit, Rows(left, right, limit), i)
<1> DEFINE Is(f) == RowsUpTo(left, right, limit, Len(left), f)
<1>1. Rows(left, right, limit) = CHOOSE f : Is(f)
  BY DEF Rows, RowAt, RowsUpTo
<1>2. \E f : Is(f)
  BY RowsExist
<1> HIDE DEF Is
<1>3. Is(Rows(left, right, limit))
  BY <1>1, <1>2
<1> QED BY <1>3 DEF Is, RowsUpTo

\* What the scan knows after a row: the last two rows of the table, or that an earlier
\* one was over the limit as a whole.
LEMMA RowsAreDistances ==
  ASSUME NEW left, NEW right, Len(left) \in Nat, Len(right) \in Nat, NEW limit \in Nat,
         NEW i \in 0..Len(left)
  PROVE  LET rows == Rows(left, right, limit)[i]
         IN  \/ /\ ~rows.over
                /\ rows.previous = RowOf(left, right, i)
                /\ i > 0 => rows.before = RowOf(left, right, i - 1)
             \/ rows.over /\ \E k \in 0..i : RowOver(left, right, limit, k)
<1> DEFINE rows == Rows(left, right, limit)
           Exact(k) == /\ ~rows[k].over
                       /\ rows[k].previous = RowOf(left, right, k)
                       /\ k > 0 => rows[k].before = RowOf(left, right, k - 1)
           Over(k) == rows[k].over /\ \E l \in 0..k : RowOver(left, right, limit, l)
           S == {n \in Nat : n <= Len(left) => Exact(n) \/ Over(n)}
<1>1. 0 \in S
  <2>1. rows[0] = FirstRow(right)
    BY RowsFilled, 0 \in 0..Len(left) DEF RowAt
  <2>2. ASSUME NEW j \in 0..Len(right) PROVE Distances(left, right)[<<0, j>>] = j
    BY OnTheEdge, 0 \in 0..Len(left), 0 + j = j
  <2>3. RowOf(left, right, 0) = [j \in 0..Len(right) |-> j]
    BY <2>2 DEF RowOf
  <2> HIDE DEF rows
  <2>4. Exact(0)
    BY <2>1, <2>3 DEF FirstRow
  <2> QED BY <2>4
<1>2. ASSUME NEW n \in Nat, n \in S PROVE n + 1 \in S
  <2> SUFFICES ASSUME n + 1 <= Len(left) PROVE Exact(n + 1) \/ Over(n + 1)
    OBVIOUS
  <2>1. n + 1 \in 1..Len(left) /\ n + 1 \in 0..Len(left) /\ (n + 1) - 1 = n /\ n + 1 # 0
    OBVIOUS
  <2>2. rows[n + 1] = Scan(left, right, limit, n + 1, rows[n])
    BY RowsFilled, <2>1 DEF RowAt
  <2> DEFINE current == NextRow(left, right, n + 1, rows[n].previous, rows[n].before)
  <2>3. CASE Over(n)
    <3>1. rows[n + 1] = rows[n]
      BY <2>2, <2>3 DEF Scan, Scanned
    <3>2. PICK l \in 0..n : RowOver(left, right, limit, l)
      BY <2>3
    <3>3. l \in 0..n + 1
      OBVIOUS
    <3> QED BY <2>3, <3>1, <3>2, <3>3
  <2>4. CASE Exact(n)
    <3>1. current = RowOf(left, right, n + 1)
      <4>1. n + 1 > 1 => n > 0 /\ (n + 1) - 2 = n - 1
        OBVIOUS
      <4>2. n + 1 > 1 => rows[n].before = RowOf(left, right, (n + 1) - 2)
        BY <2>4, <4>1
      <4>3. rows[n].previous = RowOf(left, right, (n + 1) - 1)
        BY <2>1, <2>4
      <4> HIDE DEF rows
      <4> QED BY <2>1, <4>2, <4>3, RowIsDistances
    <3>2. rows[n + 1] = [over |-> \A c \in DOMAIN current : current[c] > limit,
                         before |-> rows[n].previous, previous |-> current]
      BY <2>2, <2>4 DEF Scan, Scanned
    <3> HIDE DEF rows, current
    <3>3. /\ rows[n + 1].over <=> \A c \in DOMAIN current : current[c] > limit
          /\ rows[n + 1].before = rows[n].previous
          /\ rows[n + 1].previous = current
      BY <3>2
    <3>4. rows[n + 1].over <=> RowOver(left, right, limit, n + 1)
      BY <3>1, <3>3 DEF RowOf, RowOver
    <3>5. CASE rows[n + 1].over
      BY <3>4, <3>5, n + 1 \in 0..n + 1
    <3>6. CASE ~rows[n + 1].over
      BY <2>1, <2>4, <3>1, <3>3, <3>6
    <3> QED BY <3>5, <3>6
  <2>5. Exact(n) \/ Over(n)
    BY <1>2, n <= Len(left)
  <2> QED BY <2>3, <2>4, <2>5
<1> HIDE DEF S
<1>3. Nat \subseteq S
  BY <1>1, <1>2, Stepwise
<1> QED BY <1>3 DEF S

\* The bounded distance of the matcher is the distance wherever that is within the limit,
\* and is over the limit wherever it is not: for words of any letters and any length.
THEOREM DistanceIsExact ==
  ASSUME NEW left, NEW right, Len(left) \in Nat, Len(right) \in Nat, NEW limit \in Nat
  PROVE  StopsEarlySoundly(left, right, limit) /\ EditDistance(left, right, limit) \in Nat
<1> DEFINE n == Len(left)
           m == Len(right)
           end == Rows(left, right, limit)[n]
           distance == Distances(left, right)[<<n, m>>]
           apart == Greater(n - m, m - n)
<1>1. n \in Nat /\ m \in Nat /\ n \in 0..n /\ m \in 0..m
  OBVIOUS
<1>2. distance \in Nat /\ n - m <= distance /\ m - n <= distance
  BY <1>1, AtLeastApart
<1>3. \/ ~end.over /\ end.previous = RowOf(left, right, n)
      \/ end.over /\ \E k \in 0..n : RowOver(left, right, limit, k)
  BY <1>1, RowsAreDistances
<1>4. end.over => distance > limit
  <2> SUFFICES ASSUME end.over PROVE distance > limit
    OBVIOUS
  <2>1. PICK k \in 0..n : RowOver(left, right, limit, k)
    BY <1>3
  <2>2. RowOver(left, right, limit, n)
    BY <1>1, <2>1, OverStays
  <2> QED BY <1>1, <2>2 DEF RowOver
<1>5. ~end.over => end.previous[m] = distance
  BY <1>1, <1>3 DEF RowOf
<1>6. apart > limit => distance > limit
  <2> HIDE DEF n, m, distance
  <2> QED BY <1>1, <1>2 DEF Greater
<1>7. EditDistance(left, right, limit)
        = IF apart > limit \/ end.over THEN limit + 1 ELSE end.previous[m]
  BY DEF EditDistance, Measured
<1>8. Distance(left, right) = distance
  BY DEF Distance
<1>9. StopsEarlySoundly(left, right, limit)
        <=> (IF distance <= limit THEN EditDistance(left, right, limit) = distance
             ELSE EditDistance(left, right, limit) > limit)
  BY <1>8 DEF StopsEarlySoundly
<1> HIDE DEF n, m, end, distance, apart
<1>10. CASE apart > limit \/ end.over
  BY <1>2, <1>4, <1>6, <1>7, <1>9, <1>10
<1>11. CASE ~(apart > limit \/ end.over)
  BY <1>2, <1>5, <1>7, <1>9, <1>11
<1> QED BY <1>10, <1>11

\* Whatever request is looked up, the words that the runs compare are compared exactly: on
\* them as on all others the scan that gives up early is sound.
THEOREM AbandonmentSafe == EverySpec => []AbandonmentIsSound
<1>1. ScanIsExact
  <2> SUFFICES ASSUME NEW left \in BoundedSeq(Letters, MaxLetters),
                      NEW right \in BoundedSeq(Letters, MaxLetters), NEW limit \in 0..MaxLetters
               PROVE  StopsEarlySoundly(left, right, limit)
    BY DEF ScanIsExact
  <2>1. BoundedSeq(Letters, MaxLetters) \subseteq Seq(Letters)
    BY MaxLettersAssumption DEF BoundedSeq, SeqOf
  <2>2. limit \in Nat
    BY MaxLettersAssumption
  <2> QED BY <2>1, <2>2, DistanceIsExact
<1>2. AbandonmentIsSound
  BY <1>1 DEF AbandonmentIsSound
<1> QED BY <1>2, PTL

-----------------------------------------------------------------------------
(* The score *)

LEMMA DictionaryPlaces ==
  /\ Len(Dictionary) \in Nat /\ DOMAIN Dictionary = 1..Len(Dictionary)
  /\ \A n \in 1..Len(Dictionary) : Dictionary[n] \in Words
  /\ \A word \in Words : \E n \in 1..Len(Dictionary) : Dictionary[n] = word
  /\ \A i, j \in 1..Len(Dictionary) : Dictionary[i] = Dictionary[j] => i = j
<1>1. Len(Dictionary) \in Nat /\ DOMAIN Dictionary = 1..Len(Dictionary)
  BY DictionaryAssumption
<1> QED BY <1>1, DictionaryAssumption DEF Words, Range

LEMMA QuotientWithin ==
  ASSUME NEW a \in Nat, NEW b \in Nat \ {0}, NEW k \in Nat, a <= k * b
  PROVE  a \div b \in 0..k
<1> DEFINE q == a \div b
<1>1. q \in Int /\ a = b * q + (a % b) /\ a % b \in 0..b - 1
  OBVIOUS
<1>2. q >= 0
  <2> SUFFICES ASSUME q <= -1 PROVE FALSE
    BY <1>1
  <2>1. b * q <= -b
    BY <1>1
  <2> QED BY <1>1, <2>1
<1>3. q <= k
  <2> SUFFICES ASSUME q >= k + 1 PROVE FALSE
    BY <1>1
  <2>1. b * q >= b * (k + 1)
    BY <1>1
  <2>2. b * (k + 1) = k * b + b
    OBVIOUS
  <2> QED BY <1>1, <2>1, <2>2
<1> QED BY <1>1, <1>2, <1>3

LEMMA LikenessIsTenths ==
  ASSUME NEW left \in Words, NEW right \in Words
  PROVE  Likeness[<<left, right>>] \in 0..10
<1> DEFINE l == Spelling[left]
           r == Spelling[right]
           longest == Greater(Len(l), Len(r))
           tolerance == (MaxSlipTenths * longest) \div 10
           distance == EditDistance(l, r, tolerance)
           fuzzy == {left, right} \subseteq DOMAIN Spelling
                    /\ Lesser(Len(l), Len(r)) >= MinFuzzyLength
                    /\ l[1] = r[1] /\ tolerance > 0 /\ distance <= tolerance
<1>1. Likeness[<<left, right>>] = Similarity(left, right)
  BY DEF Likeness
<1>2. Similarity(left, right) =
        IF left = right THEN 10
        ELSE IF fuzzy THEN 10 - (10 * distance) \div longest ELSE 0
  BY DEF Similarity, LessSlips, Tenths
<1>3. ASSUME fuzzy PROVE (10 * distance) \div longest \in 0..10
  <2>1. Len(l) \in Nat \ {0} /\ Len(r) \in Nat \ {0}
    BY <1>3, DictionaryAssumption
  <2>2. longest \in Nat \ {0}
    BY <2>1 DEF Greater
  <2> HIDE DEF longest
  <2>3. tolerance \in Nat /\ tolerance <= longest
    BY <2>2 DEF MaxSlipTenths
  <2>4. distance \in Nat
    <3> HIDE DEF l, r, tolerance
    <3> QED BY <2>1, <2>3, DistanceIsExact
  <2>5. distance <= longest
    BY <1>3, <2>2, <2>3, <2>4
  <2> HIDE DEF distance, tolerance
  <2>6. 10 * distance \in Nat /\ 10 * distance <= 10 * longest
    BY <2>2, <2>4, <2>5
  <2> QED BY <2>2, <2>6, QuotientWithin
<1> HIDE DEF fuzzy, distance, longest
<1> QED BY <1>1, <1>2, <1>3

-----------------------------------------------------------------------------
\* The weight of a text is that of its concepts and that of its other words.
LEMMA WeightIs == \A token : Weight(token) = IF token \in Concepts THEN 4 ELSE 1
  BY DEF Weight, ConceptWeight, ValueWeight

CountOf(S) == 4 * Cardinality(S \cap Concepts) + Cardinality(S \ Concepts)

LEMMA CountOfLess ==
  ASSUME NEW S, IsFiniteSet(S), NEW x \in S
  PROVE  CountOf(S) = Weight(x) + CountOf(S \ {x})
<1>1. IsFiniteSet(S \cap Concepts) /\ IsFiniteSet(S \ Concepts)
  BY FS_Subset
<1>2. /\ (S \ {x}) \cap Concepts = (S \cap Concepts) \ {x}
      /\ (S \ {x}) \ Concepts = (S \ Concepts) \ {x}
  OBVIOUS
<1>3. /\ Cardinality(S \cap Concepts) \in Nat
      /\ Cardinality(S \ Concepts) \in Nat
  BY <1>1, FS_CardinalityType
<1>4. /\ Cardinality((S \cap Concepts) \ {x}) =
           IF x \in S \cap Concepts THEN Cardinality(S \cap Concepts) - 1
           ELSE Cardinality(S \cap Concepts)
      /\ Cardinality((S \ Concepts) \ {x}) =
           IF x \in S \ Concepts THEN Cardinality(S \ Concepts) - 1
           ELSE Cardinality(S \ Concepts)
  BY <1>1, FS_RemoveElement
<1>5. CASE x \in Concepts
  <2>1. Cardinality((S \cap Concepts) \ {x}) = Cardinality(S \cap Concepts) - 1
    BY <1>4, <1>5
  <2>2. Cardinality((S \ Concepts) \ {x}) = Cardinality(S \ Concepts)
    BY <1>4, <1>5
  <2>3. Weight(x) = 4
    BY <1>5, WeightIs
  <2>4. CountOf(S \ {x}) = 4 * (Cardinality(S \cap Concepts) - 1) + Cardinality(S \ Concepts)
    BY <1>2, <2>1, <2>2 DEF CountOf
  <2> QED BY <1>3, <2>3, <2>4 DEF CountOf
<1>6. CASE x \notin Concepts
  <2>1. Cardinality((S \cap Concepts) \ {x}) = Cardinality(S \cap Concepts)
    BY <1>4, <1>6
  <2>2. Cardinality((S \ Concepts) \ {x}) = Cardinality(S \ Concepts) - 1
    BY <1>4, <1>6
  <2>3. Weight(x) = 1
    BY <1>6, WeightIs
  <2>4. CountOf(S \ {x}) = 4 * Cardinality(S \cap Concepts) + (Cardinality(S \ Concepts) - 1)
    BY <1>2, <2>1, <2>2 DEF CountOf
  <2> QED BY <1>3, <2>3, <2>4 DEF CountOf
<1> QED BY <1>5, <1>6

Some(S) == CHOOSE x \in S : TRUE
SumOver(S, sum) ==
    sum = [s \in SUBSET S |-> IF s = {} THEN 0 ELSE Weight(Some(s)) + sum[s \ {Some(s)}]]

LEMMA WeighIs ==
  ASSUME NEW S, IsFiniteSet(S)
  PROVE  Weigh(S) = 10 * CountOf(S) /\ CountOf(S) \in Nat
<1> DEFINE sum == CHOOSE sum : SumOver(S, sum)
<1>1. Weigh(S) = 10 * sum[S]
  BY Zenon DEF Weigh, Tenths, MapThenSumSet, MapThenFoldSet, SumOver, Some
<1>2. \A s \in SUBSET S : IsFiniteSet(s)
  BY FS_Subset
<1>3. CountOf({}) = 0
  BY FS_EmptySet, {} \cap Concepts = {}, {} \ Concepts = {} DEF CountOf
<1>4. \A s \in SUBSET S : s # {} => CountOf(s) = Weight(Some(s)) + CountOf(s \ {Some(s)})
  BY <1>2, CountOfLess DEF Some
<1>5. SumOver(S, sum)
  <2> DEFINE count == [s \in SUBSET S |-> CountOf(s)]
  <2>1. ASSUME NEW s \in SUBSET S
        PROVE  count[s] = IF s = {} THEN 0 ELSE Weight(Some(s)) + count[s \ {Some(s)}]
    BY <1>3, <1>4
  <2>2. count = [s \in SUBSET S |-> count[s]]
    OBVIOUS
  <2> HIDE DEF count
  <2>3. SumOver(S, count)
    BY <2>1, <2>2 DEF SumOver
  <2> QED BY <2>3
<1> HIDE DEF sum
<1> DEFINE T == {n \in Nat : \A s \in SUBSET S : Cardinality(s) = n => sum[s] = CountOf(s)}
<1>6. 0 \in T
  <2> SUFFICES ASSUME NEW s \in SUBSET S, Cardinality(s) = 0 PROVE sum[s] = CountOf(s)
    OBVIOUS
  <2>1. s = {}
    BY <1>2, FS_EmptySet
  <2> QED BY <1>3, <1>5, <2>1 DEF SumOver
<1>7. ASSUME NEW n \in Nat, n \in T PROVE n + 1 \in T
  <2> SUFFICES ASSUME NEW s \in SUBSET S, Cardinality(s) = n + 1 PROVE sum[s] = CountOf(s)
    OBVIOUS
  <2>1. s # {}
    BY FS_EmptySet
  <2>2. Some(s) \in s
    BY <2>1 DEF Some
  <2>3. Cardinality(s \ {Some(s)}) = n
    BY <1>2, <2>2, FS_RemoveElement
  <2>4. sum[s \ {Some(s)}] = CountOf(s \ {Some(s)})
    BY <1>7, <2>3
  <2>5. sum[s] = Weight(Some(s)) + sum[s \ {Some(s)}]
    BY <1>5, <2>1 DEF SumOver
  <2> QED BY <1>4, <2>1, <2>4, <2>5
<1> HIDE DEF T
<1>8. Nat \subseteq T
  BY <1>6, <1>7, Stepwise
<1>9. Cardinality(S) \in Nat
  BY FS_CardinalityType
<1>10. sum[S] = CountOf(S)
  BY <1>8, <1>9 DEF T
<1>11. CountOf(S) \in Nat
  <2>1. IsFiniteSet(S \cap Concepts) /\ IsFiniteSet(S \ Concepts)
    BY FS_Subset
  <2> QED BY <2>1, FS_CardinalityType DEF CountOf
<1> QED BY <1>1, <1>10, <1>11

LEMMA WeighMore ==
  ASSUME NEW S, IsFiniteSet(S), NEW x, x \notin S
  PROVE  Weigh(S \cup {x}) = Weigh(S) + 10 * Weight(x)
<1>1. IsFiniteSet(S \cup {x}) /\ (S \cup {x}) \ {x} = S
  BY FS_AddElement
<1>2. CountOf(S \cup {x}) = Weight(x) + CountOf(S)
  BY <1>1, CountOfLess
<1> QED BY <1>1, <1>2, WeighIs, WeightIs

LEMMA WeighApart ==
  ASSUME NEW S, NEW T, IsFiniteSet(S), IsFiniteSet(T), S \cap T = {}
  PROVE  Weigh(S \cup T) = Weigh(S) + Weigh(T)
<1>1. /\ IsFiniteSet(S \cap Concepts) /\ IsFiniteSet(S \ Concepts)
      /\ IsFiniteSet(T \cap Concepts) /\ IsFiniteSet(T \ Concepts)
      /\ IsFiniteSet(S \cup T)
  BY FS_Subset, FS_Union
<1>2. /\ (S \cup T) \cap Concepts = (S \cap Concepts) \cup (T \cap Concepts)
      /\ (S \cup T) \ Concepts = (S \ Concepts) \cup (T \ Concepts)
      /\ (S \cap Concepts) \cap (T \cap Concepts) = {}
      /\ (S \ Concepts) \cap (T \ Concepts) = {}
  OBVIOUS
<1>3. /\ Cardinality(S \cap Concepts) \in Nat /\ Cardinality(T \cap Concepts) \in Nat
      /\ Cardinality(S \ Concepts) \in Nat /\ Cardinality(T \ Concepts) \in Nat
  BY <1>1, FS_CardinalityType
<1>4. /\ Cardinality((S \cup T) \cap Concepts)
           = Cardinality(S \cap Concepts) + Cardinality(T \cap Concepts)
      /\ Cardinality((S \cup T) \ Concepts)
           = Cardinality(S \ Concepts) + Cardinality(T \ Concepts)
  <2>1. \A A, B : IsFiniteSet(A) /\ IsFiniteSet(B) /\ A \cap B = {} =>
          Cardinality(A \cup B) = Cardinality(A) + Cardinality(B)
    <3> SUFFICES ASSUME NEW A, NEW B, IsFiniteSet(A), IsFiniteSet(B), A \cap B = {}
                 PROVE  Cardinality(A \cup B) = Cardinality(A) + Cardinality(B)
      OBVIOUS
    <3>1. Cardinality(A \cup B) = Cardinality(A) + Cardinality(B) - Cardinality({})
      BY FS_Union
    <3>2. Cardinality(A) \in Nat /\ Cardinality(B) \in Nat
      BY FS_CardinalityType
    <3> QED BY <3>1, <3>2, FS_EmptySet
  <2> QED BY <1>1, <1>2, <2>1
<1>5. CountOf(S \cup T) = CountOf(S) + CountOf(T)
  BY <1>3, <1>4 DEF CountOf
<1> QED BY <1>1, <1>5, WeighIs

\* A part weighs no more than the whole, and whatever is weighed weighs a number of tenths.
LEMMA WeighPart ==
  ASSUME NEW S, IsFiniteSet(S), NEW T \in SUBSET S
  PROVE  Weigh(T) \in Nat /\ Weigh(S) \in Nat /\ Weigh(T) <= Weigh(S)
<1>1. IsFiniteSet(T) /\ IsFiniteSet(S \ T) /\ S = T \cup (S \ T) /\ T \cap (S \ T) = {}
  BY FS_Subset
<1>2. Weigh(S) = Weigh(T) + Weigh(S \ T)
  BY <1>1, WeighApart
<1> QED BY <1>1, <1>2, WeighIs

-----------------------------------------------------------------------------
\* What is alike has a closest, the first of equals.
LEMMA ClosestIsAlike ==
  ASSUME NEW word \in Words, NEW others \in SUBSET Words, Alike(word, others) # {}
  PROVE  Closest(word, others) \in Alike(word, others)
<1> DEFINE like(other) == Likeness[<<word, other>>]
           gaps == {10 - like(other) : other \in Alike(word, others)}
           gap == Min(gaps)
           nearest == {other \in Alike(word, others) : like(other) = 10 - gap}
           places == {n \in 1..Len(Dictionary) : Dictionary[n] \in nearest}
           one == Dictionary[Min(places)]
<1>1. \A other \in others : like(other) \in 0..10
  BY LikenessIsTenths
<1>2. Alike(word, others) \subseteq others
  BY DEF Alike
<1>3. gap \in gaps /\ \A k \in gaps : gap <= k
  <2>1. \A other \in Alike(word, others) : 10 - like(other) \in Nat
    <3> HIDE DEF like
    <3> QED BY <1>1, <1>2
  <2>2. gaps \subseteq Nat /\ gaps # {}
    <3> HIDE DEF like
    <3> QED BY <2>1
  <2> HIDE DEF gaps
  <2> QED BY <2>2, First
<1>4. gap \in Nat /\ nearest # {} /\ \A other \in Alike(word, others) : gap <= 10 - like(other)
  <2> HIDE DEF like, gap
  <2>1. PICK other \in Alike(word, others) : gap = 10 - like(other)
    BY <1>3
  <2>2. like(other) \in 0..10 /\ like(other) = 10 - gap
    BY <1>1, <1>2, <2>1
  <2>3. gap \in Nat
    BY <2>1, <2>2
  <2>4. \A near \in Alike(word, others) : gap <= 10 - like(near)
    BY <1>3
  <2> QED BY <2>2, <2>3, <2>4
<1> HIDE DEF gap
<1>5. Min(places) \in places /\ \A k \in places : Min(places) <= k
  <2>1. PICK other \in nearest : TRUE
    BY <1>4
  <2>2. \E n \in 1..Len(Dictionary) : Dictionary[n] = other
    BY <1>2, <2>1, DictionaryPlaces
  <2>3. places # {} /\ places \subseteq Nat
    BY <2>2
  <2> HIDE DEF places
  <2> QED BY <2>3, First
<1>6. /\ one \in Alike(word, others) /\ like(one) = 10 - gap
      /\ Min(places) \in DOMAIN Dictionary
  BY <1>5, DictionaryPlaces
<1>7. ASSUME NEW other \in others PROVE Closer(word, one, other)
  <2>1. like(other) \in 0..10 /\ like(one) \in 0..10 /\ like(one) > 0
    BY <1>1, <1>2, <1>6 DEF Alike
  <2>2. CASE other \notin Alike(word, others)
    BY <2>1, <2>2 DEF Alike, Closer
  <2>3. CASE other \in Alike(word, others) /\ like(other) < like(one)
    BY <2>3, <2>1 DEF Closer
  <2>4. CASE other \in Alike(word, others) /\ like(other) >= like(one)
    <3>1. like(other) = like(one) /\ other \in nearest
      BY <1>4, <1>6, <2>1, <2>4
    <3>2. PICK n \in 1..Len(Dictionary) : Dictionary[n] = other
      BY DictionaryPlaces
    <3>3. n \in places /\ n \in DOMAIN Dictionary
      BY <3>1, <3>2, DictionaryPlaces
    <3>4. Min(places) <= n
      BY <1>5, <3>3
    <3>5. ComesFirst(one, other)
      <4> HIDE DEF places
      <4> QED BY <1>6, <3>2, <3>3, <3>4 DEF ComesFirst
    <3> QED BY <3>1, <3>5 DEF Closer
  <2> QED BY <2>1, <2>2, <2>3, <2>4
<1> HIDE DEF one
<1>8. \E w \in Alike(word, others) : \A other \in others : Closer(word, w, other)
  BY <1>6, <1>7
<1> QED BY <1>8 DEF Closest

-----------------------------------------------------------------------------
\* The recursive function of the pairing is what its equation says.
PairingAt(query, candidate, pairing, n) ==
    IF n = 0 THEN [unpaired |-> candidate \ query, total |-> Weigh(query \cap candidate)]
    ELSE IF Dictionary[n] \in query \ candidate
         THEN Paired(pairing[n - 1], Dictionary[n]) ELSE pairing[n - 1]

PairingUpTo(query, candidate, m, pairing) ==
    pairing = [n \in 0..m |-> PairingAt(query, candidate, pairing, n)]

LEMMA PairingExists ==
  ASSUME NEW query, NEW candidate, NEW m \in Nat
  PROVE  \E f : PairingUpTo(query, candidate, m, f)
<1> DEFINE S == {n \in Nat : \E f : PairingUpTo(query, candidate, n, f)}
<1>1. 0 \in S
  <2> DEFINE f == [n \in 0..0 |-> PairingAt(query, candidate, <<>>, 0)]
  <2>1. PairingUpTo(query, candidate, 0, f)
    BY DEF PairingAt, PairingUpTo
  <2> QED BY <2>1
<1>2. ASSUME NEW n \in Nat, n \in S PROVE n + 1 \in S
  <2>1. PICK f : PairingUpTo(query, candidate, n, f)
    BY <1>2
  <2> DEFINE g == [i \in 0..n + 1 |-> PairingAt(query, candidate, f, i)]
  <2>2. ASSUME NEW i \in 0..n + 1 PROVE g[i] = PairingAt(query, candidate, g, i)
    <3>1. i # 0 => i - 1 \in 0..n /\ i - 1 \in 0..n + 1
      OBVIOUS
    <3>2. i # 0 => g[i - 1] = f[i - 1]
      BY <2>1, <3>1 DEF PairingUpTo
    <3>3. g[i] = PairingAt(query, candidate, f, i)
      OBVIOUS
    <3> HIDE DEF g
    <3> QED BY <3>2, <3>3 DEF PairingAt
  <2>3. g = [i \in 0..n + 1 |-> g[i]]
    OBVIOUS
  <2> HIDE DEF g
  <2>4. PairingUpTo(query, candidate, n + 1, g)
    BY <2>2, <2>3 DEF PairingUpTo
  <2> QED BY <2>4
<1> HIDE DEF S
<1>3. Nat \subseteq S
  BY <1>1, <1>2, Stepwise
<1> QED BY <1>3 DEF S

LEMMA PairingFilled ==
  ASSUME NEW query, NEW candidate, NEW n \in 0..Len(Dictionary)
  PROVE  Pairing(query, candidate)[n]
           = PairingAt(query, candidate, Pairing(query, candidate), n)
<1> DEFINE Is(f) == PairingUpTo(query, candidate, Len(Dictionary), f)
<1>1. Pairing(query, candidate) = CHOOSE f : Is(f)
  BY DEF Pairing, PairingAt, PairingUpTo
<1>2. \E f : Is(f)
  BY PairingExists, DictionaryPlaces
<1> HIDE DEF Is
<1>3. Is(Pairing(query, candidate))
  BY <1>1, <1>2
<1> QED BY <1>3 DEF Is, PairingUpTo

LEMMA WordsAreFinite == IsFiniteSet(Words) /\ \A S \in SUBSET Words : IsFiniteSet(S)
<1>1. Dictionary \in Seq(Words)
  BY DictionaryAssumption, DictionaryPlaces
<1>2. IsFiniteSet(Words)
  BY <1>1, DictionaryPlaces DEF IsFiniteSet
<1> QED BY <1>2, FS_Subset

\* The part of a text that comes first in the alphabet.
UpTo(S, n) == {word \in S : \E k \in 1..n : Dictionary[k] = word}

\* What two texts are found to share is no more than either of them has, and no less than
\* what they have in common: a leftover is paired once.
PairingHolds(query, candidate, n) ==
    LET acc == Pairing(query, candidate)[n]
        common == Weigh(query \cap candidate)
    IN  /\ acc.unpaired \subseteq candidate \ query
        /\ acc.total \in Nat
        /\ common <= acc.total
        /\ acc.total <= common + Weigh(UpTo(query \ candidate, n))
        /\ acc.total <= common + Weigh((candidate \ query) \ acc.unpaired)

LEMMA PairedGains ==
  ASSUME NEW word \in Words, NEW unpaired \in SUBSET Words, NEW total \in Nat,
         Alike(word, unpaired) # {}
  PROVE  \E other \in unpaired, gain \in Nat :
           /\ Paired([unpaired |-> unpaired, total |-> total], word)
                = [unpaired |-> unpaired \ {other}, total |-> total + gain]
           /\ gain <= 10 * Weight(word) /\ gain <= 10 * Weight(other)
<1> DEFINE other == Closest(word, unpaired)
           like == Likeness[<<word, other>>]
           gain == like * Lesser(Weight(word), Weight(other))
<1>1. other \in unpaired
  BY ClosestIsAlike DEF Alike
<1>2. like \in 0..10
  BY <1>1, LikenessIsTenths
<1>3. /\ Weight(word) \in Nat /\ Weight(other) \in Nat
      /\ Lesser(Weight(word), Weight(other)) \in Nat
      /\ Lesser(Weight(word), Weight(other)) <= Weight(word)
      /\ Lesser(Weight(word), Weight(other)) <= Weight(other)
  BY WeightIs DEF Lesser
<1>4. gain \in Nat /\ gain <= 10 * Weight(word) /\ gain <= 10 * Weight(other)
  <2> DEFINE lesser == Lesser(Weight(word), Weight(other))
  <2> HIDE DEF lesser, like, other
  <2>1. lesser \in Nat /\ lesser <= Weight(word) /\ lesser <= Weight(other)
    BY <1>3 DEF lesser
  <2>2. like * lesser \in Nat /\ like * lesser <= 10 * lesser
    BY <1>2, <2>1
  <2> QED BY <1>3, <2>1, <2>2 DEF lesser
<1>5. Paired([unpaired |-> unpaired, total |-> total], word)
        = [unpaired |-> unpaired \ {other}, total |-> total + gain]
  BY DEF Paired, Taken
<1> HIDE DEF other, gain
<1> QED BY <1>1, <1>4, <1>5

LEMMA PairingSound ==
  ASSUME NEW query \in SUBSET Words, NEW candidate \in SUBSET Words,
         NEW n \in 0..Len(Dictionary)
  PROVE  PairingHolds(query, candidate, n)
<1> DEFINE pairing == Pairing(query, candidate)
           left == query \ candidate
           right == candidate \ query
           common == Weigh(query \cap candidate)
           S == {m \in Nat : m <= Len(Dictionary) => PairingHolds(query, candidate, m)}
<1>1. /\ IsFiniteSet(left) /\ IsFiniteSet(right) /\ IsFiniteSet(query \cap candidate)
      /\ common \in Nat
  BY WordsAreFinite, WeighPart
<1>2. Weigh({}) = 0
  <2>1. CountOf({}) = 0
    BY FS_EmptySet, {} \cap Concepts = {}, {} \ Concepts = {} DEF CountOf
  <2> QED BY <2>1, FS_EmptySet, WeighIs
<1>3. 0 \in S
  <2>1. pairing[0] = [unpaired |-> right, total |-> common]
    BY PairingFilled, DictionaryPlaces DEF PairingAt
  <2>2. UpTo(left, 0) = {} /\ right \ right = {}
    BY DEF UpTo
  <2>3. pairing[0].unpaired = right /\ pairing[0].total = common
    BY <2>1
  <2>4. PairingHolds(query, candidate, 0)
    <3> DEFINE unpaired == Pairing(query, candidate)[0].unpaired
               total == Pairing(query, candidate)[0].total
    <3>1. unpaired = right /\ total = common
      BY <2>3
    <3> HIDE DEF unpaired, total
    <3>2. Weigh(UpTo(left, 0)) = 0 /\ Weigh(right \ unpaired) = 0
      BY <1>2, <2>2, <3>1
    <3> HIDE DEF right, common, left
    <3>3. /\ unpaired \subseteq right /\ total \in Nat /\ common <= total
          /\ total <= common + Weigh(UpTo(left, 0)) /\ total <= common + Weigh(right \ unpaired)
      BY <1>1, <3>1, <3>2
    <3> QED BY <3>3 DEF PairingHolds, unpaired, total, right, common, left
  <2> QED BY <2>4
<1>4. ASSUME NEW m \in Nat, m \in S PROVE m + 1 \in S
  <2> SUFFICES ASSUME m + 1 <= Len(Dictionary) PROVE PairingHolds(query, candidate, m + 1)
    OBVIOUS
  <2> DEFINE acc == pairing[m]
             word == Dictionary[m + 1]
  <2>1. PairingHolds(query, candidate, m)
    BY <1>4, DictionaryPlaces
  <2>2. m + 1 \in 0..Len(Dictionary) /\ m + 1 \in 1..Len(Dictionary) /\ (m + 1) - 1 = m
    BY DictionaryPlaces
  <2>3. word \in Words
    BY <2>2, DictionaryPlaces
  <2>4. pairing[m + 1] = IF word \in left THEN Paired(acc, word) ELSE acc
    <3>1. pairing[m + 1] = PairingAt(query, candidate, pairing, m + 1)
      BY <2>2, PairingFilled
    <3>2. m + 1 # 0
      OBVIOUS
    <3> HIDE DEF pairing
    <3> QED BY <2>2, <3>1, <3>2 DEF PairingAt
  <2>5. /\ word \in left => UpTo(left, m + 1) = UpTo(left, m) \cup {word}
        /\ word \notin left => UpTo(left, m + 1) = UpTo(left, m)
        /\ word \notin UpTo(left, m)
    <3>1. \A k \in 1..m + 1 : k \in 1..m \/ k = m + 1
      OBVIOUS
    <3>2. \A k \in 1..m : k \in 1..m + 1 /\ k \in 1..Len(Dictionary) /\ k # m + 1
      BY <2>2
    <3>3. \A k \in 1..m : Dictionary[k] # word
      BY <2>2, <3>2, DictionaryPlaces
    <3>4. m + 1 \in 1..m + 1
      OBVIOUS
    <3> QED BY <3>1, <3>2, <3>3, <3>4 DEF UpTo
  <2>6. IsFiniteSet(UpTo(left, m)) /\ Weigh(UpTo(left, m)) \in Nat
    BY <1>1, FS_Subset, WeighPart DEF UpTo
  <2>7. /\ acc.unpaired \subseteq right /\ acc.total \in Nat /\ common <= acc.total
        /\ acc.total <= common + Weigh(UpTo(left, m))
        /\ acc.total <= common + Weigh(right \ acc.unpaired)
    BY <2>1 DEF PairingHolds
  <2>8. CASE word \in left /\ Alike(word, acc.unpaired) # {}
    <3> DEFINE unpaired == acc.unpaired
               total == acc.total
    <3>1. unpaired \in SUBSET Words /\ total \in Nat
      BY <2>7
    <3>2. Paired(acc, word) = Paired([unpaired |-> unpaired, total |-> total], word)
      <4> HIDE DEF acc, word
      <4> QED BY <2>8 DEF Paired, Taken
    <3>3. PICK other \in unpaired, gain \in Nat :
            /\ Paired([unpaired |-> unpaired, total |-> total], word)
                 = [unpaired |-> unpaired \ {other}, total |-> total + gain]
            /\ gain <= 10 * Weight(word) /\ gain <= 10 * Weight(other)
      BY <2>3, <2>8, <3>1, PairedGains
    <3>4. pairing[m + 1] = [unpaired |-> unpaired \ {other}, total |-> total + gain]
      BY <2>4, <2>8, <3>2, <3>3
    <3> HIDE DEF pairing
    <3>5. pairing[m + 1].unpaired = unpaired \ {other}
          /\ pairing[m + 1].total = total + gain
      BY <3>4
    <3>6. Weigh(UpTo(left, m + 1)) = Weigh(UpTo(left, m)) + 10 * Weight(word)
      BY <2>5, <2>6, <2>8, WeighMore
    <3>7. /\ Weigh(right \ (unpaired \ {other})) = Weigh(right \ unpaired) + 10 * Weight(other)
          /\ Weigh(right \ unpaired) \in Nat
      <4>1. right \ (unpaired \ {other}) = (right \ unpaired) \cup {other}
        BY <2>7
      <4>2. IsFiniteSet(right \ unpaired) /\ other \notin right \ unpaired
        BY <1>1, FS_Subset
      <4> QED BY <4>1, <4>2, WeighMore, WeighIs
    <3>8. Weight(word) \in Nat /\ Weight(other) \in Nat
      BY WeightIs
    <3>9. /\ unpaired \ {other} \subseteq right
          /\ total + gain \in Nat /\ common <= total + gain
          /\ total + gain <= common + Weigh(UpTo(left, m + 1))
          /\ total + gain <= common + Weigh(right \ (unpaired \ {other}))
      <4> HIDE DEF common, left, right, unpaired, total, word
      <4>1. unpaired \subseteq right /\ total \in Nat /\ common \in Nat /\ common <= total
            /\ total <= common + Weigh(UpTo(left, m))
            /\ total <= common + Weigh(right \ unpaired)
        BY <1>1, <2>7 DEF unpaired, total
      <4>2. gain <= 10 * Weight(word) /\ gain <= 10 * Weight(other)
        BY <3>3
      <4>3. total + gain <= common + Weigh(UpTo(left, m + 1))
        BY <2>6, <3>6, <3>8, <4>1, <4>2
      <4>4. total + gain <= common + Weigh(right \ (unpaired \ {other}))
        BY <3>7, <3>8, <4>1, <4>2
      <4> QED BY <4>1, <4>3, <4>4
    <3> QED BY <3>5, <3>9 DEF PairingHolds, pairing
  <2>9. CASE ~(word \in left /\ Alike(word, acc.unpaired) # {})
    <3>1. pairing[m + 1] = acc
      BY <2>4, <2>9 DEF Paired, Taken
    <3>2. Weigh(UpTo(left, m)) <= Weigh(UpTo(left, m + 1)) /\ Weigh(UpTo(left, m + 1)) \in Nat
      <4>1. UpTo(left, m) \subseteq UpTo(left, m + 1) /\ IsFiniteSet(UpTo(left, m + 1))
        BY <1>1, <2>5, FS_Subset DEF UpTo
      <4> QED BY <4>1, WeighPart
    <3>3. acc.total <= common + Weigh(UpTo(left, m + 1))
      <4> HIDE DEF acc, left, common
      <4> QED BY <1>1, <2>6, <2>7, <3>2
    <3> HIDE DEF acc
    <3> QED BY <2>7, <3>1, <3>3 DEF PairingHolds
  <2> QED BY <2>8, <2>9
<1> HIDE DEF S
<1>5. Nat \subseteq S
  BY <1>3, <1>4, Stepwise
<1> QED BY <1>5 DEF S

\* What is shared is between what is the same and what each of the two weighs.
LEMMA SharedWithin ==
  ASSUME NEW query \in SUBSET Words, NEW candidate \in SUBSET Words
  PROVE  /\ SharedWeight(query, candidate) \in Nat
         /\ Weigh(query) \in Nat /\ Weigh(candidate) \in Nat
         /\ Weigh(query \cap candidate) \in Nat
         /\ Weigh(query \cap candidate) <= SharedWeight(query, candidate)
         /\ SharedWeight(query, candidate) <= Weigh(query)
         /\ SharedWeight(query, candidate) <= Weigh(candidate)
<1> DEFINE n == Len(Dictionary)
           common == query \cap candidate
           left == query \ candidate
           right == candidate \ query
           acc == Pairing(query, candidate)[n]
<1>1. n \in 0..n
  BY DictionaryPlaces
<1>2. PairingHolds(query, candidate, n)
  BY <1>1, PairingSound
<1>3. /\ IsFiniteSet(query) /\ IsFiniteSet(candidate) /\ IsFiniteSet(common)
      /\ IsFiniteSet(left) /\ IsFiniteSet(right)
  BY WordsAreFinite
<1>4. /\ Weigh(query) = Weigh(common) + Weigh(left)
      /\ Weigh(candidate) = Weigh(common) + Weigh(right)
  <2>1. query = common \cup left /\ common \cap left = {}
        /\ candidate = common \cup right /\ common \cap right = {}
    OBVIOUS
  <2> HIDE DEF common, left, right
  <2> QED BY <1>3, <2>1, WeighApart
<1>5. /\ Weigh(UpTo(left, n)) <= Weigh(left) /\ Weigh(UpTo(left, n)) \in Nat
      /\ Weigh(left) \in Nat /\ Weigh(right) \in Nat /\ Weigh(common) \in Nat
      /\ Weigh(right \ acc.unpaired) <= Weigh(right) /\ Weigh(right \ acc.unpaired) \in Nat
  <2>1. UpTo(left, n) \in SUBSET left /\ right \ acc.unpaired \in SUBSET right
    BY DEF UpTo
  <2> HIDE DEF common, left, right
  <2> QED BY <1>3, <2>1, WeighPart, WeighIs
<1>6. SharedWeight(query, candidate) = acc.total
  BY DEF SharedWeight
<1>7. /\ acc.total \in Nat /\ Weigh(common) <= acc.total
      /\ acc.total <= Weigh(common) + Weigh(UpTo(left, n))
      /\ acc.total <= Weigh(common) + Weigh(right \ acc.unpaired)
  BY <1>2 DEF PairingHolds
<1> DEFINE total == acc.total
           rest == right \ acc.unpaired
<1> HIDE DEF common, left, right, n, total, rest
<1>8. /\ total \in Nat /\ Weigh(common) <= total
      /\ total <= Weigh(common) + Weigh(UpTo(left, n))
      /\ total <= Weigh(common) + Weigh(rest)
      /\ Weigh(rest) <= Weigh(right) /\ Weigh(rest) \in Nat
      /\ SharedWeight(query, candidate) = total
  BY <1>5, <1>6, <1>7 DEF total, rest
<1> HIDE DEF acc
<1>9. Weigh(common) = Weigh(query \cap candidate)
  BY DEF common
<1> QED BY <1>4, <1>5, <1>8, <1>9

-----------------------------------------------------------------------------
LEMMA QuotientAtLeast ==
  ASSUME NEW a \in Nat, NEW b \in Nat \ {0}, NEW k \in Nat, k * b <= a
  PROVE  a \div b >= k
<1> DEFINE q == a \div b
<1>1. q \in Int /\ a = b * q + (a % b) /\ a % b \in 0..b - 1
  OBVIOUS
<1> SUFFICES ASSUME q + 1 <= k PROVE FALSE
  BY <1>1
<1>2. b * (q + 1) <= b * k
  BY <1>1
<1>3. b * (q + 1) = b * q + b /\ b * k = k * b
  BY <1>1
<1> QED BY <1>1, <1>2, <1>3

\* The products of a blend, and when its divisor is not 0.
LEMMA BlendIs ==
  ASSUME NEW s \in Nat, NEW l \in Nat, NEW u \in Nat, 0 < l, 0 < u, s <= l, s <= u
  PROVE  /\ Blend(s, l, u) = (1000 * (7 * (s * u) + 3 * (s * l))) \div (10 * (l * u))
         /\ s * u \in Nat /\ s * l \in Nat /\ l * u \in Nat \ {0}
         /\ s * u <= l * u /\ s * l <= l * u
<1>1. /\ s * u \in Nat /\ s * l \in Nat /\ l * u \in Nat \ {0}
      /\ s * u <= l * u /\ s * l <= u * l /\ u * l = l * u
  OBVIOUS
<1>2. 7 * s * u = 7 * (s * u) /\ 3 * s * l = 3 * (s * l) /\ 10 * l * u = 10 * (l * u)
  OBVIOUS
<1> QED BY <1>1, <1>2 DEF Blend

\* A blend is a share; with 24 of 35 parts of the lesser side it passes the threshold, and
\* with no more than half of that and a third of the union it does not.
BlendBounds(s, l, u) ==
    /\ Blend(s, l, u) \in 0..1000
    /\ 24 * l <= 35 * s => Blend(s, l, u) >= 480
    /\ 2 * s <= l /\ 3 * s <= u => Blend(s, l, u) \in 0..450

LEMMA BlendIsShare ==
  ASSUME NEW s \in Nat, NEW l \in Nat, NEW u \in Nat, 0 < l, 0 < u, s <= l, s <= u
  PROVE  BlendBounds(s, l, u)
<1> DEFINE su == s * u
           sl == s * l
           lu == l * u
           a == 1000 * (7 * su + 3 * sl)
           b == 10 * lu
<1>1. /\ Blend(s, l, u) = a \div b
      /\ su \in Nat /\ sl \in Nat /\ lu \in Nat \ {0} /\ su <= lu /\ sl <= lu
  BY BlendIs
<1>2. 24 * l <= 35 * s => 24 * lu <= 35 * su
  <2> SUFFICES ASSUME 24 * l <= 35 * s PROVE 24 * lu <= 35 * su
    OBVIOUS
  <2>1. (24 * l) * u <= (35 * s) * u
    OBVIOUS
  <2>2. (24 * l) * u = 24 * lu /\ (35 * s) * u = 35 * su
    OBVIOUS
  <2> QED BY <2>1, <2>2
<1>3. 2 * s <= l /\ 3 * s <= u => 2 * su <= lu /\ 3 * sl <= lu
  <2> SUFFICES ASSUME 2 * s <= l, 3 * s <= u PROVE 2 * su <= lu /\ 3 * sl <= lu
    OBVIOUS
  <2>1. (2 * s) * u <= l * u /\ (3 * s) * l <= u * l
    OBVIOUS
  <2>2. (2 * s) * u = 2 * su /\ (3 * s) * l = 3 * sl /\ u * l = lu
    OBVIOUS
  <2> QED BY <2>1, <2>2
<1> HIDE DEF su, sl, lu
<1>4. a \in Nat /\ b \in Nat \ {0} /\ a <= 1000 * b
  BY <1>1
<1>5. 24 * l <= 35 * s => 480 * b <= a
  BY <1>1, <1>2
<1>6. 2 * s <= l /\ 3 * s <= u => a <= 450 * b
  BY <1>1, <1>3
<1> HIDE DEF a, b
<1>7. /\ a \div b \in 0..1000
      /\ 24 * l <= 35 * s => a \div b >= 480
      /\ 2 * s <= l /\ 3 * s <= u => a \div b \in 0..450
  BY <1>4, <1>5, <1>6, QuotientWithin, QuotientAtLeast
<1> QED BY <1>1, <1>7 DEF BlendBounds

\* What the source calls shared, and the lesser of the two weights.
LesserWeight(query, candidate) == Lesser(Weigh(query), Weigh(candidate))

LEMMA ScoreIs ==
  ASSUME NEW query \in SUBSET Words, NEW candidate \in SUBSET Words
  PROVE  LET s == SharedWeight(query, candidate)
             l == LesserWeight(query, candidate)
             u == Weigh(query) + Weigh(candidate) - s
         IN  /\ s \in Nat /\ l \in Nat /\ u \in Nat /\ s <= l /\ l <= u /\ 2 * l - s <= u
             /\ Score(query, candidate) =
                  IF candidate = {} \/ s < 20 THEN 0 ELSE Blend(s, l, u)
<1> DEFINE s == SharedWeight(query, candidate)
           q == Weigh(query)
           c == Weigh(candidate)
<1>1. s \in Nat /\ q \in Nat /\ c \in Nat /\ s <= q /\ s <= c
  BY SharedWithin
<1>2. Score(query, candidate) =
        IF candidate = {} \/ s < 20 THEN 0 ELSE Blend(s, Lesser(q, c), q + c - s)
  BY DEF Score, Compare, Tenths, MinimumEvidence
<1> HIDE DEF s, q, c
<1> QED BY <1>1, <1>2 DEF LesserWeight, Lesser, s, q, c

\* A score is a share: between 0 and 1000 thousandths, whatever the texts, the aliases and the
\* misspellings are, since no leftover is paired twice.  So neither side is ever divided by
\* nothing, and no match is better than perfect.
THEOREM ScoreIsAShare ==
  ASSUME NEW query \in SUBSET Words, NEW candidate \in SUBSET Words
  PROVE  /\ Score(query, candidate) \in 0..1000
         /\ Weigh(query \cap candidate) <= SharedWeight(query, candidate)
         /\ SharedWeight(query, candidate) <= LesserWeight(query, candidate)
<1> DEFINE s == SharedWeight(query, candidate)
           l == LesserWeight(query, candidate)
           u == Weigh(query) + Weigh(candidate) - s
<1>1. /\ s \in Nat /\ l \in Nat /\ u \in Nat /\ s <= l /\ l <= u
      /\ Score(query, candidate) = IF candidate = {} \/ s < 20 THEN 0 ELSE Blend(s, l, u)
  BY ScoreIs
<1>2. Weigh(query \cap candidate) <= s
  BY SharedWithin
<1> HIDE DEF s, l, u
<1>3. ASSUME s >= 20 PROVE Blend(s, l, u) \in 0..1000
  <2>1. s \in Nat /\ l \in Nat /\ u \in Nat /\ s <= l /\ l <= u
    BY <1>1
  <2>2. 0 < l /\ 0 < u /\ s <= u
    BY <1>3, <2>1
  <2>3. BlendBounds(s, l, u)
    BY <2>1, <2>2, BlendIsShare
  <2> QED BY <2>3 DEF BlendBounds
<1>4. Score(query, candidate) \in 0..1000 /\ Weigh(query \cap candidate) <= s /\ s <= l
  BY <1>1, <1>2, <1>3
<1> QED BY <1>4 DEF s, l

\* What two texts have in common is enough: 24 of 35 parts of the one that weighs less, and
\* some evidence at all.
MuchInCommon(query, candidate) ==
    /\ Tenths * MinimumEvidence <= Weigh(query \cap candidate)
    /\ 24 * LesserWeight(query, candidate) <= 35 * Weigh(query \cap candidate)

\* What they share, near misses included, is half of it at most.
HalfInCommon(query, candidate) ==
    2 * SharedWeight(query, candidate) <= LesserWeight(query, candidate)

LEMMA ScoreDecides ==
  ASSUME NEW query \in SUBSET Words, NEW candidate \in SUBSET Words
  PROVE  /\ Score(query, candidate) \in Nat
         /\ MuchInCommon(query, candidate) => Score(query, candidate) >= Threshold
         /\ HalfInCommon(query, candidate) => Score(query, candidate) < Threshold
<1> DEFINE s == SharedWeight(query, candidate)
           l == LesserWeight(query, candidate)
           u == Weigh(query) + Weigh(candidate) - s
           common == Weigh(query \cap candidate)
<1>1. /\ s \in Nat /\ l \in Nat /\ u \in Nat /\ s <= l /\ l <= u /\ 2 * l - s <= u
      /\ Score(query, candidate) = IF candidate = {} \/ s < 20 THEN 0 ELSE Blend(s, l, u)
  BY ScoreIs
<1>2. common <= s /\ common \in Nat
  BY SharedWithin
<1>3. candidate = {} => common = 0
  <2>1. CountOf({}) = 0
    BY FS_EmptySet, {} \cap Concepts = {}, {} \ Concepts = {} DEF CountOf
  <2>2. candidate = {} => query \cap candidate = {}
    OBVIOUS
  <2> QED BY <2>1, <2>2, FS_EmptySet, WeighIs
<1>4. MuchInCommon(query, candidate) => 20 <= common /\ 24 * l <= 35 * common
  BY DEF MuchInCommon, Tenths, MinimumEvidence
<1>5. HalfInCommon(query, candidate) => 2 * s <= l
  BY DEF HalfInCommon
<1> HIDE DEF s, l, u, common
<1>6. 20 <= s => /\ Blend(s, l, u) \in 0..1000
                 /\ 24 * l <= 35 * s => Blend(s, l, u) >= 480
                 /\ 2 * s <= l => Blend(s, l, u) \in 0..450
  <2> SUFFICES ASSUME 20 <= s
               PROVE  /\ Blend(s, l, u) \in 0..1000
                      /\ 24 * l <= 35 * s => Blend(s, l, u) >= 480
                      /\ 2 * s <= l => Blend(s, l, u) \in 0..450
    OBVIOUS
  <2>1. 0 < l /\ 0 < u /\ s <= u /\ (2 * s <= l => 3 * s <= u)
    BY <1>1
  <2>2. BlendBounds(s, l, u)
    <3>1. s \in Nat /\ l \in Nat /\ u \in Nat /\ s <= l
      BY <1>1
    <3> QED BY <2>1, <3>1, BlendIsShare
  <2> QED BY <2>1, <2>2 DEF BlendBounds
<1>7. Threshold = 480
  BY DEF Threshold
<1>8. MuchInCommon(query, candidate) => Score(query, candidate) >= 480
  <2> SUFFICES ASSUME MuchInCommon(query, candidate) PROVE Score(query, candidate) >= 480
    OBVIOUS
  <2>1. 20 <= common /\ 24 * l <= 35 * common /\ candidate # {}
    BY <1>3, <1>4
  <2>2. 20 <= s /\ 24 * l <= 35 * s
    BY <1>1, <1>2, <2>1
  <2> QED BY <1>1, <1>6, <2>1, <2>2
<1>9. HalfInCommon(query, candidate) => Score(query, candidate) \in 0..450
  BY <1>1, <1>5, <1>6
<1>10. Score(query, candidate) \in Nat
  BY <1>1, <1>6
<1> QED BY <1>7, <1>8, <1>9, <1>10

LEMMA TokensAreWords == ASSUME NEW text, Known(text) PROVE Tokens(text) \subseteq Words
<1> SUFFICES ASSUME NEW word \in text \ StopWords PROVE ConceptOf[word] \in Words
  BY DEF Tokens
<1>1. word \in Words /\ ConceptOf[word] = Canonical(word)
  BY DEF Known, ConceptOf
<1>2. \A term \in DOMAIN Alias : Alias[term] \in Words
  BY DictionaryAssumption DEF Words, Range
<1>3. DOMAIN Alias \in SUBSET Words
  BY DictionaryAssumption DEF Words
<1>4. Alike(word, DOMAIN Alias) # {} => Closest(word, DOMAIN Alias) \in DOMAIN Alias
  BY <1>1, <1>3, ClosestIsAlike DEF Alike
<1> QED BY <1>1, <1>2, <1>4 DEF Canonical

\* Of scores on a list, the best that is good enough is one of them, if one is.
LEMMA BestExists ==
  ASSUME NEW scores, DOMAIN scores \subseteq Nat, \A i \in DOMAIN scores : scores[i] \in 0..1000,
         NEW i \in DOMAIN scores, scores[i] >= Threshold
  PROVE  Best(scores) # {}
<1> DEFINE gaps == {1000 - scores[j] : j \in DOMAIN scores}
           gap == Min(gaps)
           places == {j \in DOMAIN scores : scores[j] = 1000 - gap}
           best == Min(places)
<1>1. gap \in gaps /\ \A k \in gaps : gap <= k
  <2>1. gaps \subseteq Nat /\ gaps # {}
    OBVIOUS
  <2> HIDE DEF gaps
  <2> QED BY <2>1, First
<1>2. gap \in Nat /\ places # {} /\ \A j \in DOMAIN scores : scores[j] <= 1000 - gap
  <2> HIDE DEF gap
  <2>1. PICK j \in DOMAIN scores : gap = 1000 - scores[j]
    BY <1>1
  <2>2. scores[j] = 1000 - gap /\ gap \in Nat
    BY <2>1
  <2>3. \A k \in DOMAIN scores : gap <= 1000 - scores[k]
    BY <1>1
  <2> QED BY <2>2, <2>3
<1> HIDE DEF gap
<1>3. best \in places /\ \A k \in places : best <= k
  <2>1. places \subseteq Nat /\ places # {}
    BY <1>2
  <2> HIDE DEF places
  <2> QED BY <2>1, First
<1>4. best \in DOMAIN scores /\ scores[best] = 1000 - gap
  BY <1>3
<1>5. ASSUME NEW j \in DOMAIN scores PROVE Better(scores, best, j)
  <2>1. CASE scores[j] = 1000 - gap
    <3>1. best <= j
      BY <1>3, <2>1
    <3> HIDE DEF best
    <3> QED BY <1>4, <2>1, <3>1 DEF Better
  <2>2. CASE scores[j] # 1000 - gap
    <3> HIDE DEF best
    <3> QED BY <1>2, <1>4, <2>2 DEF Better
  <2> QED BY <2>1, <2>2
<1> HIDE DEF best
<1>6. scores[best] >= Threshold
  BY <1>2, <1>4 DEF Threshold
<1>7. best \in Best(scores)
  BY <1>4, <1>5, <1>6 DEF Best
<1> QED BY <1>7

\* The matcher keeps what its source says of it.  Values that only one side names do not sink
\* an intent: a request that has enough in common with one of the runbooks is warm.  Half of
\* what a skill is about is not enough: a runbook that is matched has more than that in common
\* with the request.  For every dictionary, every text and every number of runbooks.
THEOREM MatcherDecides ==
  ASSUME NEW utterance, Known(utterance),
         NEW runbooks, DOMAIN runbooks \subseteq Nat,
         \A i \in DOMAIN runbooks : Known(Text(runbooks[i]))
  PROVE  /\ (\E i \in DOMAIN runbooks :
                MuchInCommon(Tokens(utterance), Tokens(Text(runbooks[i]))))
               => \E i \in DOMAIN runbooks : Match(utterance, runbooks) = runbooks[i]
         /\ Match(utterance, runbooks) # NoRunbook
               => \E i \in DOMAIN runbooks :
                    /\ Match(utterance, runbooks) = runbooks[i]
                    /\ ~HalfInCommon(Tokens(utterance), Tokens(Text(runbooks[i])))
<1> DEFINE query == Tokens(utterance)
           scores == [i \in DOMAIN runbooks |-> Score(query, Tokens(Text(runbooks[i])))]
           chosen == CHOOSE i \in Best(scores) : TRUE
<1>1. query \in SUBSET Words /\ \A i \in DOMAIN runbooks : Tokens(Text(runbooks[i])) \in SUBSET Words
  BY TokensAreWords
<1>2. /\ DOMAIN scores = DOMAIN runbooks
      /\ \A i \in DOMAIN runbooks : scores[i] = Score(query, Tokens(Text(runbooks[i])))
  OBVIOUS
<1>3. Match(utterance, runbooks) =
        IF query = {} \/ Best(scores) = {} THEN NoRunbook ELSE runbooks[chosen]
  BY DEF Match, MatchTokens
<1> HIDE DEF query, scores
<1>4. Best(scores) # {} => chosen \in DOMAIN runbooks /\ scores[chosen] >= Threshold
  <2>1. \A i \in Best(scores) : i \in DOMAIN runbooks /\ scores[i] >= Threshold
    BY <1>2 DEF Best
  <2> QED BY <2>1
<1> HIDE DEF chosen
<1>5. ASSUME NEW i \in DOMAIN runbooks, MuchInCommon(query, Tokens(Text(runbooks[i])))
      PROVE  \E j \in DOMAIN runbooks : Match(utterance, runbooks) = runbooks[j]
  <2>1. scores[i] >= Threshold
    BY <1>1, <1>2, <1>5, ScoreDecides
  <2>2. ASSUME NEW j \in DOMAIN scores PROVE scores[j] \in 0..1000
    <3>1. Tokens(Text(runbooks[j])) \in SUBSET Words /\ query \in SUBSET Words
      BY <1>1, <1>2
    <3>2. Score(query, Tokens(Text(runbooks[j]))) \in 0..1000
      BY <3>1, ScoreIsAShare
    <3> QED BY <1>2, <3>2
  <2>3. Best(scores) # {}
    BY <1>2, <2>1, <2>2, BestExists
  <2>4. query # {}
    <3> SUFFICES ASSUME query = {} PROVE FALSE
      OBVIOUS
    <3>1. query \cap Tokens(Text(runbooks[i])) = {}
      OBVIOUS
    <3>2. CountOf({}) = 0
      BY FS_EmptySet, {} \cap Concepts = {}, {} \ Concepts = {} DEF CountOf
    <3>3. Weigh({}) = 0
      BY <3>2, FS_EmptySet, WeighIs
    <3> QED BY <1>5, <3>1, <3>3 DEF MuchInCommon, Tenths, MinimumEvidence
  <2> QED BY <1>3, <1>4, <2>3, <2>4
<1>6. ASSUME Match(utterance, runbooks) # NoRunbook
      PROVE  \E i \in DOMAIN runbooks :
               /\ Match(utterance, runbooks) = runbooks[i]
               /\ ~HalfInCommon(query, Tokens(Text(runbooks[i])))
  <2>1. Match(utterance, runbooks) = runbooks[chosen] /\ Best(scores) # {}
    BY <1>3, <1>6
  <2>2. chosen \in DOMAIN runbooks /\ scores[chosen] >= Threshold
    BY <1>4, <2>1
  <2>3. ~HalfInCommon(query, Tokens(Text(runbooks[chosen])))
    <3> SUFFICES ASSUME HalfInCommon(query, Tokens(Text(runbooks[chosen]))) PROVE FALSE
      OBVIOUS
    <3>1. scores[chosen] \in Nat /\ scores[chosen] < Threshold
      BY <1>1, <1>2, <2>2, ScoreDecides
    <3>2. Threshold \in Nat
      BY DEF Threshold
    <3> QED BY <2>2, <3>1, <3>2
  <2> QED BY <2>1, <2>2, <2>3
<1> QED BY <1>5, <1>6 DEF query

-----------------------------------------------------------------------------
\* What the matcher decides, in every state of a skill's life.  The words of the request and of
\* what is stored are known, and every place of the store holds a runbook.
Readable(skill) == Known(Text(skill)) /\ skill # NoRunbook
TextsKnown ==
  /\ request \in Requests
  /\ IsList(store) /\ \A i \in DOMAIN store : Readable(store[i])

\* A request that is searched for, or that the replay finds nothing for, has not enough in
\* common with any runbook of the store.
ColdIsEarned ==
  stage \in {"searched", "no match"} =>
    \A i \in DOMAIN store : ~MuchInCommon(Tokens(Utterance(request)), Tokens(Text(store[i])))

\* A runbook that a request is answered with is one of the store, and has more than half of what
\* either is about in common with it.
WarmIsEarned ==
  matched # NoRunbook =>
    \E i \in DOMAIN store :
      /\ matched = store[i]
      /\ ~HalfInCommon(Tokens(Utterance(request)), Tokens(Text(store[i])))

Unmatched == stage \in {"asked", "searched", "judged", "learned"} => matched = NoRunbook

DecisionInv == TextsKnown /\ ColdIsEarned /\ WarmIsEarned /\ Unmatched

LEMMA RequestKnown == request \in Requests => Known(Utterance(request))
  BY WordsAssumption

\* What is looked up in the whole store, or in what is listed of it, is decided so.
LEMMA LookupDecides ==
  ASSUME TextsKnown
  PROVE  /\ Lookup(request) = NoRunbook =>
              \A i \in DOMAIN store :
                ~MuchInCommon(Tokens(Utterance(request)), Tokens(Text(store[i])))
         /\ \A found \in {Lookup(request), MatchCompleted(request)} :
              found # NoRunbook =>
                \E i \in DOMAIN store :
                  /\ found = store[i]
                  /\ ~HalfInCommon(Tokens(Utterance(request)), Tokens(Text(store[i])))
<1>1. /\ Known(Utterance(request))
      /\ DOMAIN store \subseteq Nat
      /\ \A i \in DOMAIN store : Known(Text(store[i])) /\ store[i] # NoRunbook
  BY RequestKnown DEF TextsKnown, IsList, Readable
<1>2. /\ DOMAIN Listed \subseteq DOMAIN store
      /\ \A i \in DOMAIN Listed : Listed[i] = store[i]
  BY DEF Listed
<1>3. ASSUME Lookup(request) = NoRunbook, NEW i \in DOMAIN store
      PROVE  ~MuchInCommon(Tokens(Utterance(request)), Tokens(Text(store[i])))
  BY <1>1, <1>3, MatcherDecides DEF Lookup
<1>4. ASSUME Lookup(request) # NoRunbook
      PROVE  \E i \in DOMAIN store :
               /\ Lookup(request) = store[i]
               /\ ~HalfInCommon(Tokens(Utterance(request)), Tokens(Text(store[i])))
  BY <1>1, <1>4, MatcherDecides DEF Lookup
<1>5. ASSUME MatchCompleted(request) # NoRunbook
      PROVE  \E i \in DOMAIN store :
               /\ MatchCompleted(request) = store[i]
               /\ ~HalfInCommon(Tokens(Utterance(request)), Tokens(Text(store[i])))
  <2>1. DOMAIN Listed \subseteq Nat /\ \A i \in DOMAIN Listed : Known(Text(Listed[i]))
    BY <1>1, <1>2
  <2>2. \E i \in DOMAIN Listed :
          /\ MatchCompleted(request) = Listed[i]
          /\ ~HalfInCommon(Tokens(Utterance(request)), Tokens(Text(Listed[i])))
    BY <1>1, <1>5, <2>1, MatcherDecides DEF MatchCompleted
  <2> QED BY <1>2, <2>2
<1> QED BY <1>3, <1>4, <1>5

\* A document keeps the words of its vocabulary and of its request, or loses the latter.
LEMMA WrittenBackReadable ==
  ASSUME NEW skill, Known(skill.words)
  PROVE  Readable(WrittenBack(skill))
<1> DEFINE back == WrittenBack(skill)
<1>1. back.words = skill.words /\ back.examples = {} /\ "version" \in DOMAIN back
  BY DEF WrittenBack
<1>2. "version" \notin DOMAIN NoRunbook
  BY DEF NoRunbook
<1> HIDE DEF back
<1>3. Text(back) = skill.words
  BY <1>1 DEF Text
<1> QED BY <1>1, <1>2, <1>3 DEF Readable, back

LEMMA AssembledReadable ==
  ASSUME NEW t, Known(Range(t.task.words))
  PROVE  Readable(Assemble(t)) /\ Known(Assemble(t).words)
<1> DEFINE doc == Assemble(t)
<1>1. /\ doc.words = Vocabulary.words
      /\ doc.examples = GeneralizedUtterance(t.task, Evidence(t))
      /\ "version" \in DOMAIN doc
  BY SMT DEF Assemble
<1>2. "version" \notin DOMAIN NoRunbook
  BY DEF NoRunbook
<1> HIDE DEF doc
<1>3. GeneralizedUtterance(t.task, Evidence(t)) \subseteq Range(t.task.words)
  BY DEF GeneralizedUtterance, Range
<1>4. Text(doc) = Vocabulary.words \cup GeneralizedUtterance(t.task, Evidence(t))
  BY <1>1 DEF Text
<1>5. Known(Text(doc)) /\ Known(doc.words)
  BY <1>1, <1>3, <1>4, WordsAssumption DEF Known
<1> QED BY <1>1, <1>2, <1>5 DEF Readable, doc

LEMMA RememberedReadable ==
  ASSUME NEW t, Distill(t) # Refused, Known(Range(t.task.words))
  PROVE  Readable(Remembered(Distill(t)))
<1>1. Distill(t) = Assemble(t)
  BY Distilled
<1>2. Readable(Assemble(t)) /\ Known(Assemble(t).words)
  BY AssembledReadable
<1>3. Readable(WrittenBack(Assemble(t)))
  BY <1>2, WrittenBackReadable
<1>4. Remembered(Assemble(t)) \in {Assemble(t), WrittenBack(Assemble(t))}
  BY DEF Remembered
<1> QED BY <1>1, <1>2, <1>3, <1>4

LEMMA UpsertedReadable ==
  ASSUME IsList(store), \A i \in DOMAIN store : Readable(store[i]),
         NEW skill, Readable(skill), NEW after, after = Upserted(skill)
  PROVE  IsList(after) /\ \A i \in DOMAIN after : Readable(after[i])
<1>1. CASE \E i \in DOMAIN store : store[i].id = skill.id
  <2>1. after = [i \in DOMAIN store |-> IF store[i].id = skill.id THEN skill ELSE store[i]]
    BY <1>1 DEF Upserted
  <2>2. /\ DOMAIN after = DOMAIN store
        /\ \A i \in DOMAIN store : after[i] = skill \/ after[i] = store[i]
    BY <2>1
  <2>3. Len(after) = Len(store)
    BY <2>2 DEF IsList
  <2> QED BY <2>2, <2>3 DEF IsList
<1>2. CASE ~ \E i \in DOMAIN store : store[i].id = skill.id
  <2>1. after = Append(store, skill)
    BY <1>2 DEF Upserted
  <2>2. /\ Len(after) = Len(store) + 1 /\ DOMAIN after = 1..Len(store) + 1
        /\ after[Len(store) + 1] = skill
        /\ \A i \in DOMAIN store : after[i] = store[i]
    BY <2>1 DEF IsList
  <2>3. ASSUME NEW i \in DOMAIN after PROVE Readable(after[i])
    <3>1. i = Len(store) + 1 \/ i \in DOMAIN store
      BY <2>2 DEF IsList
    <3> QED BY <2>2, <3>1
  <2> QED BY <2>2, <2>3 DEF IsList
<1> QED BY <1>1, <1>2

LEMMA DecisionInit == EveryInit => DecisionInv
<1> SUFFICES ASSUME EveryInit PROVE DecisionInv
  OBVIOUS
<1>1. stage = "asked" /\ request \in Requests /\ matched = NoRunbook
  BY DEF EveryInit, LearningInit, ConsoleInit, Fresh
<1>2. IsList(store) /\ \A i \in DOMAIN store : Readable(store[i])
  <2>1. CASE LearningInit
    <3>1. store = <<>>
      BY <2>1 DEF LearningInit, Fresh
    <3> QED BY <3>1 DEF IsList
  <2>2. CASE ConsoleInit
    <3>1. store \in Catalogues
      BY <2>2 DEF ConsoleInit, Fresh
    <3> QED BY <3>1, CatalogueAssumption DEF Readable
  <2> QED BY <2>1, <2>2 DEF EveryInit
<1> QED BY <1>1, <1>2 DEF DecisionInv, TextsKnown, ColdIsEarned, WarmIsEarned, Unmatched

LEMMA DecisionStep == LearningInv /\ DecisionInv /\ [EveryNext]_learning => DecisionInv'
<1> SUFFICES ASSUME LearningInv, DecisionInv, [EveryNext]_learning PROVE DecisionInv'
  OBVIOUS
<1> USE DEF DecisionInv
<1>1. CASE UNCHANGED learning
  BY <1>1 DEF learning, TextsKnown, ColdIsEarned, WarmIsEarned, Unmatched, Utterance
<1>2. CASE Search
  <2>1. /\ stage = "asked" /\ stage' = "searched" /\ Lookup(request) = NoRunbook
        /\ UNCHANGED <<request, store, matched>>
    BY <1>2 DEF Search
  <2> QED BY <2>1, LookupDecides DEF TextsKnown, ColdIsEarned, WarmIsEarned, Unmatched
<1>3. CASE Judge \/ JudgeFails \/ Pick \/ Refuse
  <2>1. /\ stage' \in {"judged", "failed", "refused"} /\ stage \in {"searched", "judged"}
        /\ UNCHANGED <<request, store, matched>>
    BY <1>3 DEF Judge, JudgeFails, Pick, Refuse
  <2> QED BY <2>1 DEF TextsKnown, ColdIsEarned, WarmIsEarned, Unmatched
<1>4. CASE Save
  <2> DEFINE document == Distill(WinningPath)
  <2>1. /\ stage = "judged" /\ stage' = "learned" /\ document # Refused
        /\ store' = Upserted(Remembered(document))
        /\ UNCHANGED <<request, matched>>
    BY <1>4 DEF Save
  <2>2. WinningPath.task = request
    BY <2>1, WinningPathOfRequest DEF LearningInv, NeverJoined, LearnerInv
  <2>3. Known(Range(WinningPath.task.words))
    BY <2>2, RequestKnown DEF TextsKnown, Utterance
  <2>4. Readable(Remembered(document))
    BY <2>1, <2>3, RememberedReadable
  <2> HIDE DEF document
  <2>5. TextsKnown'
    BY <2>1, <2>4, UpsertedReadable DEF TextsKnown
  <2> QED BY <2>1, <2>5 DEF ColdIsEarned, WarmIsEarned, Unmatched
<1>5. CASE AskAgain
  <2>1. /\ stage = "learned" /\ stage' = "asked" /\ request' \in Requests
        /\ UNCHANGED <<store, matched>>
    BY <1>5 DEF AskAgain
  <2> QED BY <2>1 DEF TextsKnown, ColdIsEarned, WarmIsEarned, Unmatched
<1>6. CASE Warm \/ Offer
  <2>1. /\ stage' \in {"unloadable", "rejected", "filling", "form"}
        /\ matched' \in {Lookup(request), MatchCompleted(request)}
        /\ UNCHANGED <<request, store>>
    BY <1>6 DEF Warm, Offer
  <2>2. matched' # NoRunbook =>
          \E i \in DOMAIN store :
            /\ matched' = store[i]
            /\ ~HalfInCommon(Tokens(Utterance(request)), Tokens(Text(store[i])))
    BY <2>1, LookupDecides
  <2> QED BY <2>1, <2>2 DEF TextsKnown, ColdIsEarned, WarmIsEarned, Unmatched
<1>7. CASE Answer \/ Replay \/ Use
  <2>1. /\ stage' \in {"filling", "gave up", "unresolved", "stranded", "replayed",
                       "slot failure", "declined"}
        /\ UNCHANGED <<request, store, matched>>
    BY <1>7 DEF Answer, Replay, Use
  <2> QED BY <2>1 DEF TextsKnown, ColdIsEarned, WarmIsEarned, Unmatched
<1>8. CASE AcceptSynthesized
  <2>1. PICK payload \in Payloads :
          IF Loads(payload)
          THEN store' = Upserted(WrittenBack(payload)) /\ UNCHANGED stage
          ELSE stage' = "invalid" /\ UNCHANGED store
    BY <1>8 DEF AcceptSynthesized
  <2>2. stage = "asked" /\ UNCHANGED <<request, matched>>
    BY <1>8 DEF AcceptSynthesized
  <2>3. stage' \in {"asked", "invalid"} /\ (store' = store \/ store' = Upserted(WrittenBack(payload)))
    BY <2>1, <2>2
  <2>4. Readable(WrittenBack(payload))
    BY WordsAssumption, WrittenBackReadable
  <2>5. TextsKnown'
    BY <2>2, <2>3, <2>4, UpsertedReadable DEF TextsKnown
  <2> QED BY <2>2, <2>3, <2>5 DEF ColdIsEarned, WarmIsEarned, Unmatched
<1>9. CASE ReplayAtOnce
  <2>1. /\ stage' \in {"no match", "unloadable", "slot failure", "stranded", "replayed"}
        /\ stage' = "no match" => matched' = NoRunbook
        /\ matched' = Lookup(request)
        /\ UNCHANGED <<request, store>>
    BY <1>9 DEF ReplayAtOnce
  <2> QED BY <2>1, LookupDecides DEF TextsKnown, ColdIsEarned, WarmIsEarned, Unmatched
<1> QED BY <1>1, <1>2, <1>3, <1>4, <1>5, <1>6, <1>7, <1>8, <1>9
        DEF EveryNext, LearningNext, ConsoleNext, Explore

\* Whoever learns, and whatever was learned before: a request that has enough in common with a
\* saved skill is never searched for again, and no skill answers a request that shares at most
\* half of what either is about (runbook_store.py: the threshold and the evidence it wants).
THEOREM LookupIsEarned == EverySpec => [](ColdIsEarned /\ WarmIsEarned)
<1>1. LearningInv /\ DecisionInv /\ [EveryNext]_learning => LearningInv' /\ DecisionInv'
  BY LearningStep, DecisionStep
<1>2. DecisionInv => ColdIsEarned /\ WarmIsEarned
  BY DEF DecisionInv
<1> QED BY <1>1, <1>2, InitSound, DecisionInit, PTL DEF EverySpec

\* An intent that one of two texts names in full is enough of the other, whatever else it says.
LEMMA NamedInFullIsMuch ==
  ASSUME NEW text \in SUBSET Words, NEW terse \in SUBSET Words, NamesInFull(text, terse)
  PROVE  MuchInCommon(text, terse) /\ MuchInCommon(terse, text)
<1> DEFINE common == text \cap terse
           named == Cardinality(terse \cap Concepts)
           others == Cardinality(terse \ Concepts)
<1>1. IsFiniteSet(text) /\ IsFiniteSet(terse) /\ IsFiniteSet(common)
  BY WordsAreFinite
<1>2. named \in Nat /\ others \in Nat /\ Cardinality(common \ Concepts) \in Nat
  <2>1. /\ IsFiniteSet(terse \cap Concepts) /\ IsFiniteSet(terse \ Concepts)
        /\ IsFiniteSet(common \ Concepts)
    BY <1>1, FS_Subset
  <2> QED BY <2>1, FS_CardinalityType
<1>3. 1 <= named /\ 6 * others <= 11 * named
  <2>1. terse \cap Concepts # {} /\ 6 * others <= 11 * named
    BY DEF NamesInFull
  <2>2. IsFiniteSet(terse \cap Concepts)
    BY <1>1, FS_Subset
  <2>3. named # 0
    BY <2>1, <2>2, FS_EmptySet
  <2> HIDE DEF named, others
  <2> QED BY <1>2, <2>1, <2>3
<1>4. common \cap Concepts = terse \cap Concepts
  BY DEF NamesInFull
<1>5. Weigh(common) = 10 * (4 * named + Cardinality(common \ Concepts))
  BY <1>1, <1>4, WeighIs DEF CountOf
<1>6. Weigh(terse) = 10 * (4 * named + others)
  BY <1>1, WeighIs DEF CountOf
<1>7. Weigh(text) \in Nat
  BY <1>1, WeighIs
<1> HIDE DEF named, others
<1>8. 20 <= Weigh(common) /\ 24 * Weigh(terse) <= 35 * Weigh(common) /\ Weigh(terse) \in Nat
  BY <1>2, <1>3, <1>5, <1>6
<1>9. /\ Lesser(Weigh(text), Weigh(terse)) <= Weigh(terse)
      /\ Lesser(Weigh(terse), Weigh(text)) <= Weigh(terse)
      /\ Lesser(Weigh(text), Weigh(terse)) \in Nat
      /\ Lesser(Weigh(terse), Weigh(text)) \in Nat
  BY <1>7, <1>8 DEF Lesser
<1>10. Weigh(common) \in Nat
  BY <1>2, <1>5
<1>11. text \cap terse = common /\ terse \cap text = common
  OBVIOUS
<1> HIDE DEF common
<1>12. /\ 20 <= Weigh(common)
       /\ 24 * Lesser(Weigh(text), Weigh(terse)) <= 35 * Weigh(common)
       /\ 24 * Lesser(Weigh(terse), Weigh(text)) <= 35 * Weigh(common)
  BY <1>8, <1>9, <1>10
<1> QED BY <1>11, <1>12 DEF MuchInCommon, LesserWeight, Tenths, MinimumEvidence

\* So values beside the intent never sink it, for every vocabulary, every text and every number
\* of skills: no request is searched for whose words name a terse skill in full, or that is terse
\* and named in full by a skill.
THEOREM IntentIsEnough == EverySpec => []FullIntentIsWarm
<1>1. LearningInv /\ DecisionInv /\ [EveryNext]_learning => LearningInv' /\ DecisionInv'
  BY LearningStep, DecisionStep
<1>2. DecisionInv => FullIntentIsWarm
  <2> SUFFICES ASSUME DecisionInv, stage = "searched", NEW i \in DOMAIN store
               PROVE  /\ ~NamesInFull(Tokens(Utterance(request)), Tokens(Text(store[i])))
                      /\ ~NamesInFull(Tokens(Text(store[i])), Tokens(Utterance(request)))
    BY DEF FullIntentIsWarm
  <2>1. Known(Utterance(request)) /\ Known(Text(store[i]))
    BY RequestKnown DEF DecisionInv, TextsKnown, Readable
  <2>2. Tokens(Utterance(request)) \in SUBSET Words /\ Tokens(Text(store[i])) \in SUBSET Words
    BY <2>1, TokensAreWords
  <2>3. ~MuchInCommon(Tokens(Utterance(request)), Tokens(Text(store[i])))
    BY DEF DecisionInv, ColdIsEarned
  <2> QED BY <2>2, <2>3, NamedInFullIsMuch
<1> QED BY <1>1, <1>2, InitSound, DecisionInit, PTL DEF EverySpec
=============================================================================
