---------------------------- MODULE ReplayPromise ----------------------------
(***************************************************************************)
(* What one replay of a runbook promises the person who asked for it: the  *)
(* steps take effect in order and at most once each, an irreversible one   *)
(* only after consent to it, success is reported only of a complete        *)
(* replay, and after a reported success or rejection nothing more happens. *)
(* After a reported failure something still may.                           *)
(***************************************************************************)
EXTENDS Naturals, Sequences

VARIABLES
  steps,    \* the runbook's steps
  effects,  \* how many of them have taken effect
  consents, \* the steps the user agreed to
  report    \* "none" or what the replay reported

vars == <<steps, effects, consents, report>>

Init ==
  /\ effects = 0
  /\ consents = {}
  /\ report = "none"

Consent ==
  /\ report = "none"
  /\ consents' = consents \union {effects + 1}
  /\ UNCHANGED <<steps, effects, report>>

TakeEffect ==
  /\ report \notin {"succeeded", "rejected"}
  /\ effects < Len(steps)
  /\ steps[effects + 1].irreversible => effects + 1 \in consents
  /\ effects' = effects + 1
  /\ UNCHANGED <<steps, consents, report>>

Report(r) ==
  /\ report = "none"
  /\ r = "succeeded" => effects = Len(steps)
  /\ report' = r
  /\ UNCHANGED <<steps, effects, consents>>

Next == Consent \/ TakeEffect \/ \E r \in {"succeeded", "failed", "rejected"} : Report(r)

Spec == Init /\ [][Next]_vars
=============================================================================
