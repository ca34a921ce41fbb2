---------------------------- MODULE LearnedSkills ----------------------------
(***************************************************************************)
(* What the runbook store promises: a set of learned runbooks, at most one *)
(* per identity, that grows one runbook at a time.  Learning is atomic: a  *)
(* runbook that is learned displaces only the one with its identity.  A    *)
(* power loss goes back to one of the sets held since the last checkpoint. *)
(* A session that forgets every skill may do so at once, when the learning *)
(* in progress fails, or in vain: it does not wait for that to end.        *)
(***************************************************************************)
CONSTANTS Runbooks, Identity, NoIdentity, Forgets

VARIABLES
  learned,    \* the set of learned runbooks
  recoverable \* the sets a power loss may leave

vars == <<learned, recoverable>>

Rivals(r) == {q \in Runbooks : Identity[q] = Identity[r] /\ Identity[r] # NoIdentity}

Init == learned \subseteq Runbooks /\ recoverable = {learned}

Learn(r) ==
  /\ learned' = (learned \ Rivals(r)) \union {r}
  /\ recoverable' = recoverable \union {learned'}

Checkpoint ==
  /\ recoverable' = {learned}
  /\ UNCHANGED learned

LosePower ==
  /\ learned' \in recoverable
  /\ recoverable' = {learned'}

Forget ==
  /\ Forgets
  /\ learned' \in {learned, {}}
  /\ recoverable' = recoverable \union {{}}

Next == (\E r \in Runbooks : Learn(r)) \/ Checkpoint \/ LosePower \/ Forget

Spec == Init /\ [][Next]_vars
=============================================================================
