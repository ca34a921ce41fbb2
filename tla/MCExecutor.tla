----------------------------- MODULE MCExecutor -----------------------------
(***************************************************************************)
(* Small instances of Executor for TLC: every runbook of at most three     *)
(* steps over four kinds of step, with two slots.                          *)
(***************************************************************************)
EXTENDS Executor

CONSTANTS city, note

TwoSlots == {city, note}

\* A search, a ranking step, a gated booking whose readback names the note,
\* and a gated cancellation that needs the note.
Search == [irreversible |-> FALSE, books |-> FALSE, needs |-> {city}, readback |-> {}]
Choose == [irreversible |-> FALSE, books |-> FALSE, needs |-> {note}, readback |-> {}]
Book   == [irreversible |-> TRUE,  books |-> TRUE,  needs |-> {city}, readback |-> {note}]
Notify == [irreversible |-> TRUE,  books |-> FALSE, needs |-> {note}, readback |-> {}]

SequencesOf(S) == UNION {[1 .. n -> S] : n \in 0 .. 3}

\* The note is required, optional, has a default or is not declared at all.
WithSteps(S) ==
  {b \in [slots : {TwoSlots, {city}}, required : {{city}, TwoSlots},
          defaults : {{}, {note}}, steps : SequencesOf(S)] :
     b.required \union b.defaults \subseteq b.slots}

GatedRunbooks == WithSteps({Search, Choose, Book, Notify})

AllSupplies == {s \in Supply : s.mistyped \subseteq s.given}
=============================================================================
