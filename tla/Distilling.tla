------------------------------ MODULE Distilling ------------------------------
(***************************************************************************)
(* How one winning trajectory becomes a runbook document, or is refused:   *)
(* src/runbook_voice/distiller.py.  The regular expressions are taken by   *)
(* what they find: a task says something of some of the slots, each word of *)
(* it belonging to what it says of a slot or to nothing, and a value that  *)
(* was typed reads as something of some of the slots: a key, which tells   *)
(* what is meant, and the part of the text that was found to mean it.      *)
(***************************************************************************)
EXTENDS Integers, SequencesExt

NoSelector == "no selector"
NoValue == [text |-> "no value", reads |-> <<>>]
Refused == [id |-> "refused"]

\* The one vocabulary of the source: its slots in order, the words that bring a
\* task into its domain, its verbs and what of the mechanics they stand for.
Vocabulary ==
    [id |-> "restaurant-reservation",
     words |-> {"book", "restaurant", "table", "dinner"},
     domain |-> {"table", "restaurant", "dinner", "reservation"},
     slots |-> << [name |-> "party_size", type |-> "integer"],
                  [name |-> "cuisine", type |-> "string"],
                  [name |-> "city", type |-> "string"],
                  [name |-> "date", type |-> "string"],
                  [name |-> "time", type |-> "string"] >>,
     chooses |-> {"read", "click"}]

\* Refuse anything but a completed run with a task.
Winning(t) ==
    /\ ~t.error
    /\ t.success
    /\ t.answered
    /\ t.task.words # <<>>

Claims(task) == Range(task.words) \cap Vocabulary.domain # {}

\* A plausible mistake: a field that is written again keeps its first value.
Live(steps) == {i \in DOMAIN steps : steps[i].outcome = "ok" /\ steps[i].kind # "think"}
SameField(s, t) ==
    s.selector # NoSelector /\ s.selector = t.selector /\ s.action = t.action
FirstWrites(steps) ==
    LET kept == {i \in Live(steps) :
                    \A j \in Live(steps) : SameField(steps[i], steps[j]) => j >= i}
    IN  [i \in kept |-> steps[i]]

\* The steps that worked, without reasoning, and of the writes to one field by one
\* mechanic only the last.  What is left of a list is a function on the places that
\* are left.
SurvivingSteps(steps) ==
    LET kept == {i \in Live(steps) :
                    \A j \in Live(steps) : SameField(steps[i], steps[j]) => j <= i}
    IN  [i \in kept |-> steps[i]]

WrittenValues(steps) ==
    [i \in {i \in DOMAIN steps : steps[i].value # NoValue} |-> steps[i].value]

Says(task, slot) == slot.name \in DOMAIN task.said
Reads(value, slot, key) == /\ slot.name \in DOMAIN value.reads
                           /\ value.reads[slot.name].key = key

\* The document's entry for a slot.
Declared(slot, example) ==
    [name |-> slot.name, type |-> slot.type, required |-> TRUE, default |-> FALSE,
     prompt |-> TRUE, example |-> example]

\* Browser run: a slot is lifted when a typed value reads as what the task says of
\* it, and the first such value is explained by it.
Explains(task, written, slot) ==
    {i \in DOMAIN written :
        Says(task, slot) /\ Reads(written[i], slot, task.said[slot.name].key)}
Lifted(task, written) ==
    {n \in DOMAIN Vocabulary.slots : Explains(task, written, Vocabulary.slots[n]) # {}}
Explained(task, written, n) == written[Min(Explains(task, written, Vocabulary.slots[n]))]
LiftSlots(task, written) ==
    [n \in Lifted(task, written) |->
        LET slot == Vocabulary.slots[n]
        IN  Declared(slot, Explained(task, written, n).reads[slot.name].part)]
Attributed(task, written) == {Explained(task, written, n) : n \in Lifted(task, written)}

\* Research run: whatever the task says is lifted, if any of it was executed.
IsResearch(steps) == \E s \in Range(steps) : s.command
LiftFromRequest(task) ==
    [n \in {n \in DOMAIN Vocabulary.slots : Says(task, Vocabulary.slots[n])} |->
        LET slot == Vocabulary.slots[n]
        IN  Declared(slot, task.said[slot.name].part)]
Pursued(task, steps) ==
    \E s \in Range(steps) : s.ran \cap DOMAIN task.said # {}

\* The choice the run made, as an ordinal; 0 where it made none.
ChosenRank(steps) ==
    LET choices == {i \in DOMAIN steps :
                       steps[i].action \in Vocabulary.chooses /\ steps[i].rank > 0}
    IN  IF choices = {} THEN 0 ELSE steps[Min(choices)].rank

Evidence(t) ==
    LET steps == SurvivingSteps(t.steps)
        written == WrittenValues(steps)
    IN  IF IsResearch(steps)
        THEN IF Pursued(t.task, steps) THEN LiftFromRequest(t.task) ELSE <<>>
        ELSE IF Range(written) \subseteq Attributed(t.task, written)
             THEN LiftSlots(t.task, written) ELSE <<>>
-----------------------------------------------------------------------------
\* The slots that the texts of a step refer to.
Arguments(slots) == {slots[n].name : n \in DOMAIN slots}
ConfirmationPrompt(slots) == Arguments(slots)

\* The example keeps the words of the task that say no value of a slot, up to the last
\* that can end a sentence.
Dangling == {"at", "on", "in", "for", "a", "an", "the", "somewhere", "to"}
GeneralizedUtterance(task, slots) ==
    LET kept == {i \in DOMAIN task.words : task.saying[i] \notin Arguments(slots)}
        solid == {i \in kept : task.words[i] \notin Dangling}
    IN  {task.words[i] : i \in {i \in kept : \E end \in solid : i <= end}}

Find(slots) == [id |-> "search", action |-> "restaurant.search", irreversible |-> FALSE,
                arguments |-> Arguments(slots), prompt |-> {}]
Choose(slots) == [id |-> "select", action |-> "restaurant.select", irreversible |-> FALSE,
                  arguments |-> Arguments(slots) \cap {"time"}, prompt |-> {}]
Commit(slots) == [id |-> "book", action |-> "restaurant.book", irreversible |-> TRUE,
                  arguments |-> Arguments(slots), prompt |-> ConfirmationPrompt(slots)]

Assemble(t) ==
    LET slots == Evidence(t)
        rank == ChosenRank(SurvivingSteps(t.steps))
    IN  [id |-> Vocabulary.id, words |-> Vocabulary.words, version |-> "1",
         examples |-> GeneralizedUtterance(t.task, slots),
         slots |-> slots,
         rank |-> rank,
         steps |-> IF rank = 0 THEN <<Find(slots), Commit(slots)>>
                   ELSE <<Find(slots), Choose(slots), Commit(slots)>>]

\* What the distiller checks of its own document: one gate, nothing referred to
\* that is not declared and sure to have a value, a readback with specifics.
Verified(document) ==
    LET gates == {s \in Range(document.steps) : s.irreversible}
        sure == {d.name : d \in {d \in Range(document.slots) : d.required \/ d.default}}
    IN  /\ \A d \in Range(document.slots) : d.prompt
        /\ \E gate \in gates : gates = {gate} /\ gate.prompt # {}
        /\ \A s \in Range(document.steps) : s.arguments \cup s.prompt \subseteq sure

Distill(t) ==
    IF /\ Winning(t)
       /\ Claims(t.task)
       /\ DOMAIN SurvivingSteps(t.steps) # {}
       /\ DOMAIN Evidence(t) # {}
       /\ Verified(Assemble(t))
    THEN Assemble(t)
    ELSE Refused
=============================================================================
