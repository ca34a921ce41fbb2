--------------------------- MODULE CompletedAgents ----------------------------
(***************************************************************************)
(* The console's way through Learning: src/runbook_voice/completed_agents.py*)
(* with the page that uses it (ui/version-history/app.js).  The catalogue  *)
(* begins with the agents that come with the repository.  Either the parent *)
(* learns an agent by itself, or a user of the page picks a branch of a    *)
(* past search and has it distilled into an artifact; a request that an    *)
(* agent matches opens its form, with the values that were read out of the *)
(* request, and the form replays it.                                       *)
(***************************************************************************)
EXTENDS Learning, Suggesting

CONSTANT Catalogues  \* the documents there may be at first, in the catalogue's order

\* A document that refers only to slots that are sure to be asked for.
SelfContained(document) ==
    /\ DOMAIN document.slots \subseteq Nat
    /\ \A d \in Range(document.slots) : Asked(d)
    /\ \A s \in Range(document.steps) : s.arguments \cup s.prompt \subseteq SlotNames(document)

\* The agents there are at first are as the one of demo/handwritten_runbook.json: they
\* load and ask for what they need.  One that was distilled before comes last.
ASSUME CatalogueAssumption ==
    /\ "artifact" \in DOMAIN MaxSteps
    /\ \A catalogue \in Catalogues :
          /\ IsList(catalogue)
          /\ \A i \in DOMAIN catalogue :
                /\ Loads(catalogue[i]) /\ SelfContained(catalogue[i])
                /\ catalogue[i].id = Vocabulary.id => i = Len(catalogue)
                /\ Known(Text(catalogue[i])) /\ catalogue[i] # NoRunbook

ConsoleInit == Fresh({"parent", "artifact"}, Catalogues)

\* Only what loads is listed, and only what is listed is matched.
Listed == [i \in {i \in DOMAIN store : Loads(store[i])} |-> store[i]]
MatchCompleted(r) == Match(Utterance(r), Listed)

\* No agent matches: the branching search, as for the parent.
Explore == MatchCompleted(request) = NoRunbook /\ Search

\* The user names the branch; nothing compares it with the others.
Pick ==
    /\ stage = "searched" /\ learner = "artifact"
    /\ winner' \in DOMAIN branches
    /\ stage' = "judged"
    /\ UNCHANGED <<learner, request, branches, store, learned, matched, values>>

\* An agent matches: its form is opened and filled in with what was recovered.  A value
\* has the one kind its slot's type admits, or for a number the more general.
KindOf(type) == IF type = "number" THEN "float" ELSE CHOOSE kind \in Admits(type) : TRUE
Offer ==
    /\ stage = "asked"
    /\ matched' = MatchCompleted(request) /\ matched' # NoRunbook
    /\ values' = [name \in DOMAIN Suggested(matched', request.words)
                     |-> KindOf(Definition(matched', name).type)]
    /\ stage' = "form"
    /\ UNCHANGED <<learner, request, branches, winner, store, learned>>

\* What the fields of a form may hold: a field for JSON takes any.  A box is always
\* ticked or not.
Entries(given) ==
    LET type(name) == Definition(matched, name).type
        json == {name \in given : type(name) \in {"object", "array"}}
    IN  {[name \in given |-> IF name \in json THEN entered[name] ELSE KindOf(type(name))] :
            entered \in [json -> Kinds]}
Always(d) == d.required \/ d.type = "boolean"

\* The form is sent, at once if nothing is missing: the values are resolved before any
\* step, and a step that cannot be undone needs the confirmation.
Use ==
    /\ stage = "form"
    /\ \E given \in SUBSET SlotNames(matched), confirmed \in BOOLEAN :
          /\ {d.name : d \in {d \in Range(matched.slots) : Always(d)}} \subseteq given
          /\ values' \in Entries(given)
          /\ stage' =
               CASE ~Resolves(matched, values') -> "slot failure"
                 [] Resolves(matched, values') /\ \E s \in Range(matched.steps) :
                        ~Substitutes(s, Resolved(matched, values')) -> "stranded"
                 [] OTHER -> IF confirmed \/ \A s \in Range(matched.steps) : ~s.irreversible
                             THEN "replayed" ELSE "declined"
    /\ UNCHANGED <<learner, request, branches, winner, store, learned, matched>>

ConsoleNext ==
    \/ Explore \/ Pick \/ Refuse \/ Save \/ AskAgain \/ Offer \/ Use
    \/ learner = "parent" /\ (Judge \/ JudgeFails)

\* What the parent has learned is answered by the console and by the session, which share
\* the store; an artifact is the console's only.
EveryNext ==
    \/ learner # "artifact" /\ LearningNext
    \/ learner \in {"parent", "artifact"} /\ ConsoleNext

EveryInit == LearningInit \/ ConsoleInit
EverySpec == EveryInit /\ [][EveryNext]_learning

-----------------------------------------------------------------------------
(* Properties *)

\* What the request says of a slot, as it says it.
Spoken(name) == Phrase(request.said[name].part)
Meant(name) ==
    IF Definition(matched, name).type = "integer" THEN <<Number(Spoken(name)[1])>> ELSE Spoken(name)

\* A request that is asked again of the agent distilled from it has all its values
\* recovered, each as the request says it, however the run had typed them: what the
\* distiller keeps as an example and what the console looks for fit together
\* (completed_agents.py: "Reusing those values is deterministic").
OwnRequestIsRecovered ==
    stage = "form" /\ learner = "artifact" /\ request = learned /\ matched.id = Vocabulary.id
        => /\ DOMAIN Suggested(matched, request.words) = SlotNames(matched)
           /\ \A name \in SlotNames(matched) : Suggested(matched, request.words)[name] = Meant(name)

\* Not kept (README, section 6).  What the form is filled in with is what the request says of that slot
\* (completed_agents.py: "the containment check prevents an unrelated example from being
\* silently used").
SuggestedIsSaid ==
    stage = "form" =>
        \A name \in DOMAIN Suggested(matched, request.words) :
            name \in DOMAIN request.said /\ Suggested(matched, request.words)[name] = Meant(name)

\* Not kept (README, section 6).  Nothing is missing from the form of an agent when the request says something of each
\* of its slots (README.md: "A fully specified request runs the saved agent immediately").
FullySpecifiedRunsAtOnce ==
    stage = "form" /\ SlotNames(matched) \subseteq DOMAIN request.said
        => MissingRequired(matched, values) = {}
=============================================================================
