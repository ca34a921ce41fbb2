------------------------------- MODULE Learning -------------------------------
(***************************************************************************)
(* What a skill goes through, from the request nothing matched to the      *)
(* request it answers: the search's trajectories, the judge, the           *)
(* distiller, the store and its matcher, the questions and the             *)
(* substitution.  LearningWorker of src/runbook_voice/assistant.py and     *)
(* learn_from_trajectories of parent_learning.py are two ways through it;  *)
(* WarmReplayJoin of warm_replay.py is a third, which takes the document   *)
(* from outside and the values with the request.                           *)
(*                                                                         *)
(* One request at a time: what requests do to each other is in Session.    *)
(***************************************************************************)
EXTENDS Matching, Distilling, Slots

CONSTANTS
    Requests,   \* what is said: its words, the slot each is about, the values
    Steps,      \* the steps that a branch may record
    MaxSteps,   \* bound: steps of the branch under study, by who learns
    LaterSteps, \* bound: the same, once a skill has been learned
    OtherWins,  \* the branch beside it, or, where the parent explores deeper, below it
    Prefilled,  \* the values that a caller may give along with a request
    Payloads    \* the runbook documents that may be offered from outside

IsList(s) == Len(s) \in Nat /\ DOMAIN s = 1..Len(s)

\* What a branch records is a list, however long.
ASSUME StepsAssumption ==
    /\ {"assistant", "parent"} \subseteq DOMAIN MaxSteps
    /\ \A way \in DOMAIN MaxSteps : MaxSteps[way] \in Nat
    /\ LaterSteps \in Nat
    /\ \A other \in OtherWins : IsList(other.steps)
ASSUME PrefilledAssumption ==
    \A given \in Prefilled : \A name \in DOMAIN given : given[name] \in Kinds

VARIABLES
    stage,      \* where the request stands
    learner,    \* which of the three ways is taken
    request,    \* what was asked
    branches,   \* the trajectories that the search returned
    winner,     \* the position of the judged branch
    store,      \* the runbooks of the store, in order
    learned,    \* the request whose skill was announced as saved
    matched,    \* the runbook that the request matched
    values      \* the slot values collected for it

learning == <<stage, learner, request, branches, winner, store, learned, matched, values>>

Learners == {"assistant", "parent", "join"}
NoValues == [name \in {} |-> "none"]
Nobody == [words |-> <<>>, saying |-> <<>>, said |-> NoValues]
Utterance(r) == Range(r.words)

\* Whatever is said or kept is made of words.
ASSUME WordsAssumption ==
    /\ Known(Vocabulary.words)
    /\ \A r \in Requests : Known(Utterance(r))
    /\ \A payload \in Payloads : Known(payload.words)

Lookup(r) == Match(Utterance(r), store)

Upserted(runbook) ==
    IF \E i \in DOMAIN store : store[i].id = runbook.id
    THEN [i \in DOMAIN store |-> IF store[i].id = runbook.id THEN runbook ELSE store[i]]
    ELSE Append(store, runbook)

Fresh(ways, stores) ==
    /\ stage = "asked"
    /\ learner \in ways
    /\ request \in Requests
    /\ branches = <<>> /\ winner = 0
    /\ store \in stores
    /\ learned = Nobody /\ matched = NoRunbook /\ values = NoValues

LearningInit == Fresh(Learners, {<<>>})

-----------------------------------------------------------------------------
\* Nothing in the store matches: the search returns its trajectories.
Trajectory(branch, below, steps, ending) ==
    [branch |-> branch, below |-> below, task |-> request, steps |-> steps,
     success |-> ending # "no success", error |-> ending = "died",
     answered |-> ending # "no answer"]
Search ==
    /\ stage = "asked" /\ learner # "join"
    /\ Lookup(request) = NoRunbook
    /\ \E steps \in BoundedSeq(Steps, IF learned = Nobody THEN MaxSteps[learner] ELSE LaterSteps),
          other \in OtherWins,
          ending \in {"won", "no success", "died", "no answer"} :
          /\ other.below => learner = "parent"
          /\ branches' = <<Trajectory("b0", FALSE, steps, ending),
                           Trajectory("b1", other.below, other.steps, other.ending)>>
    /\ stage' = "searched"
    /\ UNCHANGED <<learner, request, winner, store, learned, matched, values>>

\* PairwiseJudge.pick: at least two branches with ids of their own, and an answer
\* that names one of them and justifies it.
BranchIds == {t.branch : t \in Range(branches)}
Comparable == Len(branches) >= 2 /\ Cardinality(BranchIds) = Len(branches)
Verdicts == [winner : BranchIds \cup {"invented"}, justified : BOOLEAN]
Usable(verdict) == verdict.winner \in BranchIds /\ verdict.justified

Judge ==
    /\ stage = "searched"
    /\ Comparable
    /\ \E verdict \in Verdicts :
          /\ Usable(verdict)
          /\ winner' \in {i \in DOMAIN branches : branches[i].branch = verdict.winner}
    /\ stage' = "judged"
    /\ UNCHANGED <<learner, request, branches, store, learned, matched, values>>

\* The call failed, or its answer is unusable.  The parent lets the error out.  The
\* assistant falls back to the longest successful branch, and looks for a branch whose
\* id is that verdict: none is, so the job fails as well.
Successful == {i \in DOMAIN branches : branches[i].success}
LongestSuccessful ==
    CHOOSE i \in Successful : \A j \in Successful :
        \/ Len(branches[j].steps) < Len(branches[i].steps)
        \/ Len(branches[j].steps) = Len(branches[i].steps) /\ j >= i
JudgeFails ==
    /\ stage = "searched"
    /\ winner' = IF learner = "assistant" /\ Successful # {} THEN LongestSuccessful ELSE 0
    /\ stage' = "failed"
    /\ UNCHANGED <<learner, request, branches, store, learned, matched, values>>

\* What is distilled: the winner, with the steps from the root on if the parent learns.
WinningPath ==
    IF branches[winner].below
    THEN [branches[winner] EXCEPT !.steps = branches[1].steps \o @]
    ELSE branches[winner]

\* The winner cannot be distilled: the assistant says so, the parent raises.
Refuse ==
    /\ stage = "judged"
    /\ Distill(WinningPath) = Refused
    /\ stage' = "refused"
    /\ UNCHANGED <<learner, request, branches, winner, store, learned, matched, values>>

\* The document is saved as it was distilled, and by the parent as the runbook that it
\* loads as, written back.
Remembered(document) == IF learner = "parent" THEN WrittenBack(document) ELSE document
Save ==
    /\ stage = "judged"
    /\ Distill(WinningPath) # Refused
    /\ learner = "parent" => Loads(Distill(WinningPath))
    /\ store' = Upserted(Remembered(Distill(WinningPath)))
    /\ stage' = "learned"
    /\ learned' = request
    /\ UNCHANGED <<learner, request, branches, winner, matched, values>>

-----------------------------------------------------------------------------
\* The next request, the same or another.
AskAgain ==
    /\ stage = "learned"
    /\ request' \in Requests
    /\ stage' = "asked"
    /\ branches' = <<>> /\ winner' = 0
    /\ UNCHANGED <<learner, store, learned, matched, values>>

\* It matches: the runbook is loaded, and the caller's values are checked.
Warm ==
    /\ stage = "asked" /\ learner # "join"
    /\ matched' = Lookup(request) /\ matched' # NoRunbook
    /\ values' \in Prefilled
    /\ stage' = CASE ~Loads(matched') -> "unloadable"
                  [] ~Prefills(matched', values') -> "rejected"
                  [] OTHER -> "filling"
    /\ UNCHANGED <<learner, request, branches, winner, store, learned>>

\* One question is answered: the first that is missing.  A reply that cannot be used
\* stands for as many as the dialogue allows; it tells them apart in Session.
Given(given, slot, kind) ==
    [name \in DOMAIN given \cup {slot} |-> IF name = slot THEN kind ELSE given[name]]
Answer ==
    /\ stage = "filling"
    /\ MissingRequired(matched, values) # {}
    /\ \E reply \in Replies :
          LET slot == matched.slots[Min(MissingRequired(matched, values))]
          IN  IF Parse(slot.type, reply) = Unparsed
              THEN stage' = "gave up" /\ UNCHANGED values
              ELSE stage' = stage /\ values' = Given(values, slot.name, Parse(slot.type, reply))
    /\ UNCHANGED <<learner, request, branches, winner, store, learned, matched>>

\* Nothing is left to ask: the slots are resolved and every step is substituted.
Replay ==
    /\ stage = "filling"
    /\ MissingRequired(matched, values) = {}
    /\ stage' = CASE ~Resolves(matched, values) -> "unresolved"
                  [] \E s \in Range(matched.steps) : ~Substitutes(s, Resolved(matched, values))
                        -> "stranded"
                  [] OTHER -> "replayed"
    /\ UNCHANGED <<learner, request, branches, winner, store, learned, matched, values>>

-----------------------------------------------------------------------------
\* WarmReplayJoin.accept_synthesized: a document from outside, not yet one in the
\* store, is admitted as it loads, and written back.
AcceptSynthesized ==
    /\ stage = "asked" /\ learner = "join" /\ store = <<>>
    /\ \E payload \in Payloads :
          IF Loads(payload)
          THEN store' = Upserted(WrittenBack(payload)) /\ UNCHANGED stage
          ELSE stage' = "invalid" /\ UNCHANGED store
    /\ UNCHANGED <<learner, request, branches, winner, learned, matched, values>>

\* WarmReplayJoin.replay: no question is asked; what the values do not resolve fails
\* before the first step.
ReplayAtOnce ==
    /\ stage = "asked" /\ learner = "join"
    /\ matched' = Lookup(request)
    /\ values' \in Prefilled
    /\ stage' = CASE matched' = NoRunbook -> "no match"
                  [] matched' # NoRunbook /\ ~Loads(matched') -> "unloadable"
                  [] matched' # NoRunbook /\ ~Resolves(matched', values') -> "slot failure"
                  [] OTHER -> IF \E s \in Range(matched'.steps) :
                                    ~Substitutes(s, Resolved(matched', values'))
                              THEN "stranded" ELSE "replayed"
    /\ UNCHANGED <<learner, request, branches, winner, store, learned>>

LearningNext ==
    \/ Search \/ Judge \/ JudgeFails \/ Refuse \/ Save \/ AskAgain \/ Warm \/ Answer \/ Replay
    \/ AcceptSynthesized \/ ReplayAtOnce

LearningSpec == LearningInit /\ [][LearningNext]_learning

-----------------------------------------------------------------------------
(* Properties *)

Final == {"failed", "refused", "rejected", "unloadable", "unresolved", "stranded", "gave up",
          "replayed", "invalid", "no match", "slot failure"}

\* The variables keep their types.
LearningTypeOK ==
    /\ stage \in {"asked", "searched", "judged", "learned", "filling"} \cup Final
    /\ learner \in Learners
    /\ request \in Requests /\ learned \in Requests \cup {Nobody}
    /\ winner \in {0} \cup DOMAIN branches
    /\ \A name \in DOMAIN values : values[name] \in Kinds

\* The last thing that worked in each field, by each mechanic, of a browser run.
LastWrites(steps) ==
    LET worked(i) == steps[i].outcome = "ok" /\ steps[i].kind # "think"
        field(i) == <<steps[i].action, steps[i].selector>>
    IN  {steps[i].value : i \in {i \in DOMAIN steps :
            /\ worked(i) /\ steps[i].value # NoValue
            /\ \A j \in i+1..Len(steps) : worked(j) => field(j) # field(i)}}

\* A skill takes as slots what its run did for the request, no more and no less: each
\* value the run left in a field is what the request says of a declared slot, and no
\* slot is declared of which the request says nothing (the promise of distiller.py:
\* no invented parameter, no value of one run baked in).
SlotsAreEvidenced ==
    stage = "learned" =>
        LET declared == SlotNames(store[Len(store)])
            steps == WinningPath.steps
        IN  /\ declared \subseteq DOMAIN request.said
            /\ \/ \E s \in Range(steps) : s.command
               \/ \A v \in LastWrites(steps) : \E name \in declared :
                     name \in DOMAIN v.reads /\ v.reads[name].key = request.said[name].key

\* Whatever is answered to its questions, a skill that was saved loads, resolves and
\* substitutes every step: nothing fails after a step has run (distiller.py: a wrong
\* runbook must be refused when it is made, never in a replay).
LearnedSkillReplays == learner # "join" => stage \notin {"unloadable", "unresolved", "stranded"}

\* Values beside the intent do not sink it.  A text that names every concept of a terse one
\* (at most eleven other words for six concepts: three for "book" and "table") names its
\* intent in full, whatever else it says.  A request is never searched for if a stored skill
\* is terse and the request names it so, or the other way round (runbook_store.py: the
\* coverage is of whichever of the two weighs less).
NamesInFull(text, terse) ==
    LET concepts == terse \cap Concepts
    IN  /\ concepts # {} /\ concepts \subseteq text
        /\ 6 * Cardinality(terse \ Concepts) <= 11 * Cardinality(concepts)
FullIntentIsWarm ==
    stage = "searched" =>
        \A i \in DOMAIN store :
            /\ ~NamesInFull(Tokens(Utterance(request)), Tokens(Text(store[i])))
            /\ ~NamesInFull(Tokens(Text(store[i])), Tokens(Utterance(request)))

\* Whatever request is looked up, misspelt words of it are compared by their distance, up
\* to the limit the matcher gave (_edit_distance: "abandoned as soon as it exceeds limit").
\* A row that is over the limit may be stepped over by a swap; yet the scan never gives
\* up on words that are close enough, nor lets others pass.
AbandonmentIsSound == stage = "asked" => ScanIsExact

\* Not kept (README, section 6).  What the user is told when a skill was learned: the
\* same request is warm from now on (assistant.py: "ask me again and it'll be instant").
AskAgainIsWarm == stage = "searched" => request # learned

\* Not kept (README, section 6).  When the judge cannot be used, the assistant learns from the longest successful
\* branch, if there is one (assistant.py: "any judge failure falls back").
JudgeFailureFallsBack == stage = "failed" /\ learner = "assistant" => Successful = {}
=============================================================================
