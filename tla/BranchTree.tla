------------------------------ MODULE BranchTree ------------------------------
(***************************************************************************)
(* One branching search: BranchingSearch.search and search_tree, with the  *)
(* threads they hand work to.                                              *)
(*                                                                         *)
(* The search is a coroutine; its Sailbox calls run in threads of the      *)
(* event loop's pool.  Cancelling the coroutine (Stop in the console, or   *)
(* cancel() and close() of the coordinator) makes it forget the thread it  *)
(* awaits: a thread still queued for a worker never runs, a running one    *)
(* goes on and its answer is dropped.                                      *)
(*                                                                         *)
(* Box 0 is the base.  Branch k, "b<k-1>" in the code, runs in box k, a    *)
(* child of a checkpoint.  Detached processes survive a checkpoint, so a   *)
(* continuation inherits each agent that still runs in its parent's box.   *)
(* What one launch may report is the subject of InBoxAgent; here it is one *)
(* step.  Continuation angles are always distinct and the request is never *)
(* empty: those early refusals happen before anything is booted.           *)
(***************************************************************************)
EXTENDS Naturals, FiniteSetsExt, Sequences

CONSTANTS
  Width,       \* the most children of a round (max_branches)
  MaxDepth,    \* max_depth
  MaxBranches, \* bound of the model on the branches numbered in one search
  MaxCancels,  \* bound of the model on cancellations of the search
  Faults,      \* may Sailbox calls, launches and the parent's model fail?
  AgentsOutlive \* may an agent outlive the launch that started it?  Its
                \* deadline is read between two model calls only.

ASSUME BranchTreeAssumption ==
  /\ Width \in Nat \ {0}
  /\ MaxDepth \in 1 .. 4          \* MIN_TREE_DEPTH, MAX_TREE_DEPTH
  /\ MaxBranches \in Nat /\ Width <= MaxBranches
  /\ MaxCancels \in Nat
  /\ Faults \in BOOLEAN
  /\ AgentsOutlive \in BOOLEAN

VARIABLES
  kind,      \* "search" (one round, no parent) or "tree"
  pc,        \* what the coroutine awaits, or "ended"
  how,       \* how it ends: "none", "returned", "raised", "cancelled"
  depth,     \* the round's depth
  angles,    \* the branches of this round
  next,      \* next_branch_number
  source,    \* source_box
  parent,    \* parent_branch_id
  owned,     \* boxes: what the finally block will terminate
  items,     \* trajectories
  winners,   \* the winners of decisions
  answer,    \* this round's launches: the branch_id reported, None before
  cancels,   \* cancellations so far
  bootT,     \* the thread of boot()
  forkT,     \* the thread of checkpoint_fanout()
  termT,     \* the thread of _terminate()
  image,     \* the agents that run in the checkpoint taken by forkT
  making,    \* children that forkT has asked for
  forkBad,   \* has a from_checkpoint of forkT raised?
  todo,      \* boxes that termT has not reached
  stuck,     \* boxes whose terminate() raised
  box,       \* the boxes themselves: "none", "up" or "gone"
  from,      \* the box whose checkpoint a box was made from
  alive,     \* the agents that run in each box after its launch ended
  files,     \* persist(): branch_id -> the trajectory in <branch_id>.json
  learning,  \* learn_from_trajectories: "none", "learned" or "raised"
  lesson     \* _winning_path: the trajectories distilled, root first

search  == <<kind, pc, how, depth, angles, next, source, parent, owned, items, winners,
             answer, cancels>>
forking == <<forkT, image, making, forkBad>>
ending  == <<termT, todo, stuck>>
outside == <<box, from, alive>>
memory  == <<files, learning, lesson>>
vars == <<search, bootT, forking, ending, outside, memory>>

Base     == 0
None     == 0    \* no branch has this number
Branches == 1 .. MaxBranches
Boxes    == 0 .. MaxBranches

ThreadStates == {"idle", "queued", "running", "returned", "raised", "dropped"}
Item == [id : Branches, parent : Boxes, depth : Nat, box : Branches]

TypeOK ==
  /\ kind \in {"search", "tree"}
  /\ pc \in {"boot", "seed", "fork", "launch", "decide", "cleanup", "ended"}
  /\ how \in {"none", "returned", "raised", "cancelled"}
  /\ depth \in Nat
  /\ angles \subseteq Branches
  /\ next \in 0 .. MaxBranches
  /\ source \in Boxes
  /\ parent \in Boxes
  /\ owned \subseteq Boxes
  /\ items \in Seq(Item)
  /\ winners \in Seq(Branches)
  /\ answer \in [Branches -> Boxes]
  /\ cancels \in 0 .. MaxCancels
  /\ bootT \in ThreadStates /\ forkT \in ThreadStates /\ termT \in ThreadStates
  /\ image \subseteq Branches
  /\ making \subseteq Branches
  /\ forkBad \in BOOLEAN
  /\ todo \subseteq Boxes
  /\ stuck \subseteq Boxes
  /\ box \in [Boxes -> {"none", "up", "gone"}]
  /\ from \in [Branches -> Boxes]
  /\ alive \in [Boxes -> SUBSET Branches]
  /\ DOMAIN files = Branches
  /\ learning \in {"none", "learned", "raised"}

-----------------------------------------------------------------------------

(* _number_angles: the n angles of a round get the next n branch numbers. *)
Numbered(start, n) == start + 1 .. start + n

(* Nobody holds the handle of a box that an abandoned thread makes. *)
Forget(t) == IF t = "queued" THEN "dropped" ELSE t

(* The finally block: the boxes that the search knows go to a thread. *)
Finally(outcome) ==
  /\ pc' = "cleanup"
  /\ how' = outcome
  /\ termT' = "queued"
  /\ todo' = owned
  /\ UNCHANGED stuck

Init ==
  /\ kind \in {"search", "tree"}
  /\ pc = "boot" /\ how = "none" /\ depth = 0
  /\ \E n \in 1 .. Width : angles = Numbered(0, n) /\ next = n
  /\ source = Base /\ parent = None /\ owned = {} /\ items = <<>> /\ winners = <<>>
  /\ answer = [b \in Branches |-> None]
  /\ cancels = 0
  /\ bootT = "queued" /\ forkT = "idle" /\ termT = "idle"
  /\ image = {} /\ making = {} /\ forkBad = FALSE
  /\ todo = {} /\ stuck = {}
  /\ box = [b \in Boxes |-> "none"]
  /\ from = [b \in Branches |-> Base]
  /\ alive = [b \in Boxes |-> {}]
  /\ files = [b \in Branches |-> 0]
  /\ learning = "none" /\ lesson = <<>>

-----------------------------------------------------------------------------
(* boot: it is awaited before the try, so nothing is cleaned up after it. *)

BootStarts ==
  /\ bootT = "queued"
  /\ bootT' = "running"
  /\ UNCHANGED <<search, forking, ending, outside, memory>>

BootEnds ==
  /\ bootT = "running"
  /\ \/ /\ bootT' = "returned"
        /\ box' = [box EXCEPT ![Base] = "up"]
     \/ /\ Faults
        /\ bootT' = "raised"
        /\ UNCHANGED box
  /\ UNCHANGED <<search, forking, ending, from, alive, memory>>

Booted ==
  /\ pc = "boot" /\ bootT = "returned"
  /\ pc' = "seed"
  /\ bootT' = "idle"
  /\ owned' = {Base}
  /\ UNCHANGED <<kind, how, depth, angles, next, source, parent, items, winners, answer,
                 cancels, forking, ending, outside, memory>>

BootFailed ==
  /\ pc = "boot" /\ bootT = "raised"
  /\ pc' = "ended" /\ how' = "raised"
  /\ UNCHANGED <<kind, depth, angles, next, source, parent, owned, items, winners, answer,
                 cancels, bootT, forking, ending, outside, memory>>

(* _seed: python3 and the agent program; then the first fan-out. *)
Seeded ==
  /\ pc = "seed"
  /\ pc' = "fork"
  /\ forkT' = "queued"
  /\ UNCHANGED <<kind, how, depth, angles, next, source, parent, owned, items, winners,
                 answer, cancels, bootT, image, making, forkBad, ending, outside,
                 memory>>

-----------------------------------------------------------------------------
(* checkpoint_fanout: one checkpoint, then one from_checkpoint per name in *)
(* a pool of its own, whose exit waits for all of them, failed or not.     *)

ForkStarts ==
  /\ forkT = "queued"
  /\ \/ /\ forkT' = "running"
        /\ image' = alive[source]
        /\ making' = angles
     \/ /\ Faults
        /\ forkT' = "raised"
        /\ UNCHANGED <<image, making>>
  /\ forkBad' = FALSE
  /\ UNCHANGED <<search, bootT, ending, outside, memory>>

ChildUp(b) ==
  /\ forkT = "running" /\ b \in making
  /\ making' = making \ {b}
  /\ box' = [box EXCEPT ![b] = "up"]
  /\ from' = [from EXCEPT ![b] = source]
  /\ alive' = [alive EXCEPT ![b] = image]
  /\ UNCHANGED <<search, bootT, forkT, image, forkBad, ending, memory>>

(* Also a child still waiting for its pool thread when a sibling raised. *)
ChildFails(b) ==
  /\ Faults
  /\ forkT = "running" /\ b \in making
  /\ making' = making \ {b}
  /\ forkBad' = TRUE
  /\ UNCHANGED <<search, bootT, forkT, image, ending, outside, memory>>

(* A bug: the fan-out waits for every child to come up. *)
ForkEndsWithAll ==
  /\ forkT = "running" /\ \A b \in angles : box[b] = "up"
  /\ forkT' = "returned"
  /\ UNCHANGED <<search, bootT, image, making, forkBad, ending, outside, memory>>

ForkEnds ==
  /\ forkT = "running" /\ making = {}
  /\ forkT' = IF forkBad THEN "raised" ELSE "returned"
  /\ UNCHANGED <<search, bootT, image, making, forkBad, ending, outside, memory>>

Forked ==
  /\ pc = "fork" /\ forkT = "returned"
  /\ pc' = "launch"
  /\ forkT' = "idle"
  /\ owned' = owned \cup angles
  /\ UNCHANGED <<kind, how, depth, angles, next, source, parent, items, winners, answer,
                 cancels, bootT, image, making, forkBad, ending, outside, memory>>

-----------------------------------------------------------------------------
(* gather(..., return_exceptions=True): a launch that raises is made a     *)
(* trajectory by _as_trajectory, so every child ends up with one.          *)

(* Trajectory of the box's own branch; its agent wrote it and exited, or   *)
(* the launch timed out or raised, and then the agent may still run.       *)
OwnReport(b) ==
  /\ pc = "launch" /\ b \in angles /\ answer[b] = None
  /\ answer' = [answer EXCEPT ![b] = b]
  /\ \/ UNCHANGED alive
     \/ /\ AgentsOutlive
        /\ alive' = [alive EXCEPT ![b] = @ \cup {b}]
  /\ UNCHANGED <<kind, pc, how, depth, angles, next, source, parent, owned, items, winners,
                 cancels, bootT, forking, ending, box, from, memory>>

(* An inherited agent writes trajectory.json and DONE before the box's own *)
(* agent does, and that file names the branch of its writer.               *)
StrayReport(b, a) ==
  /\ pc = "launch" /\ b \in angles /\ answer[b] = None
  /\ a \in alive[b]
  /\ answer' = [answer EXCEPT ![b] = a]
  /\ alive' = [alive EXCEPT ![b] = (@ \ {a}) \cup {b}]
  /\ UNCHANGED <<kind, pc, how, depth, angles, next, source, parent, owned, items, winners,
                 cancels, bootT, forking, ending, box, from, memory>>

AgentExits(b, a) ==
  /\ a \in alive[b]
  /\ alive' = [alive EXCEPT ![b] = @ \ {a}]
  /\ UNCHANGED <<search, bootT, forking, ending, box, from, memory>>

(* round_items: the tree stamps parent and depth on what was reported, and *)
(* keeps the branch_id that the trajectory carries.                        *)
RoundItems ==
  [i \in 1 .. Cardinality(angles) |->
     LET b == next - Cardinality(angles) + i
     IN  [id |-> answer[b], parent |-> parent, depth |-> depth, box |-> b]]

RoundEnds ==
  /\ pc = "launch"
  /\ \A b \in angles : answer[b] # None
  /\ items' = items \o RoundItems
  /\ \/ /\ kind = "tree"
        /\ pc' = "decide"
        /\ UNCHANGED <<how, ending>>
     \/ /\ kind = "search"
        /\ Finally("returned")
  /\ UNCHANGED <<kind, depth, angles, next, source, parent, owned, winners, answer, cancels,
                 bootT, forking, outside, memory>>
-----------------------------------------------------------------------------
(* The parent: PairwiseJudge.pick, ParentRefiner.refine, then the checks.  *)

CanContinue == depth + 1 < MaxDepth

Reported == {answer[b] : b \in angles}

(* The judge compares two trajectories or more, and refuses a duplicate id. *)
Comparable ==
  /\ Cardinality(angles) >= 2
  /\ \A b, c \in angles : answer[b] = answer[c] => b = c

(* A bug: the tree goes on from the first child, whoever won. *)
FirstBox(w) == CHOOSE b \in angles : \A c \in angles : b <= c

(* by_id[winner]; the ids of a round that was judged are distinct. *)
BoxOf(w) == CHOOSE b \in angles : answer[b] = w

Stop(w, complete) ==
  /\ complete \/ ~CanContinue
  /\ winners' = Append(winners, w)
  /\ Finally("returned")
  /\ UNCHANGED <<kind, depth, angles, next, source, parent, owned, items, answer, cancels,
                 bootT, forking, outside, memory>>

Continue(w, n) ==
  /\ CanContinue
  /\ next + n <= MaxBranches
  /\ winners' = Append(winners, w)
  /\ depth' = depth + 1
  /\ source' = BoxOf(w)
  /\ parent' = w
  /\ angles' = Numbered(next, n)
  /\ next' = next + n
  /\ answer' = [b \in Branches |-> None]
  /\ pc' = "fork"
  /\ forkT' = "queued"
  /\ UNCHANGED <<kind, how, owned, items, cancels, bootT, image, making, forkBad,
                 ending, outside, memory>>

Decide ==
  /\ pc = "decide" /\ Comparable
  /\ \E w \in Reported :
       \/ \E complete \in BOOLEAN : Stop(w, complete)
       \/ \E n \in 2 .. Width : Continue(w, n)

(* An exception inside the try: seeding, fan-out, judge, refiner or a check. *)
Raises ==
  /\ \/ pc = "seed" /\ Faults
     \/ pc = "fork" /\ forkT = "raised"
     \/ pc = "decide" /\ (Faults \/ ~Comparable)
  /\ Finally("raised")
  /\ UNCHANGED <<kind, depth, angles, next, source, parent, owned, items, winners, answer,
                 cancels, bootT, forking, outside, memory>>

-----------------------------------------------------------------------------
(* _terminate: each box on its own, and a failure is swallowed. *)

TermStarts ==
  /\ termT = "queued"
  /\ termT' = "running"
  /\ UNCHANGED <<search, bootT, forking, todo, stuck, outside, memory>>

(* A bug: one terminate() that raises ends the loop over the boxes. *)
TerminateUntilOneFails(b) ==
  /\ termT = "running" /\ b \in todo
  /\ \/ /\ box' = [box EXCEPT ![b] = "gone"]
        /\ alive' = [alive EXCEPT ![b] = {}]
        /\ todo' = todo \ {b}
        /\ UNCHANGED stuck
     \/ /\ Faults
        /\ stuck' = stuck \cup {b}
        /\ todo' = {}
        /\ UNCHANGED <<box, alive>>
  /\ UNCHANGED <<search, bootT, forking, termT, from, memory>>

Terminate(b) ==
  /\ termT = "running" /\ b \in todo
  /\ todo' = todo \ {b}
  /\ \/ /\ box' = [box EXCEPT ![b] = "gone"]
        /\ alive' = [alive EXCEPT ![b] = {}]
        /\ UNCHANGED stuck
     \/ /\ Faults
        /\ stuck' = stuck \cup {b}
        /\ UNCHANGED <<box, alive>>
  /\ UNCHANGED <<search, bootT, forking, termT, from, memory>>

TermEnds ==
  /\ termT = "running" /\ todo = {}
  /\ termT' = "returned"
  /\ UNCHANGED <<search, bootT, forking, todo, stuck, outside, memory>>

CleanedUp ==
  /\ pc = "cleanup" /\ termT = "returned"
  /\ pc' = "ended"
  /\ UNCHANGED <<kind, how, depth, angles, next, source, parent, owned, items, winners,
                 answer, cancels, bootT, forking, ending, outside, memory>>

-----------------------------------------------------------------------------
(* CancelledError at the await where the search stands, also when the      *)
(* thread's answer is there and the search was not resumed with it yet.    *)
Cancel ==
  /\ cancels < MaxCancels
  /\ cancels' = cancels + 1
  /\ \/ /\ pc = "boot"
        /\ pc' = "ended" /\ how' = "cancelled"
        /\ bootT' = Forget(bootT)
        /\ UNCHANGED <<forkT, ending>>
     \/ /\ pc \in {"seed", "fork", "launch", "decide"}
        /\ Finally("cancelled")
        /\ forkT' = Forget(forkT)
        /\ UNCHANGED bootT
     \/ /\ pc = "cleanup"
        /\ pc' = "ended" /\ how' = "cancelled"
        /\ termT' = Forget(termT)
        /\ UNCHANGED <<bootT, forkT, todo, stuck>>
  /\ UNCHANGED <<kind, depth, angles, next, source, parent, owned, items, winners, answer,
                 image, making, forkBad, outside, memory>>

-----------------------------------------------------------------------------
(* What run_demo does with the tree: persist, then learn_from_trajectories. *)

Indices  == 1 .. Len(items)
With(id) == {i \in Indices : items[i].id = id}

(* persist: the files are written in turn, so the last one of an id stays. *)
Persist ==
  /\ pc = "ended" /\ how = "returned" /\ kind = "tree"
  /\ \A b \in Branches : files[b] = 0
  /\ files' = [id \in Branches |-> IF With(id) = {} THEN 0 ELSE Max(With(id))]
  /\ UNCHANGED <<search, bootT, forking, ending, outside, learning, lesson>>

(* _winning_path: from the first trajectory that has the winner's id up to *)
(* a root, a parent being the last trajectory that has its id.  A missing  *)
(* parent or a cycle of ids raises, which is the empty path.               *)
Ascends(path, i) ==
  /\ path[Len(path)] = i
  /\ items[path[1]].parent = None
  /\ \A k \in 2 .. Len(path) : /\ With(items[path[k]].parent) # {}
                               /\ path[k - 1] = Max(With(items[path[k]].parent))
  /\ \A k, l \in 1 .. Len(path) : items[path[k]].id = items[path[l]].id => k = l

Paths == UNION {[1 .. n -> Indices] : n \in Indices}

Climb(i) ==
  LET up == {path \in Paths : Ascends(path, i)}
  IN  IF up = {} THEN <<>> ELSE CHOOSE path \in up : TRUE

Learn ==
  /\ \E b \in Branches : files[b] # 0
  /\ learning = "none"
  /\ LET path == Climb(Min(With(winners[Len(winners)])))
     IN  /\ lesson' = path
         /\ learning' = IF path = <<>> THEN "raised" ELSE "learned"
  /\ UNCHANGED <<search, bootT, forking, ending, outside, files>>

-----------------------------------------------------------------------------
Threads ==
  \/ BootStarts \/ BootEnds
  \/ ForkStarts \/ ForkEnds \/ \E b \in Branches : ChildUp(b) \/ ChildFails(b)
  \/ TermStarts \/ TermEnds \/ \E b \in Boxes : Terminate(b)

Coroutine ==
  \/ Booted \/ BootFailed \/ Seeded \/ Forked \/ RoundEnds \/ Decide \/ Raises
  \/ CleanedUp \/ Persist \/ Learn

InBoxes ==
  \E b \in Branches :
    \/ OwnReport(b)
    \/ \E a \in Branches : StrayReport(b, a) \/ AgentExits(b, a)

Next == Threads \/ Coroutine \/ InBoxes \/ Cancel

Spec == Init /\ [][Next]_vars

(* The event loop resumes the search, its threads come back, and so does   *)
(* each launch (EveryLaunchEnds of InBoxAgent): as long as one of them can *)
(* go on, one of them does.  Nobody has to cancel.                         *)
Proceeds ==
  \/ Threads \/ Coroutine
  \/ \E b \in Branches : OwnReport(b) \/ \E a \in Branches : StrayReport(b, a)

LiveSpec == Spec /\ WF_vars(Proceeds)

-----------------------------------------------------------------------------
(* The search has ended and no thread of it runs on. *)
Quiet ==
  /\ pc = "ended"
  /\ \A t \in {bootT, forkT, termT} : t \notin {"queued", "running"}

(* A box is left running only for one of four reasons: its own terminate() *)
(* raised; a second cancellation came before the cleanup had a thread; the *)
(* boot was abandoned; or the fan-out that made it was abandoned or raised. *)
(* In every other case, whatever the launches, the parent's model or the   *)
(* other boxes do, the finally block of branch_search.py reaches it.       *)
OnlyExcusedLeaks ==
  Quiet => \A b \in Boxes : box[b] = "up" =>
    \/ b \in stuck
    \/ termT = "dropped"
    \/ b = Base /\ bootT = "returned"
    \/ b \in angles \ owned /\ forkT \in {"returned", "raised"}

(* Whatever fails or is cancelled, and however the parent decides, a search *)
(* comes to its end: its spending is bounded in time as well.               *)
EverySearchEnds == <>(pc = "ended")

(* Where every trajectory came back under its own branch's id, what is     *)
(* distilled is the winner's whole history: its path starts in a child of  *)
(* the base, each next one ran in a box made from the one before, and the  *)
(* last one is of the last round.                                          *)
LessonIsCheckpointPath ==
  learning # "none" /\ (\A i \in Indices : items[i].id = items[i].box) =>
    /\ learning = "learned"
    /\ Len(lesson) = depth + 1
    /\ from[items[lesson[1]].box] = Base
    /\ \A k \in 2 .. Len(lesson) :
         from[items[lesson[k]].box] = items[lesson[k - 1]].box

(* Not kept (README, section 6).                                           *)
(* "each active run can send its own Stop interrupt so Sailbox cleanup can *)
(* run" (README.md): where no call fails, a search leaves no box running.  *)
StopLeavesNoBox ==
  Quiet => \A b \in Boxes : box[b] # "up"

(* Not kept (README, section 6).                                           *)
(* "deeper exploration adds child nodes to that run rather than replacing  *)
(* earlier runs or earlier levels" (README.md): every trajectory of a tree *)
(* has a file of its own.                                                  *)
ExplorationOnlyAdds ==
  (\E b \in Branches : files[b] # 0) =>
    \A i \in Indices : files[items[i].id] = i
=============================================================================
