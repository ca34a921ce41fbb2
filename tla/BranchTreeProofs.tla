-------------------------- MODULE BranchTreeProofs --------------------------
(***************************************************************************)
(* Proofs about one search, for every width, depth and number of           *)
(* cancellations: types, the only reasons for which a box is left running, *)
(* that what is learned from a tree is one path of checkpoints, and how    *)
(* many steps a search has.                                                *)
(***************************************************************************)
EXTENDS BranchTree, FiniteSetTheorems, TLAPS

\* The branches of a round are the last ones numbered, and each one has
\* reported when the parent decides.
Shape ==
  /\ \E n \in 1 .. Width : n <= next /\ angles = Numbered(next - n, n)
  /\ pc = "decide" => \A b \in angles : answer[b] # None

\* What a round may do follows from its place: no fan-out but at "fork" or
\* after it was abandoned, no boot but at "boot", no cleanup but at the end.
Places ==
  /\ bootT # "idle" => pc \in {"boot", "ended"} /\ owned = {}
  /\ pc = "boot" => owned = {}
  /\ pc \in {"boot", "seed", "launch", "decide"} => forkT = "idle"
  /\ pc = "cleanup" => termT # "idle"
  /\ pc \notin {"cleanup", "ended"} => termT = "idle"
  /\ pc = "ended" /\ termT = "idle" => owned = {}
  /\ forkT # "running" => making = {}
  /\ termT # "raised"
  /\ termT = "returned" => todo = {}

\* The children of a fan-out that nobody took over are not yet owned.
Fresh ==
  /\ owned \subseteq 0 .. next
  /\ making \subseteq angles
  /\ forkT # "idle" \/ pc \in {"boot", "seed"} => angles \cap owned = {}

\* A box that runs is owned, or belongs to the boot or fan-out in progress;
\* and once the search cleans up, an owned one is still to be terminated.
Reached ==
  /\ \A b \in Boxes : box[b] = "up" /\ b \notin owned =>
       \/ b = Base /\ bootT = "returned"
       \/ b \in angles /\ forkT \in {"running", "returned", "raised"}
  /\ pc \in {"cleanup", "ended"} =>
       \A b \in owned : box[b] = "up" => b \in todo \cup stuck

LeakInv == Shape /\ Places /\ Fresh /\ Reached

LEMMA BoxNumbers ==
  /\ Branches \subseteq Boxes /\ Base \in Boxes /\ Base \notin Branches
  /\ None \in Boxes /\ Boxes \ {None} = Branches
BY BranchTreeAssumption DEF Branches, Boxes, Base, None

\* A set of agents replaced in one box leaves sets of agents in all.
LEMMA AliveType ==
  ASSUME NEW f \in [Boxes -> SUBSET Branches], NEW b, NEW S \in SUBSET Branches
  PROVE  [f EXCEPT ![b] = S] \in [Boxes -> SUBSET Branches]
OBVIOUS

\* A round's trajectories are well-typed once every launch has reported.
LEMMA RoundItemsType ==
  ASSUME TypeOK, Shape, \A b \in angles : answer[b] # None
  PROVE  RoundItems \in Seq(Item)
<1>1. PICK n \in 1 .. Width : n <= next /\ angles = next - n + 1 .. next
  BY BranchTreeAssumption DEF Shape, Numbered, TypeOK
<1> USE BranchTreeAssumption DEF TypeOK, Branches, Boxes, None
<1>2. Cardinality(angles) = n
  BY <1>1, FS_Interval
<1>3. ASSUME NEW i \in 1 .. n
      PROVE  [id |-> answer[next - n + i], parent |-> parent, depth |-> depth,
              box |-> next - n + i] \in Item
  <2>1. next - n + i \in angles
    BY <1>1
  <2> QED BY <2>1 DEF Item
<1>4. RoundItems = [i \in 1 .. n |->
         [id |-> answer[next - n + i], parent |-> parent, depth |-> depth,
          box |-> next - n + i]]
  BY <1>2 DEF RoundItems
<1>5. RoundItems \in [1 .. n -> Item]
  BY <1>3, <1>4
<1> QED BY <1>5

LEMMA NumberedType ==
  ASSUME NEW start \in 0 .. MaxBranches, NEW n \in 1 .. Width, start + n <= MaxBranches
  PROVE  /\ start + n \in 0 .. MaxBranches
         /\ Numbered(start, n) = Numbered((start + n) - n, n)
         /\ Numbered(start, n) \subseteq Branches
BY BranchTreeAssumption DEF Numbered, Branches

LEMMA BoxOfType ==
  ASSUME NEW w \in Reported
  PROVE  BoxOf(w) \in angles
BY DEF Reported, BoxOf

\* The steps of a search keep the types of its variables and the shape of a
\* round.
LEMMA TypeStep == TypeOK /\ Shape /\ [Next]_vars => TypeOK' /\ Shape'
<1> SUFFICES ASSUME TypeOK, Shape, [Next]_vars PROVE TypeOK' /\ Shape'
  OBVIOUS
<1> USE DEF TypeOK, ThreadStates, search, forking, ending, outside, memory
<1>1. CASE BootStarts
  BY <1>1 DEF BootStarts, Shape
<1>2. CASE BootEnds
  BY <1>2 DEF BootEnds, Shape
<1>3. CASE ForkStarts
  <2>1. alive[source] \in SUBSET Branches
    OBVIOUS
  <2>2. /\ forkT' \in ThreadStates /\ image' \subseteq Branches
        /\ making' \subseteq Branches /\ forkBad' \in BOOLEAN
    BY <1>3, <2>1 DEF ForkStarts
  <2> QED BY <1>3, <2>2 DEF ForkStarts, Shape
<1>4. CASE ForkEnds
  BY <1>4 DEF ForkEnds, Shape
<1>5. ASSUME NEW b \in Branches, ChildUp(b) PROVE TypeOK' /\ Shape'
  <2>1. alive' \in [Boxes -> SUBSET Branches]
    BY <1>5, AliveType DEF ChildUp
  <2> QED BY <1>5, <2>1, BoxNumbers DEF ChildUp, Shape
<1>6. ASSUME NEW b \in Branches, ChildFails(b) PROVE TypeOK' /\ Shape'
  BY <1>6 DEF ChildFails, Shape
<1>7. CASE TermStarts
  BY <1>7 DEF TermStarts, Shape
<1>8. CASE TermEnds
  BY <1>8 DEF TermEnds, Shape
<1>9. ASSUME NEW b \in Boxes, Terminate(b) PROVE TypeOK' /\ Shape'
  <2>1. alive' \in [Boxes -> SUBSET Branches]
    BY <1>9, AliveType DEF Terminate
  <2> QED BY <1>9, <2>1 DEF Terminate, Shape
<1>10. CASE Booted
  BY <1>10, BoxNumbers DEF Booted, Shape
<1>11. CASE BootFailed
  BY <1>11 DEF BootFailed, Shape
<1>12. CASE Seeded
  BY <1>12 DEF Seeded, Shape
<1>13. CASE Forked
  BY <1>13, BoxNumbers DEF Forked, Shape
<1>14. CASE RoundEnds
  <2>1. items' \in Seq(Item)
    BY <1>14, RoundItemsType DEF RoundEnds
  <2>2. Shape'
    BY <1>14 DEF RoundEnds, Shape
  <2> QED BY <1>14, <2>1, <2>2 DEF RoundEnds, Finally
<1>15. CASE Decide
  <2>1. PICK w \in Reported : \/ \E complete \in BOOLEAN : Stop(w, complete)
                              \/ \E n \in 2 .. Width : Continue(w, n)
    BY <1>15 DEF Decide
  <2>0. w \in Branches
    BY <1>15, BoxNumbers DEF Reported, Decide, Shape
  <2>2. ASSUME NEW complete \in BOOLEAN, Stop(w, complete) PROVE TypeOK' /\ Shape'
    BY <2>2, <2>0 DEF Stop, Finally, Shape
  <2>3. ASSUME NEW n \in 2 .. Width, Continue(w, n) PROVE TypeOK' /\ Shape'
    <3>1. /\ BoxOf(w) \in Boxes
          /\ next + n \in 0 .. MaxBranches
          /\ Numbered(next, n) = Numbered((next + n) - n, n)
          /\ Numbered(next, n) \subseteq Branches
      BY <2>3, BoxOfType, BoxNumbers, NumberedType, BranchTreeAssumption DEF Continue
    <3>2. n \in 1 .. Width /\ n <= next + n
      BY BranchTreeAssumption
    <3>3. Shape'
      BY <2>3, <3>1, <3>2 DEF Continue, Shape
    <3> QED BY <2>3, <2>0, <3>1, <3>3, BoxNumbers DEF Continue
  <2> QED BY <2>1, <2>2, <2>3
<1>16. CASE Raises
  BY <1>16 DEF Raises, Finally, Shape
<1>17. CASE CleanedUp
  BY <1>17 DEF CleanedUp, Shape
<1>18. CASE Persist
  BY <1>18 DEF Persist, Shape
<1>19. CASE Learn
  BY <1>19 DEF Learn, Shape
<1>20. ASSUME NEW b \in Branches, OwnReport(b) PROVE TypeOK' /\ Shape'
  <2>0. alive[b] \cup {b} \in SUBSET Branches
    BY BoxNumbers
  <2>1. alive' = alive \/ alive' = [alive EXCEPT ![b] = alive[b] \cup {b}]
    BY <1>20 DEF OwnReport
  <2>2. alive' \in [Boxes -> SUBSET Branches]
    <3>1. CASE alive' = alive
      BY <3>1
    <3>2. CASE alive' = [alive EXCEPT ![b] = alive[b] \cup {b}]
      BY <3>2, <2>0, AliveType
    <3> QED BY <2>1, <3>1, <3>2
  <2>3. b \in Boxes
    BY BoxNumbers
  <2> QED BY <1>20, <2>2, <2>3 DEF OwnReport, Shape
<1>21. ASSUME NEW b \in Branches, NEW a \in Branches, StrayReport(b, a)
       PROVE  TypeOK' /\ Shape'
  <2>1. alive' \in [Boxes -> SUBSET Branches]
    BY <1>21, AliveType, BoxNumbers DEF StrayReport
  <2> QED BY <1>21, <2>1, BoxNumbers DEF StrayReport, Shape
<1>22. ASSUME NEW b \in Branches, NEW a \in Branches, AgentExits(b, a)
       PROVE  TypeOK' /\ Shape'
  <2>1. alive' \in [Boxes -> SUBSET Branches]
    BY <1>22, AliveType, BoxNumbers DEF AgentExits
  <2> QED BY <1>22, <2>1, BoxNumbers DEF AgentExits, Shape
<1>23. CASE Cancel
  BY <1>23, BranchTreeAssumption DEF Cancel, Finally, Forget, Shape
<1>24. CASE UNCHANGED vars
  BY <1>24 DEF vars, Shape
<1> QED
  BY <1>1, <1>2, <1>3, <1>4, <1>5, <1>6, <1>7, <1>8, <1>9, <1>10, <1>11, <1>12,
     <1>13, <1>14, <1>15, <1>16, <1>17, <1>18, <1>19, <1>20, <1>21, <1>22, <1>23,
     <1>24 DEF Next, Threads, Coroutine, InBoxes

LEMMA TypeInit == Init => TypeOK /\ Shape
<1> SUFFICES ASSUME Init PROVE TypeOK /\ Shape
  OBVIOUS
<1>1. PICK n \in 1 .. Width : angles = Numbered(0, n) /\ next = n
  BY DEF Init
<1>2. next \in 0 .. MaxBranches /\ angles \subseteq Branches
  BY <1>1, NumberedType, BranchTreeAssumption
<1>3. Shape
  BY <1>1, NumberedType, BranchTreeAssumption DEF Shape, Init
<1>4. /\ items \in Seq(Item) /\ winners \in Seq(Branches)
      /\ answer \in [Branches -> Boxes] /\ from \in [Branches -> Boxes]
      /\ alive \in [Boxes -> SUBSET Branches] /\ DOMAIN files = Branches
  BY BoxNumbers DEF Init
<1>5. /\ depth \in Nat /\ cancels \in 0 .. MaxCancels
      /\ box \in [Boxes -> {"none", "up", "gone"}]
  BY BranchTreeAssumption DEF Init
<1> QED BY <1>2, <1>3, <1>4, <1>5, BoxNumbers DEF Init, TypeOK, ThreadStates

\* The search's variables keep their types.
THEOREM TypeCorrect == Spec => []TypeOK
BY TypeInit, TypeStep, PTL DEF Spec

\* A step keeps the bookkeeping of who holds which box.
LEMMA LeakStep ==
  TypeOK /\ LeakInv /\ [Next]_vars => Places' /\ Fresh' /\ Reached'
<1> SUFFICES ASSUME TypeOK, LeakInv, [Next]_vars PROVE Places' /\ Fresh' /\ Reached'
  OBVIOUS
<1>0. TypeOK' /\ Shape'
  BY TypeStep DEF LeakInv
<1> USE DEF LeakInv, Places, Fresh, Reached, search, forking, ending, outside, memory
<1>1. CASE BootStarts
  BY <1>1 DEF BootStarts
<1>2. CASE BootEnds
  BY <1>2, BoxNumbers DEF BootEnds, TypeOK
<1>3. CASE ForkStarts
  BY <1>3 DEF ForkStarts, TypeOK
<1>4. CASE ForkEnds
  BY <1>4 DEF ForkEnds
<1>5. ASSUME NEW b \in Branches, ChildUp(b) PROVE Places' /\ Fresh' /\ Reached'
  <2>1. b \in angles \ owned
    BY <1>5 DEF ChildUp
  <2> QED BY <1>5, <2>1, BoxNumbers DEF ChildUp, TypeOK
<1>6. ASSUME NEW b \in Branches, ChildFails(b) PROVE Places' /\ Fresh' /\ Reached'
  BY <1>6 DEF ChildFails
<1>7. CASE TermStarts
  BY <1>7 DEF TermStarts
<1>8. CASE TermEnds
  BY <1>8 DEF TermEnds
<1>9. ASSUME NEW b \in Boxes, Terminate(b) PROVE Places' /\ Fresh' /\ Reached'
  BY <1>9 DEF Terminate, TypeOK
<1>10. CASE Booted
  <2>1. angles \cap {Base} = {} /\ {Base} \subseteq 0 .. next
    BY BoxNumbers DEF TypeOK, Base
  <2> QED BY <1>10, <2>1 DEF Booted
<1>11. CASE BootFailed
  BY <1>11 DEF BootFailed
<1>12. CASE Seeded
  BY <1>12 DEF Seeded
<1>13. CASE Forked
  <2>1. angles \subseteq 0 .. next
    BY DEF Shape, Numbered, TypeOK
  <2> QED BY <1>13, <2>1 DEF Forked
<1>14. CASE RoundEnds
  BY <1>14 DEF RoundEnds, Finally
<1>15. CASE Decide
  <2>1. PICK w \in Reported : \/ \E complete \in BOOLEAN : Stop(w, complete)
                              \/ \E n \in 2 .. Width : Continue(w, n)
    BY <1>15 DEF Decide
  <2>2. pc = "decide"
    BY <1>15 DEF Decide
  <2>3. ASSUME NEW complete \in BOOLEAN, Stop(w, complete)
        PROVE  Places' /\ Fresh' /\ Reached'
    BY <2>2, <2>3 DEF Stop, Finally
  <2>4. ASSUME NEW n \in 2 .. Width, Continue(w, n)
        PROVE  Places' /\ Fresh' /\ Reached'
    <3>1. /\ owned \subseteq 0 .. next'
          /\ angles' \cap owned = {}
      BY <2>4, BranchTreeAssumption DEF Continue, Numbered, TypeOK
    <3>2. forkT = "idle" /\ termT = "idle" /\ bootT = "idle" /\ making = {}
      BY <2>2
    <3> QED BY <2>2, <2>4, <3>1, <3>2 DEF Continue
  <2> QED BY <2>1, <2>3, <2>4
<1>16. CASE Raises
  BY <1>16 DEF Raises, Finally
<1>17. CASE CleanedUp
  BY <1>17 DEF CleanedUp
<1>18. CASE Persist
  BY <1>18 DEF Persist
<1>19. CASE Learn
  BY <1>19 DEF Learn
<1>20. ASSUME NEW b \in Branches, OwnReport(b) PROVE Places' /\ Fresh' /\ Reached'
  BY <1>20 DEF OwnReport
<1>21. ASSUME NEW b \in Branches, NEW a \in Branches, StrayReport(b, a)
       PROVE  Places' /\ Fresh' /\ Reached'
  BY <1>21 DEF StrayReport
<1>22. ASSUME NEW b \in Branches, NEW a \in Branches, AgentExits(b, a)
       PROVE  Places' /\ Fresh' /\ Reached'
  BY <1>22 DEF AgentExits
<1>23. CASE Cancel
  BY <1>23 DEF Cancel, Finally, Forget
<1>24. CASE UNCHANGED vars
  BY <1>24 DEF vars
<1> QED
  BY <1>1, <1>2, <1>3, <1>4, <1>5, <1>6, <1>7, <1>8, <1>9, <1>10, <1>11, <1>12,
     <1>13, <1>14, <1>15, <1>16, <1>17, <1>18, <1>19, <1>20, <1>21, <1>22, <1>23,
     <1>24 DEF Next, Threads, Coroutine, InBoxes

LEMMA LeakInit == Init => LeakInv
<1> SUFFICES ASSUME Init PROVE LeakInv
  OBVIOUS
<1>1. Shape
  BY TypeInit
<1> QED BY <1>1 DEF Init, LeakInv, Places, Fresh, Reached

\* However a search ends, and whatever its threads do after it, a box is left
\* running only for one of the four reasons.
THEOREM LeakSafe == Spec => []OnlyExcusedLeaks
<1>1. TypeOK /\ LeakInv => OnlyExcusedLeaks
  BY DEF LeakInv, Places, Reached, OnlyExcusedLeaks, Quiet, TypeOK, ThreadStates
<1>2. TypeOK /\ LeakInv /\ [Next]_vars => TypeOK' /\ LeakInv'
  BY TypeStep, LeakStep DEF LeakInv
<1>3. Init => TypeOK /\ LeakInv
  BY TypeInit, LeakInit
<1> QED BY <1>1, <1>2, <1>3, PTL DEF Spec

-----------------------------------------------------------------------------
\* The tree of checkpoints behind the trajectories.

\* Did every trajectory come back under the id of its own branch?
OwnIds == \A i \in Indices : items[i].id = items[i].box

\* Each branch has one trajectory at most, and only when its round is over.
Numbers ==
  /\ \A i \in Indices : items[i].box \in owned
  /\ \A i, j \in Indices : items[i].box = items[j].box => i = j
  /\ pc \in {"launch", "decide"} => angles \subseteq owned
  /\ pc \in {"boot", "seed", "fork", "launch"} => \A i \in Indices : items[i].box \notin angles

\* A round that is launched runs in children of the round's source box.
Checkpointed ==
  /\ forkT = "returned" => ~forkBad
  /\ forkT \in {"running", "returned"} /\ ~forkBad =>
       \A b \in angles \ making : from[b] = source
  /\ pc \in {"launch", "decide"} => \A b \in angles : from[b] = source

\* A trajectory without a parent ran in a child of the base; another in a child
\* of the box of an earlier trajectory, which is its parent.
Rooted(i) ==
  /\ items[i].depth < i
  /\ items[i].parent = None => items[i].depth = 0 /\ from[items[i].box] = Base
  /\ items[i].parent # None =>
       /\ from[items[i].box] = items[i].parent
       /\ \E m \in Indices : /\ m < i /\ items[m].box = items[i].parent
                             /\ items[m].depth + 1 = items[i].depth

\* Where the round stands in that tree.
Placed ==
  /\ depth < MaxDepth /\ \A i \in Indices : items[i].depth <= depth
  /\ parent = None => depth = 0 /\ source = Base
  /\ pc = "decide" => \A b \in angles : \E m \in Indices :
       items[m].box = b /\ items[m].id = answer[b] /\ items[m].depth = depth
  /\ OwnIds =>
       /\ parent # None => /\ source = parent
                           /\ \E m \in Indices : items[m].box = parent
                                                 /\ items[m].depth + 1 = depth
       /\ \A i \in Indices : Rooted(i)

\* A tree that returned has a winner of its last round.
Won ==
  how = "returned" /\ kind = "tree" =>
    /\ pc \in {"cleanup", "ended"} /\ winners # <<>>
    /\ \E m \in Indices : items[m].id = winners[Len(winners)] /\ items[m].depth = depth

\* What is distilled of it, from its files on.
Sound(path) ==
  /\ path \in Seq(Indices) /\ Len(path) = depth + 1
  /\ from[items[path[1]].box] = Base
  /\ \A k \in 2 .. Len(path) : from[items[path[k]].box] = items[path[k - 1]].box

Taught ==
  /\ (\E b \in Branches : files[b] # 0) \/ learning # "none" =>
       pc = "ended" /\ how = "returned" /\ kind = "tree"
  /\ learning # "none" /\ OwnIds => learning = "learned" /\ Sound(lesson)

TreeInv == Numbers /\ Checkpointed /\ Placed /\ Won /\ Taught

-----------------------------------------------------------------------------
\* The way up from a trajectory, where ids are the branches' own.

LEMMA IndexType ==
  ASSUME TypeOK, NEW i \in Indices
  PROVE  i \in Nat \ {0} /\ items[i] \in Item /\ items[i].depth \in Nat
<1>1. i \in 1 .. Len(items) /\ items \in Seq(Item)
  BY DEF TypeOK, Indices
<1>2. items[i] \in Item
  BY <1>1
<1>3. items[i].depth \in Nat
  BY <1>2 DEF Item
<1> QED BY <1>1, <1>2, <1>3

LEMMA OnlyOne ==
  ASSUME TypeOK, Numbers, OwnIds, NEW m \in Indices
  PROVE  /\ With(items[m].box) = {m}
         /\ Max(With(items[m].box)) = m /\ Min(With(items[m].box)) = m
<1>1. With(items[m].box) = {m}
  BY DEF With, OwnIds, Numbers
<1>2. m \in Nat
  BY DEF Indices, TypeOK
<1> QED BY <1>1, <1>2 DEF Max, Min

\* None is nobody's id.
LEMMA NoneHasNone == TypeOK => With(None) = {}
<1> SUFFICES ASSUME TypeOK, NEW i \in Indices PROVE items[i].id # None
  BY DEF With
<1>1. items[i] \in Item
  BY DEF TypeOK, Indices
<1> QED BY <1>1, BoxNumbers DEF Item

LEMMA PathType ==
  ASSUME TypeOK, NEW path \in Paths
  PROVE  /\ path \in Seq(Indices) /\ Len(path) \in Indices /\ Len(path) \in Nat \ {0}
         /\ path \in [1 .. Len(path) -> Indices]
<1>1. PICK n \in Indices : path \in [1 .. n -> Indices]
  BY DEF Paths
<1>2. n \in Nat \ {0}
  BY DEF Indices, TypeOK
<1> QED BY <1>1, <1>2

\* There is a way up from a trajectory, and on every way the depths are those
\* of the rounds.
Levelled(path) == \A k \in 1 .. Len(path) : items[path[k]].depth = k - 1

Grounded(i) ==
  /\ \E path \in Paths : Ascends(path, i)
  /\ \A path \in Paths : Ascends(path, i) => Len(path) = items[i].depth + 1 /\ Levelled(path)

Context == TypeOK /\ Numbers /\ OwnIds /\ \A i \in Indices : Rooted(i)

LEMMA GroundedRoot ==
  ASSUME Context, NEW i \in Indices, items[i].depth = 0
  PROVE  Grounded(i)
<1> USE DEF Context
<1>0. i \in Nat \ {0} /\ 1 \in Indices
  BY IndexType DEF TypeOK, Indices
<1>1. items[i].parent = None
  <2>1. \A m \in Indices : items[m].depth + 1 # 0
    BY IndexType
  <2> QED BY <2>1 DEF Rooted
<1>2. <<i>> \in Paths /\ Ascends(<<i>>, i)
  <2>1. <<i>> \in [1 .. 1 -> Indices]
    OBVIOUS
  <2> QED BY <1>0, <1>1, <2>1 DEF Paths, Ascends
<1>3. ASSUME NEW path \in Paths, Ascends(path, i)
      PROVE  Len(path) = items[i].depth + 1 /\ Levelled(path)
  <2>1. Len(path) \in Nat \ {0}
    BY PathType
  <2>2. Len(path) = 1
    <3> SUFFICES ASSUME Len(path) # 1 PROVE FALSE
      OBVIOUS
    <3>1. PICK n \in Nat \ {0} : n = Len(path)
      BY <2>1
    <3>2. n \in 2 .. n
      BY <3>1
    <3> QED BY <1>1, <1>3, <3>1, <3>2, NoneHasNone DEF Ascends
  <2> QED BY <1>3, <2>2 DEF Ascends, Levelled
<1> QED BY <1>2, <1>3 DEF Grounded

\* One round further from the root.
LEMMA GroundedStep ==
  ASSUME Context, NEW d \in Nat,
         \A m \in Indices : items[m].depth = d => Grounded(m),
         NEW i \in Indices, items[i].depth = d + 1
  PROVE  Grounded(i)
<1> USE DEF Context
<1>0. i \in Nat \ {0} /\ \A m \in Indices : m \in Nat \ {0} /\ items[m].depth \in Nat
  BY IndexType
<1>1. items[i].parent # None
  BY DEF Rooted
<1>2. PICK m \in Indices : /\ m < i /\ items[m].box = items[i].parent
                           /\ items[m].depth = d
  BY <1>0, <1>1 DEF Rooted
<1>3. With(items[i].parent) = {m} /\ Max(With(items[i].parent)) = m
  BY <1>2, OnlyOne
<1>4. Grounded(m)
  BY <1>2
<1>5. \E path \in Paths : Ascends(path, i)
  <2>1. PICK up \in Paths : Ascends(up, m)
    BY <1>4 DEF Grounded
  <2> DEFINE n == Len(up)
             path == [k \in 1 .. n + 1 |-> IF k = n + 1 THEN i ELSE up[k]]
  <2>2. n = d + 1 /\ Levelled(up) /\ up \in [1 .. n -> Indices] /\ n \in Nat \ {0}
    BY <1>2, <1>4, <2>1, PathType DEF Grounded
  <2>3. path \in [1 .. n + 1 -> Indices] /\ n + 1 \in Indices
    <3>1. n + 1 <= i
      BY <1>0, <2>2 DEF Rooted
    <3>2. n + 1 \in Indices
      BY <1>0, <2>2, <3>1 DEF Indices, TypeOK
    <3> QED BY <2>2, <3>2
  <2>4. path \in Paths /\ Len(path) = n + 1
    BY <2>2, <2>3 DEF Paths
  <2>5. path[n + 1] = i /\ \A k \in 1 .. n : path[k] = up[k]
    BY <2>2
  <2> HIDE DEF path, n
  <2>6. up[n] = m /\ items[up[1]].parent = None
    BY <2>1 DEF Ascends, n
  <2>7. \A k \in 1 .. n + 1 : items[path[k]].depth = k - 1 /\ path[k] \in Indices
    BY <2>2, <2>3, <2>5 DEF Levelled, n
  <2>8. \A k, l \in 1 .. n + 1 : items[path[k]].id = items[path[l]].id => k = l
    BY <2>2, <2>7 DEF OwnIds, Numbers
  <2>9. \A k \in 2 .. n + 1 : /\ With(items[path[k]].parent) # {}
                              /\ path[k - 1] = Max(With(items[path[k]].parent))
    <3>1. ASSUME NEW k \in 2 .. n
          PROVE  /\ With(items[path[k]].parent) # {}
                 /\ path[k - 1] = Max(With(items[path[k]].parent))
      <4>1. k \in 1 .. n /\ k - 1 \in 1 .. n
        BY <2>2
      <4> QED BY <2>1, <2>5, <4>1 DEF Ascends, n
    <3>2. /\ With(items[path[n + 1]].parent) # {}
          /\ path[n] = Max(With(items[path[n + 1]].parent))
      <4>1. n \in 1 .. n
        BY <2>2 DEF n
      <4> QED BY <1>3, <2>5, <2>6, <4>1
    <3>3. \A k \in 2 .. n + 1 : k \in 2 .. n \/ (k = n + 1 /\ k - 1 = n)
      BY <2>2 DEF n
    <3> QED BY <3>1, <3>2, <3>3
  <2>10. items[path[1]].parent = None
    BY <2>2, <2>5, <2>6
  <2> QED BY <2>4, <2>5, <2>8, <2>9, <2>10 DEF Ascends
<1>6. ASSUME NEW path \in Paths, Ascends(path, i)
      PROVE  Len(path) = items[i].depth + 1 /\ Levelled(path)
  <2> DEFINE n == Len(path)
             up == [k \in 1 .. n - 1 |-> path[k]]
  <2>1. n \in Nat \ {0} /\ n \in Indices /\ path \in [1 .. n -> Indices]
    BY PathType
  <2>2. path[n] = i /\ items[path[1]].parent = None
    BY <1>6 DEF Ascends
  <2>3. n > 1
    BY <1>1, <2>1, <2>2
  <2>4. path[n - 1] = m
    <3>1. n \in 2 .. n
      BY <2>1, <2>3
    <3> QED BY <1>3, <1>6, <2>2, <3>1 DEF Ascends
  <2>5. up \in [1 .. n - 1 -> Indices] /\ n - 1 \in Indices
    BY <2>1, <2>3 DEF Indices, TypeOK
  <2>6. up \in Paths /\ Len(up) = n - 1
    BY <2>1, <2>3, <2>5 DEF Paths
  <2>7. \A k \in 1 .. n - 1 : up[k] = path[k]
    OBVIOUS
  <2> HIDE DEF up, n
  <2>8. Ascends(up, m)
    <3>1. up[n - 1] = m /\ items[up[1]].parent = None
      BY <2>1, <2>2, <2>3, <2>4, <2>7
    <3>2. ASSUME NEW k \in 2 .. n - 1
          PROVE  /\ With(items[up[k]].parent) # {}
                 /\ up[k - 1] = Max(With(items[up[k]].parent))
      <4>1. k \in 2 .. n /\ k \in 1 .. n - 1 /\ k - 1 \in 1 .. n - 1
        BY <2>1
      <4> QED BY <1>6, <2>7, <4>1 DEF Ascends, n
    <3>3. ASSUME NEW k \in 1 .. n - 1, NEW l \in 1 .. n - 1,
                 items[up[k]].id = items[up[l]].id
          PROVE  k = l
      <4>1. k \in 1 .. n /\ l \in 1 .. n
        BY <2>1
      <4> QED BY <1>6, <2>7, <3>3, <4>1 DEF Ascends, n
    <3> QED BY <2>6, <3>1, <3>2, <3>3 DEF Ascends
  <2>9. n - 1 = d + 1 /\ \A k \in 1 .. n - 1 : items[path[k]].depth = k - 1
    BY <1>2, <1>4, <2>6, <2>7, <2>8 DEF Grounded, Levelled
  <2>10. \A k \in 1 .. n : k = n \/ k \in 1 .. n - 1
    BY <2>1
  <2> QED BY <2>1, <2>2, <2>9, <2>10 DEF Levelled
<1> QED BY <1>5, <1>6 DEF Grounded

\* A tree has at most four rounds.
LEMMA AllGrounded ==
  ASSUME Context, Placed
  PROVE  \A i \in Indices : Grounded(i)
<1>1. \A i \in Indices : items[i].depth \in {0, 1, 2, 3}
  <2> SUFFICES ASSUME NEW i \in Indices PROVE items[i].depth \in {0, 1, 2, 3}
    OBVIOUS
  <2>1. items[i].depth \in Nat /\ depth \in Nat /\ items[i].depth < MaxDepth
    BY IndexType, BranchTreeAssumption DEF Context, TypeOK, Placed
  <2> QED BY <2>1, BranchTreeAssumption
<1>2. \A i \in Indices : items[i].depth = 0 => Grounded(i)
  BY GroundedRoot
<1>3. \A i \in Indices : items[i].depth = 1 => Grounded(i)
  BY <1>2, GroundedStep, 0 + 1 = 1
<1>4. \A i \in Indices : items[i].depth = 2 => Grounded(i)
  BY <1>3, GroundedStep, 1 + 1 = 2
<1>5. \A i \in Indices : items[i].depth = 3 => Grounded(i)
  BY <1>4, GroundedStep, 2 + 1 = 3
<1> QED BY <1>1, <1>2, <1>3, <1>4, <1>5

-----------------------------------------------------------------------------
\* The steps of a search keep that tree.

LEMMA PlacedKept ==
  ASSUME TypeOK, Placed, UNCHANGED <<items, depth, parent, source>>,
         \A i \in Indices : from'[items[i].box] = from[items[i].box],
         pc' = "decide" => pc = "decide" /\ UNCHANGED <<angles, answer>>
  PROVE  Placed'
<1>1. Indices' = Indices /\ (OwnIds' <=> OwnIds)
  BY DEF Indices, OwnIds
<1>2. \A i \in Indices : Rooted(i) => Rooted(i)'
  BY <1>1 DEF Rooted
<1> QED BY <1>1, <1>2 DEF Placed

LEMMA WonNotYet ==
  ASSUME Won, pc \notin {"cleanup", "ended"}, kind' = kind,
         how' = how \/ how' # "returned" \/ kind = "search"
  PROVE  Won'
BY DEF Won

LEMMA WonKept ==
  ASSUME Won, UNCHANGED <<kind, items, depth, winners>>, how' = how \/ how' # "returned",
         pc' \in {"cleanup", "ended"} \/ pc' = pc
  PROVE  Won'
BY DEF Won, Indices

LEMMA TaughtNotYet ==
  ASSUME Taught, pc # "ended", UNCHANGED memory
  PROVE  Taught'
BY DEF Taught, memory

LEMMA TaughtKept ==
  ASSUME TypeOK, Taught, UNCHANGED memory, UNCHANGED <<kind, pc, how, depth, items>>,
         \A i \in Indices : from'[items[i].box] = from[items[i].box]
  PROVE  Taught'
<1>1. Indices' = Indices /\ (OwnIds' <=> OwnIds)
  BY DEF Indices, OwnIds
<1>2. ASSUME Sound(lesson) PROVE Sound(lesson)'
  <2>1. lesson \in Seq(Indices) /\ Len(lesson) = depth + 1 /\ depth \in Nat
    BY <1>2 DEF Sound, TypeOK
  <2>2. \A k \in 1 .. Len(lesson) : lesson[k] \in Indices
    BY <2>1
  <2>3. 1 \in 1 .. Len(lesson) /\ \A k \in 2 .. Len(lesson) : k \in 1 .. Len(lesson)
    BY <2>1
  <2> QED BY <1>1, <1>2, <2>2, <2>3 DEF Sound, memory
<1> QED BY <1>1, <1>2 DEF Taught, memory

\* What a round adds: one trajectory of each of its branches.
LEMMA RoundAdded ==
  ASSUME TypeOK, Shape, \A b \in angles : answer[b] # None, items' = items \o RoundItems
  PROVE  /\ \A i \in Indices : i \in Indices' /\ items'[i] = items[i]
         /\ \A i \in Indices' \ Indices :
              /\ items'[i].box \in angles /\ items'[i].id = answer[items'[i].box]
              /\ items'[i].parent = parent /\ items'[i].depth = depth
              /\ i \in Nat /\ \A m \in Indices : m < i
         /\ \A i, j \in Indices' \ Indices : items'[i].box = items'[j].box => i = j
         /\ \A b \in angles : \E i \in Indices' \ Indices : items'[i].box = b
<1>1. PICK n \in 1 .. Width : n <= next /\ angles = next - n + 1 .. next
  BY BranchTreeAssumption DEF Shape, Numbered, TypeOK
<1>2. /\ next \in Nat /\ n \in Nat /\ items \in Seq(Item)
      /\ \A i \in 1 .. n : next - n + i \in angles
  BY <1>1, BranchTreeAssumption DEF TypeOK
<1>3. RoundItems = [i \in 1 .. n |-> [id |-> answer[next - n + i], parent |-> parent,
                                      depth |-> depth, box |-> next - n + i]]
  <2>1. Cardinality(angles) = n
    BY <1>1, <1>2, FS_Interval
  <2> QED BY <2>1 DEF RoundItems
<1>4. PICK R \in Seq(Item) :
        /\ items' = items \o R /\ Len(R) = n
        /\ \A i \in 1 .. n : /\ R[i].id = answer[next - n + i] /\ R[i].parent = parent
                             /\ R[i].depth = depth /\ R[i].box = next - n + i
  <2>1. RoundItems \in Seq(Item)
    BY RoundItemsType
  <2>2. Len(RoundItems) = n
    BY <1>2, <1>3
  <2>3. \A i \in 1 .. n :
          /\ RoundItems[i].id = answer[next - n + i] /\ RoundItems[i].parent = parent
          /\ RoundItems[i].depth = depth /\ RoundItems[i].box = next - n + i
    BY <1>3
  <2> QED BY <2>1, <2>2, <2>3
<1>5. PICK L \in Nat : L = Len(items)
  BY <1>2
<1>6. /\ Indices = 1 .. L /\ Indices' = 1 .. L + n
      /\ \A i \in 1 .. L : items'[i] = items[i]
      /\ \A i \in L + 1 .. L + n : i - L \in 1 .. n /\ items'[i] = R[i - L]
  BY <1>2, <1>4, <1>5 DEF Indices
<1>7. \A i \in Indices' \ Indices : i \in L + 1 .. L + n
  BY <1>2, <1>6
<1>8. \A i \in Indices : i \in Indices' /\ items'[i] = items[i]
  BY <1>2, <1>5, <1>6
<1>9. ASSUME NEW i \in Indices' \ Indices
      PROVE  /\ items'[i].box = next - n + (i - L) /\ items'[i].box \in angles
             /\ items'[i].id = answer[items'[i].box]
             /\ items'[i].parent = parent /\ items'[i].depth = depth
             /\ i \in Nat /\ \A m \in Indices : m < i
  <2>1. i \in L + 1 .. L + n /\ i - L \in 1 .. n /\ items'[i] = R[i - L]
    BY <1>6, <1>7
  <2>2. i \in Nat /\ \A m \in Indices : m < i
    BY <1>2, <1>5, <1>6, <2>1
  <2>3. next - n + (i - L) \in angles
    BY <1>2, <2>1
  <2> QED BY <1>4, <2>1, <2>2, <2>3
<1>10. ASSUME NEW i \in Indices' \ Indices, NEW j \in Indices' \ Indices,
              items'[i].box = items'[j].box
       PROVE  i = j
  <2>1. next - n + (i - L) = next - n + (j - L) /\ i \in Nat /\ j \in Nat
    BY <1>9, <1>10
  <2> QED BY <1>2, <2>1
<1>11. ASSUME NEW b \in angles PROVE \E i \in Indices' \ Indices : items'[i].box = b
  <2>1. PICK i \in L + 1 .. L + n : next - n + (i - L) = b
    <3>1. L + (b - (next - n)) \in L + 1 .. L + n
      BY <1>1, <1>2
    <3>2. next - n + ((L + (b - (next - n))) - L) = b
      BY <1>1, <1>2
    <3> QED BY <3>1, <3>2
  <2>2. i \in Indices' \ Indices
    BY <1>2, <1>6
  <2> QED BY <1>9, <2>1, <2>2
<1> QED BY <1>8, <1>9, <1>10, <1>11

\* What is learned of a tree that returned is the way up from its winner.
LEMMA LearnSound ==
  ASSUME TypeOK, TreeInv, OwnIds, how = "returned", kind = "tree"
  PROVE  /\ Climb(Min(With(winners[Len(winners)]))) # <<>>
         /\ Sound(Climb(Min(With(winners[Len(winners)]))))
<1>1. PICK m \in Indices : items[m].id = winners[Len(winners)] /\ items[m].depth = depth
  BY DEF TreeInv, Won
<1>2. Min(With(winners[Len(winners)])) = m
  BY <1>1, OnlyOne DEF TreeInv, OwnIds
<1>3. Context
  BY DEF Context, TreeInv, Placed
<1>4. Grounded(m)
  BY <1>3, AllGrounded DEF TreeInv
<1>5. PICK path \in Paths : path = Climb(m) /\ Ascends(path, m)
  BY <1>4 DEF Grounded, Climb
<1>6. path \in Seq(Indices) /\ Len(path) \in Nat \ {0}
  BY PathType
<1>7. \A k \in 1 .. Len(path) : path[k] \in Indices
  BY <1>6
<1>8. Len(path) = depth + 1
  BY <1>1, <1>4, <1>5 DEF Grounded
<1>9. from[items[path[1]].box] = Base
  <2>1. path[1] \in Indices
    BY <1>6, <1>7
  <2> QED BY <1>3, <1>5, <2>1 DEF Context, Rooted, Ascends
<1>10. ASSUME NEW k \in 2 .. Len(path)
       PROVE  from[items[path[k]].box] = items[path[k - 1]].box
  <2> DEFINE i == path[k]
  <2>1. i \in Indices
    BY <1>6, <1>7
  <2>2. With(items[i].parent) # {} /\ path[k - 1] = Max(With(items[i].parent))
    BY <1>5 DEF Ascends
  <2> HIDE DEF i
  <2>3. items[i].parent # None
    BY <2>2, NoneHasNone
  <2>4. from[items[i].box] = items[i].parent
        /\ \E p \in Indices : items[p].box = items[i].parent
    BY <1>3, <2>1, <2>3 DEF Context, Rooted
  <2>5. PICK p \in Indices : items[p].box = items[i].parent
    BY <2>4
  <2>6. path[k - 1] = p
    BY <2>2, <2>5, <1>3, OnlyOne DEF Context
  <2> QED BY <2>4, <2>5, <2>6 DEF i
<1>11. path # <<>>
  BY <1>6
<1> QED BY <1>2, <1>5, <1>6, <1>8, <1>9, <1>10, <1>11 DEF Sound

\* Nothing that the tree is about: the boxes, agents and threads of the end.
LEMMA TreeFramed ==
  ASSUME TypeOK, TreeInv, UNCHANGED search, UNCHANGED memory, UNCHANGED <<forking, from>>
  PROVE  TreeInv'
<1> USE DEF search, forking
<1>1. Numbers' /\ Checkpointed'
  BY DEF TreeInv, Numbers, Checkpointed, Indices
<1>2. Placed' /\ Won' /\ Taught'
  BY PlacedKept, WonKept, TaughtKept DEF TreeInv
<1> QED BY <1>1, <1>2 DEF TreeInv

\* The fan-out: a child's checkpoint is of the source box, and its box is not
\* yet that of a trajectory.
LEMMA TreeForked ==
  ASSUME TypeOK, LeakInv, TreeInv,
         \/ ForkStarts \/ ForkEnds
         \/ \E b \in Branches : ChildUp(b) \/ ChildFails(b)
  PROVE  TreeInv'
<1> USE DEF search, forking, outside, memory
<1>1. UNCHANGED search /\ UNCHANGED memory
  BY DEF ForkStarts, ForkEnds, ChildUp, ChildFails
<1>2. Numbers'
  BY <1>1 DEF TreeInv, Numbers, Indices
<1>3. \A i \in Indices : from'[items[i].box] = from[items[i].box]
  <2>1. CASE UNCHANGED from
    BY <2>1
  <2>2. ASSUME NEW b \in Branches, ChildUp(b)
        PROVE  \A i \in Indices : from'[items[i].box] = from[items[i].box]
    <3>1. b \notin owned /\ from' = [from EXCEPT ![b] = source]
      BY <2>2 DEF ChildUp, LeakInv, Fresh
    <3>2. \A i \in Indices : items[i].box # b
      BY <3>1 DEF TreeInv, Numbers
    <3> QED BY <3>1, <3>2 DEF TypeOK
  <2> QED BY <2>1, <2>2 DEF ForkStarts, ForkEnds, ChildFails
<1>4. Placed' /\ Won' /\ Taught'
  BY <1>1, <1>3, PlacedKept, WonKept, TaughtKept DEF TreeInv
<1>5. Checkpointed'
  <2> USE DEF TreeInv, Checkpointed
  <2>1. CASE ForkStarts
    BY <2>1 DEF ForkStarts, LeakInv, Places
  <2>2. CASE ForkEnds
    BY <2>2 DEF ForkEnds, LeakInv, Places
  <2>3. ASSUME NEW b \in Branches, ChildUp(b) PROVE Checkpointed'
    <3>1. b \in angles /\ pc \notin {"launch", "decide"}
      BY <2>3 DEF ChildUp, LeakInv, Fresh, Places
    <3> QED BY <2>3, <3>1 DEF ChildUp, TypeOK
  <2>4. ASSUME NEW b \in Branches, ChildFails(b) PROVE Checkpointed'
    <3>1. pc \notin {"launch", "decide"}
      BY <2>4 DEF ChildFails, LeakInv, Places
    <3> QED BY <2>4, <3>1 DEF ChildFails
  <2> QED BY <2>1, <2>2, <2>3, <2>4
<1> QED BY <1>2, <1>4, <1>5 DEF TreeInv

\* The end of a round: its trajectories are children of the round's source.
LEMMA TreeGrows ==
  ASSUME TypeOK, LeakInv, TreeInv, RoundEnds
  PROVE  TreeInv'
<1> USE DEF search, forking, outside, memory, ending
<1>1. /\ pc = "launch" /\ \A b \in angles : answer[b] # None
      /\ items' = items \o RoundItems
      /\ UNCHANGED <<kind, depth, angles, next, source, parent, owned, winners, answer>>
      /\ UNCHANGED <<forkT, image, making, forkBad, from>> /\ UNCHANGED memory
      /\ pc' \in {"decide", "cleanup"}
      /\ how' = how \/ kind = "search"
  BY DEF RoundEnds, Finally
<1>2. /\ \A i \in Indices : i \in Indices' /\ items'[i] = items[i]
      /\ \A i \in Indices' \ Indices :
           /\ items'[i].box \in angles /\ items'[i].id = answer[items'[i].box]
           /\ items'[i].parent = parent /\ items'[i].depth = depth
           /\ i \in Nat /\ \A m \in Indices : m < i
      /\ \A i, j \in Indices' \ Indices : items'[i].box = items'[j].box => i = j
      /\ \A b \in angles : \E i \in Indices' \ Indices : items'[i].box = b
  BY <1>1, RoundAdded DEF LeakInv
<1>3. Numbers'
  <2> USE DEF TreeInv, Numbers
  <2>1. \A i \in Indices' : items'[i].box \in owned
    BY <1>1, <1>2
  <2>2. ASSUME NEW i \in Indices, NEW j \in Indices' \ Indices PROVE items'[i].box # items'[j].box
    <3>1. items'[j].box \in angles
      BY <1>2, <2>2
    <3>2. items'[i] = items[i] /\ items[i].box \notin angles
      BY <1>1, <1>2, <2>2
    <3> QED BY <3>1, <3>2
  <2>3. ASSUME NEW i \in Indices', NEW j \in Indices', items'[i].box = items'[j].box
        PROVE  i = j
    BY <1>2, <2>2, <2>3
  <2> QED BY <1>1, <2>1, <2>3
<1>4. Checkpointed'
  BY <1>1 DEF TreeInv, Checkpointed
<1>5. Won' /\ Taught'
  BY <1>1, WonNotYet, TaughtNotYet DEF TreeInv
<1>6. OwnIds' => OwnIds
  BY <1>2 DEF OwnIds
<1>7. ASSUME OwnIds', NEW i \in Indices' PROVE Rooted(i)'
  <2>1. CASE i \in Indices
    <3>1. Rooted(i)
      BY <1>6, <1>7, <2>1 DEF TreeInv, Placed
    <3> QED BY <1>1, <1>2, <2>1, <3>1 DEF Rooted
  <2>2. CASE i \in Indices' \ Indices
    <3>1. /\ from[items'[i].box] = source /\ items'[i].parent = parent
          /\ items'[i].depth = depth /\ i \in Nat /\ \A m \in Indices : m < i
      BY <1>1, <1>2, <2>2 DEF TreeInv, Checkpointed
    <3>2. CASE parent = None
      <4>1. i # 0 /\ depth = 0 /\ source = Base
        BY <3>2 DEF TreeInv, Placed, Indices
      <4> QED BY <1>1, <3>1, <3>2, <4>1 DEF Rooted
    <3>3. CASE parent # None
      <4>1. PICK m \in Indices : items[m].box = parent /\ items[m].depth + 1 = depth
        BY <1>6, <1>7, <3>3 DEF TreeInv, Placed
      <4>2. source = parent /\ Rooted(m)
        BY <1>6, <1>7, <3>3 DEF TreeInv, Placed
      <4>3. items[m].depth < m /\ m < i /\ m \in Nat /\ items[m].depth \in Nat
        BY <3>1, <4>2, IndexType DEF Rooted
      <4>4. depth < i
        BY <3>1, <4>1, <4>3
      <4> QED BY <1>1, <1>2, <3>1, <3>3, <4>1, <4>2, <4>3, <4>4 DEF Rooted
    <3> QED BY <3>2, <3>3
  <2> QED BY <1>7, <2>1, <2>2
<1>8. \A i \in Indices' : items'[i].depth <= depth
  BY <1>2 DEF TreeInv, Placed, TypeOK
<1>9. \A b \in angles : \E m \in Indices' :
        items'[m].box = b /\ items'[m].id = answer[b] /\ items'[m].depth = depth
  BY <1>2
<1>10. ASSUME OwnIds', parent # None
       PROVE  source = parent /\ \E m \in Indices' : items'[m].box = parent
                                                    /\ items'[m].depth + 1 = depth
  BY <1>2, <1>6, <1>10 DEF TreeInv, Placed
<1>11. Placed'
  BY <1>1, <1>7, <1>8, <1>9, <1>10 DEF TreeInv, Placed
<1> QED BY <1>3, <1>4, <1>5, <1>11 DEF TreeInv

\* The parent decides: it continues in the box of the trajectory it chose.
LEMMA TreeDecided ==
  ASSUME TypeOK, LeakInv, TreeInv, Decide
  PROVE  TreeInv'
<1> USE DEF search, forking, outside, memory, ending
<1>1. PICK w \in Reported : \/ \E complete \in BOOLEAN : Stop(w, complete)
                            \/ \E n \in 2 .. Width : Continue(w, n)
  BY DEF Decide
<1>2. /\ BoxOf(w) \in angles /\ answer[BoxOf(w)] = w /\ pc = "decide" /\ w # None
      /\ \E m \in Indices : /\ items[m].box = BoxOf(w) /\ items[m].id = w
                            /\ items[m].depth = depth
  <2>1. BoxOf(w) \in angles /\ answer[BoxOf(w)] = w /\ pc = "decide"
    BY DEF Reported, BoxOf, Decide
  <2> QED BY <2>1 DEF TreeInv, Placed, LeakInv, Shape
<1>3. PICK m \in Indices : /\ items[m].box = BoxOf(w) /\ items[m].id = w
                           /\ items[m].depth = depth
  BY <1>2
<1>4. winners \in Seq(Branches) /\ w \in Branches
  BY <1>2, BoxNumbers DEF TypeOK, Reported
<1>5. forkT = "idle" /\ owned \subseteq 0 .. next
  BY <1>2 DEF LeakInv, Places, Fresh
<1>6. ASSUME NEW complete \in BOOLEAN, Stop(w, complete) PROVE TreeInv'
  <2>1. /\ UNCHANGED <<kind, depth, angles, source, parent, owned, items, answer>>
        /\ UNCHANGED <<forkT, making, forkBad, from>> /\ UNCHANGED memory
        /\ pc' = "cleanup" /\ how' = "returned" /\ winners' = Append(winners, w)
    BY <1>6 DEF Stop, Finally
  <2>2. winners' # <<>> /\ winners'[Len(winners')] = w
    BY <1>4, <2>1
  <2>3. Won'
    BY <1>3, <2>1, <2>2 DEF Won, Indices
  <2>4. Numbers' /\ Checkpointed'
    BY <1>5, <2>1 DEF TreeInv, Numbers, Checkpointed, Indices
  <2>5. Placed' /\ Taught'
    BY <1>2, <2>1, PlacedKept, TaughtNotYet DEF TreeInv
  <2> QED BY <2>3, <2>4, <2>5 DEF TreeInv
<1>7. ASSUME NEW n \in 2 .. Width, Continue(w, n) PROVE TreeInv'
  <2>1. /\ UNCHANGED <<kind, how, owned, items, making, forkBad, from>> /\ UNCHANGED memory
        /\ pc' = "fork" /\ forkT' = "queued"
        /\ depth' = depth + 1 /\ depth + 1 < MaxDepth
        /\ source' = BoxOf(w) /\ parent' = w /\ angles' = Numbered(next, n)
    BY <1>7 DEF Continue, CanContinue
  <2>2. angles' \cap owned = {}
    BY <1>5, <2>1, BranchTreeAssumption DEF Numbered, TypeOK
  <2>3. Numbers' /\ Checkpointed'
    BY <2>1, <2>2 DEF TreeInv, Numbers, Checkpointed, Indices
  <2>4. Won' /\ Taught'
    BY <1>2, <2>1, WonNotYet, TaughtNotYet DEF TreeInv
  <2>5. Placed'
    <3>1. Indices' = Indices /\ (OwnIds' <=> OwnIds) /\ \A i \in Indices : Rooted(i)' <=> Rooted(i)
      BY <2>1 DEF Indices, OwnIds, Rooted
    <3>2. depth \in Nat /\ \A i \in Indices : items[i].depth \in Nat
      BY IndexType DEF TypeOK
    <3>3. \A i \in Indices : items[i].depth <= depth + 1
      BY <3>2 DEF TreeInv, Placed
    <3>4. OwnIds => w = BoxOf(w)
      BY <1>3 DEF OwnIds
    <3> QED BY <1>2, <1>3, <2>1, <3>1, <3>3, <3>4 DEF TreeInv, Placed
  <2> QED BY <2>3, <2>4, <2>5 DEF TreeInv
<1> QED BY <1>1, <1>6, <1>7

\* The rest of the coroutine, and its cancellation, move it from await to await.
LEMMA TreeMoves ==
  ASSUME TypeOK, LeakInv, TreeInv,
         \/ Booted \/ BootFailed \/ Seeded \/ Forked \/ Raises \/ CleanedUp \/ Cancel
  PROVE  TreeInv'
<1> USE DEF search, forking, outside, memory, ending
<1>1. /\ UNCHANGED <<kind, depth, angles, source, parent, items, winners, answer>>
      /\ UNCHANGED <<making, forkBad, from>> /\ UNCHANGED memory
      /\ pc # "ended" /\ pc' # "decide"
      /\ how' = how \/ how' # "returned"
      /\ pc' \in {"cleanup", "ended"} \/ pc \notin {"cleanup", "ended"}
  BY DEF Booted, BootFailed, Seeded, Forked, Raises, CleanedUp, Cancel, Finally
<1>2. Placed' /\ Won' /\ Taught'
  <2>1. Placed' /\ Taught'
    BY <1>1, PlacedKept, TaughtNotYet DEF TreeInv
  <2>2. Won'
    BY <1>1, WonKept, WonNotYet DEF TreeInv
  <2> QED BY <2>1, <2>2
<1>3. Numbers' /\ Checkpointed'
  <2> USE DEF TreeInv, Numbers, Checkpointed, Indices, LeakInv, Places, Fresh
  <2>1. CASE Booted
    BY <1>1, <2>1 DEF Booted
  <2>2. CASE BootFailed
    BY <1>1, <2>2 DEF BootFailed
  <2>3. CASE Seeded
    BY <1>1, <2>3 DEF Seeded
  <2>4. CASE Forked
    BY <1>1, <2>4 DEF Forked
  <2>5. CASE Raises
    BY <1>1, <2>5 DEF Raises, Finally
  <2>6. CASE CleanedUp
    BY <1>1, <2>6 DEF CleanedUp
  <2>7. CASE Cancel
    BY <1>1, <2>7 DEF Cancel, Finally, Forget
  <2> QED BY <2>1, <2>2, <2>3, <2>4, <2>5, <2>6, <2>7
<1> QED BY <1>2, <1>3 DEF TreeInv

\* What is reported, and what is made of the finished tree.
LEMMA TreeTold ==
  ASSUME TypeOK, TreeInv,
         \/ Persist \/ Learn
         \/ \E b \in Branches : OwnReport(b) \/ \E a \in Branches : StrayReport(b, a)
  PROVE  TreeInv'
<1> USE DEF search, forking, outside, memory, ending
<1>1. /\ UNCHANGED <<kind, pc, how, depth, angles, source, parent, owned, items, winners>>
      /\ UNCHANGED <<forkT, making, forkBad, from>>
      /\ pc # "decide"
  BY DEF Persist, Learn, OwnReport, StrayReport, TreeInv, Taught
<1>2. Numbers' /\ Checkpointed'
  BY <1>1 DEF TreeInv, Numbers, Checkpointed, Indices
<1>3. Placed' /\ Won'
  BY <1>1, PlacedKept, WonKept DEF TreeInv
<1>4. Taught'
  <2>1. CASE UNCHANGED memory
    BY <1>1, <2>1, TaughtKept DEF TreeInv
  <2>2. CASE Persist
    <3>1. learning # "none" /\ OwnIds => learning = "learned" /\ Sound(lesson)
      BY DEF TreeInv, Taught
    <3>2. Indices' = Indices /\ OwnIds' = OwnIds /\ (Sound(lesson) => Sound(lesson)')
      BY <1>1, <2>2 DEF Persist, Indices, OwnIds, Sound
    <3> QED BY <1>1, <2>2, <3>1, <3>2 DEF Persist, TreeInv, Taught
  <2>3. CASE Learn
    <3> DEFINE path == Climb(Min(With(winners[Len(winners)])))
    <3>1. lesson' = path /\ learning' = IF path = <<>> THEN "raised" ELSE "learned"
      BY <2>3 DEF Learn
    <3>2. pc = "ended" /\ how = "returned" /\ kind = "tree"
      BY <2>3 DEF Learn, TreeInv, Taught
    <3>3. OwnIds => path # <<>> /\ Sound(path)
      BY <3>2, LearnSound
    <3> HIDE DEF path
    <3>4. Indices' = Indices /\ (OwnIds' <=> OwnIds)
      BY <1>1 DEF Indices, OwnIds
    <3>5. Sound(path) => Sound(lesson)'
      BY <1>1, <3>1, <3>4 DEF Sound
    <3> QED BY <1>1, <3>1, <3>2, <3>3, <3>4, <3>5 DEF Taught
  <2> QED BY <2>1, <2>2, <2>3 DEF OwnReport, StrayReport
<1> QED BY <1>2, <1>3, <1>4 DEF TreeInv

LEMMA TreeStep == TypeOK /\ LeakInv /\ TreeInv /\ [Next]_vars => TreeInv'
<1> SUFFICES ASSUME TypeOK, LeakInv, TreeInv, [Next]_vars PROVE TreeInv'
  OBVIOUS
<1>1. CASE \/ BootStarts \/ BootEnds \/ TermStarts \/ TermEnds \/ UNCHANGED vars
           \/ \E b \in Boxes : Terminate(b)
           \/ \E b, a \in Branches : AgentExits(b, a)
  <2>1. UNCHANGED search /\ UNCHANGED memory /\ UNCHANGED <<forking, from>>
    BY <1>1 DEF BootStarts, BootEnds, TermStarts, TermEnds, Terminate, AgentExits, vars,
                outside
  <2> QED BY <2>1, TreeFramed
<1> QED BY <1>1, TreeForked, TreeGrows, TreeDecided, TreeMoves, TreeTold
        DEF Next, Threads, Coroutine, InBoxes

LEMMA TreeInit == Init => TreeInv
<1> SUFFICES ASSUME Init PROVE TreeInv
  OBVIOUS
<1>1. Indices = {}
  BY DEF Init, Indices
<1> QED BY <1>1, BranchTreeAssumption
        DEF Init, TreeInv, Numbers, Checkpointed, Placed, Won, Taught

\* Where no trajectory is a stray one's, what a search teaches is a way of
\* checkpoints from the base to the winner: nothing of another branch is in it.
THEOREM LessonSafe == Spec => []LessonIsCheckpointPath
<1>1. Init => TypeOK /\ LeakInv /\ TreeInv
  BY TypeInit, LeakInit, TreeInit
<1>2. TypeOK /\ LeakInv /\ TreeInv /\ [Next]_vars => TypeOK' /\ LeakInv' /\ TreeInv'
  BY TypeStep, LeakStep, TreeStep DEF LeakInv
<1>3. TreeInv => LessonIsCheckpointPath
  BY DEF TreeInv, Taught, Sound, OwnIds, LessonIsCheckpointPath
<1> QED BY <1>1, <1>2, <1>3, PTL DEF Spec

-----------------------------------------------------------------------------
(* What a search has left, whatever fails and whoever cancels. *)

\* The steps that a thread still has: one for each box or child that it has not reached, and its
\* start and its end.  A step counts more than all those of the thread that it queues.
ForkQueued == MaxBranches + 3
TermQueued == MaxBranches + 4

BootLeft ==
  CASE bootT = "queued" -> 3 [] bootT = "running" -> 2 [] bootT \in {"returned", "raised"} -> 1
    [] bootT \in {"idle", "dropped"} -> 0
ForkLeft ==
  CASE forkT = "queued" -> ForkQueued [] forkT = "running" -> Cardinality(making) + 2
    [] forkT \in {"returned", "raised"} -> 1 [] forkT \in {"idle", "dropped"} -> 0
TermLeft ==
  CASE termT = "queued" -> TermQueued [] termT = "running" -> Cardinality(todo) + 2
    [] termT \in {"returned", "raised"} -> 1 [] termT \in {"idle", "dropped"} -> 0

\* The way of the coroutine through one round, the way to its cleanup included.
PcLeft ==
  CASE pc = "boot" -> TermQueued + ForkQueued + 6 [] pc = "seed" -> TermQueued + ForkQueued + 5
    [] pc = "fork" -> TermQueued + 4 [] pc = "launch" -> TermQueued + 3
    [] pc = "decide" -> TermQueued + 2 [] pc = "cleanup" -> 1 [] pc = "ended" -> 0

\* A round more costs its fan-out, its launches and its way through the coroutine.
Round == 2 * MaxBranches + 6
RoundsLeft == Round * (MaxDepth - depth)

Silent == {b \in Branches : answer[b] = None}
SearchLeft ==
  RoundsLeft + PcLeft + BootLeft + ForkLeft + TermLeft
    + Cardinality(Silent) + (MaxCancels - cancels)

AtFirst == Round * MaxDepth + 3 * MaxBranches + 16 + MaxCancels

LEMMA PcLeftIs ==
  /\ pc = "boot" => PcLeft = TermQueued + ForkQueued + 6
  /\ pc = "seed" => PcLeft = TermQueued + ForkQueued + 5
  /\ pc = "fork" => PcLeft = TermQueued + 4
  /\ pc = "launch" => PcLeft = TermQueued + 3
  /\ pc = "decide" => PcLeft = TermQueued + 2
  /\ pc = "cleanup" => PcLeft = 1
  /\ pc = "ended" => PcLeft = 0
BY DEF PcLeft

LEMMA PcLeftIsNext ==
  /\ pc' = "seed" => PcLeft' = TermQueued + ForkQueued + 5
  /\ pc' = "fork" => PcLeft' = TermQueued + 4
  /\ pc' = "launch" => PcLeft' = TermQueued + 3
  /\ pc' = "decide" => PcLeft' = TermQueued + 2
  /\ pc' = "cleanup" => PcLeft' = 1
  /\ pc' = "ended" => PcLeft' = 0
BY DEF PcLeft, TermQueued, ForkQueued

LEMMA ThreadLeftIs ==
  /\ bootT = "queued" => BootLeft = 3
  /\ bootT = "running" => BootLeft = 2
  /\ bootT \in {"returned", "raised"} => BootLeft = 1
  /\ bootT \in {"idle", "dropped"} => BootLeft = 0
  /\ forkT = "queued" => ForkLeft = ForkQueued
  /\ forkT = "running" => ForkLeft = Cardinality(making) + 2
  /\ forkT \in {"returned", "raised"} => ForkLeft = 1
  /\ forkT \in {"idle", "dropped"} => ForkLeft = 0
  /\ termT = "queued" => TermLeft = TermQueued
  /\ termT = "running" => TermLeft = Cardinality(todo) + 2
  /\ termT \in {"returned", "raised"} => TermLeft = 1
  /\ termT \in {"idle", "dropped"} => TermLeft = 0
BY DEF BootLeft, ForkLeft, TermLeft

LEMMA ThreadLeftIsNext ==
  /\ bootT' = "running" => BootLeft' = 2
  /\ bootT' \in {"returned", "raised"} => BootLeft' = 1
  /\ bootT' \in {"idle", "dropped"} => BootLeft' = 0
  /\ forkT' = "queued" => ForkLeft' = ForkQueued
  /\ forkT' = "running" => ForkLeft' = Cardinality(making') + 2
  /\ forkT' \in {"returned", "raised"} => ForkLeft' = 1
  /\ forkT' \in {"idle", "dropped"} => ForkLeft' = 0
  /\ termT' = "queued" => TermLeft' = TermQueued
  /\ termT' = "running" => TermLeft' = Cardinality(todo') + 2
  /\ termT' \in {"returned", "raised"} => TermLeft' = 1
  /\ termT' \in {"idle", "dropped"} => TermLeft' = 0
BY DEF BootLeft, ForkLeft, TermLeft, ForkQueued, TermQueued

\* A set of boxes, or of branches, has no more elements than there are.
LEMMA AtMostAll ==
  /\ \A S \in SUBSET Branches :
       IsFiniteSet(S) /\ Cardinality(S) \in Nat /\ Cardinality(S) <= MaxBranches
  /\ \A S \in SUBSET Boxes :
       IsFiniteSet(S) /\ Cardinality(S) \in Nat /\ Cardinality(S) <= MaxBranches + 1
<1>1. MaxBranches \in Nat
  BY BranchTreeAssumption
<1>2. /\ IsFiniteSet(Branches) /\ Cardinality(Branches) = MaxBranches
      /\ IsFiniteSet(Boxes) /\ Cardinality(Boxes) = MaxBranches + 1
  BY <1>1, FS_Interval DEF Branches, Boxes
<1>3. \A S \in SUBSET Branches : IsFiniteSet(S) /\ Cardinality(S) <= Cardinality(Branches)
  BY <1>2, FS_Subset
<1>4. \A S \in SUBSET Boxes : IsFiniteSet(S) /\ Cardinality(S) <= Cardinality(Boxes)
  BY <1>2, FS_Subset
<1> QED BY <1>2, <1>3, <1>4, FS_CardinalityType

\* One that is taken away is one less.
LEMMA OneLess ==
  ASSUME NEW S \in SUBSET Boxes, NEW x \in S
  PROVE  Cardinality(S \ {x}) = Cardinality(S) - 1
BY AtMostAll, FS_RemoveElement

LEMMA PartsLeft ==
  ASSUME TypeOK, depth < MaxDepth
  PROVE  /\ RoundsLeft \in Nat /\ PcLeft \in Nat /\ BootLeft \in Nat /\ Cardinality(Silent) \in Nat
         /\ ForkLeft \in 0 .. ForkQueued /\ TermLeft \in 0 .. TermQueued
         /\ MaxCancels - cancels \in Nat
         /\ ForkQueued \in Nat /\ TermQueued \in Nat
<1>1. MaxBranches \in Nat /\ MaxCancels \in Nat /\ ForkQueued \in Nat /\ TermQueued \in Nat
  BY BranchTreeAssumption DEF ForkQueued, TermQueued
<1>2. RoundsLeft \in Nat
  <2>1. Round \in Nat /\ MaxDepth - depth \in Nat
    BY <1>1, BranchTreeAssumption DEF TypeOK, Round
  <2> QED BY <2>1 DEF RoundsLeft
<1>3. PcLeft \in Nat
  BY <1>1, PcLeftIs DEF TypeOK
<1>4. BootLeft \in Nat
  BY ThreadLeftIs DEF TypeOK, ThreadStates
<1>5. ForkLeft \in 0 .. ForkQueued
  <2>1. Cardinality(making) \in 0 .. MaxBranches
    BY <1>1, AtMostAll DEF TypeOK
  <2> QED BY <1>1, <2>1, ThreadLeftIs DEF TypeOK, ThreadStates, ForkQueued
<1>6. TermLeft \in 0 .. TermQueued
  <2>1. Cardinality(todo) \in 0 .. MaxBranches + 1
    BY <1>1, AtMostAll DEF TypeOK
  <2> QED BY <1>1, <2>1, ThreadLeftIs DEF TypeOK, ThreadStates, TermQueued
<1>7. Cardinality(Silent) \in Nat
  BY AtMostAll DEF Silent
<1> QED BY <1>1, <1>2, <1>3, <1>4, <1>5, <1>6, <1>7 DEF TypeOK

\* A step of a thread is one of those that the thread had left.
LEMMA ThreadsSpend ==
  ASSUME TypeOK, depth < MaxDepth, Threads
  PROVE  SearchLeft' < SearchLeft
<1>0. /\ UNCHANGED search
      /\ RoundsLeft' = RoundsLeft /\ PcLeft' = PcLeft /\ Silent' = Silent /\ cancels' = cancels
  <2>1. UNCHANGED search
    BY DEF Threads, BootStarts, BootEnds, ForkStarts, ForkEnds, ChildUp, ChildFails, TermStarts,
           TermEnds, Terminate
  <2> QED BY <2>1 DEF search, RoundsLeft, PcLeft, Silent
<1>1. CASE BootStarts \/ BootEnds
  <2>1. BootLeft' < BootLeft
    BY <1>1, ThreadLeftIs, ThreadLeftIsNext DEF BootStarts, BootEnds
  <2>2. ForkLeft' = ForkLeft /\ TermLeft' = TermLeft
    BY <1>1 DEF BootStarts, BootEnds, forking, ending, ForkLeft, TermLeft
  <2>3. BootLeft' \in Int
    BY <1>1, ThreadLeftIsNext DEF BootStarts, BootEnds
  <2> QED BY <1>0, <2>1, <2>2, <2>3, PartsLeft DEF SearchLeft
<1>2. CASE ForkStarts \/ ForkEnds \/ \E b \in Branches : ChildUp(b) \/ ChildFails(b)
  <2>1. BootLeft' = BootLeft /\ TermLeft' = TermLeft
    BY <1>2 DEF ForkStarts, ForkEnds, ChildUp, ChildFails, ending, BootLeft, TermLeft
  <2>2. ForkLeft' < ForkLeft /\ ForkLeft' \in Int
    <3>0. /\ MaxBranches \in Nat /\ ForkQueued = MaxBranches + 3
          /\ Cardinality(making) \in Nat
          /\ Cardinality(angles) \in Nat /\ Cardinality(angles) <= MaxBranches
      BY BranchTreeAssumption, AtMostAll DEF TypeOK, ForkQueued
    <3>1. CASE ForkStarts
      BY <3>0, <3>1, ThreadLeftIs, ThreadLeftIsNext DEF ForkStarts
    <3>2. CASE ForkEnds
      BY <3>0, <3>2, ThreadLeftIs, ThreadLeftIsNext DEF ForkEnds
    <3>3. ASSUME NEW b \in Branches, ChildUp(b) \/ ChildFails(b)
          PROVE  ForkLeft' < ForkLeft /\ ForkLeft' \in Int
      <4>1. Cardinality(making') = Cardinality(making) - 1
        BY <3>3, OneLess, BoxNumbers DEF ChildUp, ChildFails, TypeOK
      <4>2. forkT = "running" /\ forkT' = "running"
        BY <3>3 DEF ChildUp, ChildFails
      <4> QED BY <3>0, <4>1, <4>2, ThreadLeftIs, ThreadLeftIsNext
    <3> QED BY <1>2, <3>1, <3>2, <3>3
  <2> QED BY <1>0, <2>1, <2>2, PartsLeft DEF SearchLeft
<1>3. CASE TermStarts \/ TermEnds \/ \E b \in Boxes : Terminate(b)
  <2>1. BootLeft' = BootLeft /\ ForkLeft' = ForkLeft
    BY <1>3 DEF TermStarts, TermEnds, Terminate, forking, BootLeft, ForkLeft
  <2>2. TermLeft' < TermLeft /\ TermLeft' \in Int
    <3>0. /\ MaxBranches \in Nat /\ TermQueued = MaxBranches + 4
          /\ Cardinality(todo) \in Nat /\ Cardinality(todo) <= MaxBranches + 1
      BY BranchTreeAssumption, AtMostAll DEF TypeOK, TermQueued
    <3>1. CASE TermStarts
      BY <3>0, <3>1, ThreadLeftIs, ThreadLeftIsNext DEF TermStarts
    <3>2. CASE TermEnds
      BY <3>0, <3>2, ThreadLeftIs, ThreadLeftIsNext DEF TermEnds
    <3>3. ASSUME NEW b \in Boxes, Terminate(b)
          PROVE  TermLeft' < TermLeft /\ TermLeft' \in Int
      <4>1. Cardinality(todo') = Cardinality(todo) - 1
        BY <3>3, OneLess DEF Terminate, TypeOK
      <4>2. termT = "running" /\ termT' = "running"
        BY <3>3 DEF Terminate
      <4> QED BY <3>0, <4>1, <4>2, ThreadLeftIs, ThreadLeftIsNext
    <3> QED BY <1>3, <3>1, <3>2, <3>3
  <2> QED BY <1>0, <2>1, <2>2, PartsLeft DEF SearchLeft
<1> QED BY <1>1, <1>2, <1>3 DEF Threads

\* The finally block queues its thread, whose steps the coroutine's way had counted.
LEMMA FinallySpends ==
  ASSUME TypeOK, depth < MaxDepth, pc \in {"seed", "fork", "launch", "decide"},
         pc' = "cleanup", termT' = "queued",
         UNCHANGED <<depth, answer, bootT, making>>, forkT' = forkT \/ forkT' = "dropped",
         cancels' = cancels \/ cancels' = cancels + 1
  PROVE  SearchLeft' < SearchLeft
<1>1. RoundsLeft' = RoundsLeft /\ Silent' = Silent /\ BootLeft' = BootLeft
  BY DEF RoundsLeft, Silent, BootLeft
<1>2. ForkLeft' \in 0 .. ForkLeft
  <2>1. CASE forkT' = forkT
    <3>1. ForkLeft' = ForkLeft
      BY <2>1 DEF ForkLeft
    <3> QED BY <3>1, PartsLeft
  <2>2. CASE forkT' = "dropped"
    BY <2>2, ThreadLeftIsNext, PartsLeft
  <2> QED BY <2>1, <2>2
<1>3. PcLeft >= TermQueued + 2 /\ PcLeft' = 1 /\ TermLeft' = TermQueued
  BY PcLeftIs, PcLeftIsNext, ThreadLeftIsNext, PartsLeft
<1>4. cancels \in Nat /\ MaxCancels \in Nat
  BY BranchTreeAssumption DEF TypeOK
<1> QED BY <1>1, <1>2, <1>3, <1>4, PartsLeft DEF SearchLeft

\* The other steps of the coroutine within a round.
LEMMA RoundSpends ==
  ASSUME TypeOK, depth < MaxDepth,
         \/ Booted \/ BootFailed \/ Seeded \/ Forked \/ CleanedUp
         \/ RoundEnds /\ pc' = "decide"
  PROVE  SearchLeft' < SearchLeft
<1>1. /\ RoundsLeft' = RoundsLeft /\ Silent' = Silent /\ TermLeft' = TermLeft
      /\ cancels' = cancels
  BY DEF Booted, BootFailed, Seeded, Forked, CleanedUp, RoundEnds, Finally, ending, RoundsLeft,
         Silent, TermLeft
<1>2. BootLeft' \in 0 .. BootLeft
  <2>1. CASE Booted
    BY <2>1, ThreadLeftIsNext, PartsLeft DEF Booted
  <2>2. CASE ~Booted
    <3>1. BootLeft' = BootLeft
      BY <2>2 DEF BootFailed, Seeded, Forked, CleanedUp, RoundEnds, BootLeft
    <3> QED BY <3>1, PartsLeft
  <2> QED BY <2>1, <2>2
<1>3. CASE Seeded
  <2>1. /\ PcLeft = TermQueued + ForkQueued + 5 /\ PcLeft' = TermQueued + 4
        /\ ForkLeft' = ForkQueued
    BY <1>3, PcLeftIs, PcLeftIsNext, ThreadLeftIsNext DEF Seeded
  <2> QED BY <1>1, <1>2, <2>1, PartsLeft DEF SearchLeft
<1>4. CASE ~Seeded
  <2>1. ForkLeft' \in 0 .. ForkLeft
    <3>1. CASE Forked
      BY <3>1, ThreadLeftIsNext, PartsLeft DEF Forked
    <3>2. CASE ~Forked
      <4>1. ForkLeft' = ForkLeft
        BY <1>4, <3>2 DEF Booted, BootFailed, CleanedUp, RoundEnds, forking, ForkLeft
      <4> QED BY <4>1, PartsLeft
    <3> QED BY <3>1, <3>2
  <2>2. PcLeft' < PcLeft /\ PcLeft' \in Int
    <3>1. \/ pc = "boot" /\ pc' \in {"seed", "ended"}
          \/ pc = "fork" /\ pc' = "launch"
          \/ pc = "launch" /\ pc' = "decide"
          \/ pc = "cleanup" /\ pc' = "ended"
      BY <1>4 DEF Booted, BootFailed, Forked, CleanedUp, RoundEnds
    <3> QED BY <3>1, PcLeftIs, PcLeftIsNext, PartsLeft
  <2> QED BY <1>1, <1>2, <2>1, <2>2, PartsLeft DEF SearchLeft
<1> QED BY <1>3, <1>4

\* A round more pays for all that it starts again.
LEMMA ContinueSpends ==
  ASSUME TypeOK, depth < MaxDepth, pc = "decide", NEW w, NEW n, Continue(w, n)
  PROVE  SearchLeft' < SearchLeft
<1>1. MaxBranches \in Nat /\ Round \in Nat /\ MaxDepth \in Nat /\ depth \in Nat
  BY BranchTreeAssumption DEF TypeOK, Round
<1>2. RoundsLeft' = RoundsLeft - Round
  <2>1. depth' = depth + 1
    BY DEF Continue
  <2>2. Round * (MaxDepth - (depth + 1)) = Round * (MaxDepth - depth) - Round
    BY <1>1
  <2> QED BY <2>1, <2>2 DEF RoundsLeft, Round
<1>3. /\ PcLeft = TermQueued + 2 /\ PcLeft' = TermQueued + 4 /\ ForkLeft' = ForkQueued
      /\ BootLeft' = BootLeft /\ TermLeft' = TermLeft /\ cancels' = cancels
  BY PcLeftIs, PcLeftIsNext, ThreadLeftIsNext DEF Continue, ending, BootLeft, TermLeft
<1>4. Cardinality(Silent') \in Nat /\ Cardinality(Silent') <= MaxBranches
  <2>1. Silent' \in SUBSET Branches
    BY DEF Silent
  <2> QED BY <2>1, AtMostAll
<1>5. ForkQueued = MaxBranches + 3 /\ Round = 2 * MaxBranches + 6
  BY DEF ForkQueued, Round
<1> QED BY <1>1, <1>2, <1>3, <1>4, <1>5, PartsLeft DEF SearchLeft

\* A launch that reports is no longer awaited.
LEMMA ReportSpends ==
  ASSUME TypeOK, depth < MaxDepth, NEW b \in Branches,
         OwnReport(b) \/ \E a \in Branches : StrayReport(b, a)
  PROVE  SearchLeft' < SearchLeft
<1>1. /\ UNCHANGED <<pc, depth, cancels, bootT>> /\ UNCHANGED forking /\ UNCHANGED ending
      /\ answer[b] = None
      /\ \E a \in Branches : answer' = [answer EXCEPT ![b] = a]
  BY DEF OwnReport, StrayReport
<1>2. /\ RoundsLeft' = RoundsLeft /\ PcLeft' = PcLeft /\ BootLeft' = BootLeft
      /\ ForkLeft' = ForkLeft /\ TermLeft' = TermLeft
  BY <1>1 DEF forking, ending, RoundsLeft, PcLeft, BootLeft, ForkLeft, TermLeft
<1>3. Silent' = Silent \ {b} /\ b \in Silent /\ Silent \in SUBSET Boxes
  BY <1>1, BoxNumbers DEF Silent, TypeOK
<1>4. Cardinality(Silent') = Cardinality(Silent) - 1
  BY <1>3, OneLess
<1> QED BY <1>1, <1>2, <1>4, PartsLeft DEF SearchLeft

\* A cancellation is one of those that may come, wherever the search stands.
LEMMA CancelSpends ==
  ASSUME TypeOK, depth < MaxDepth, Cancel
  PROVE  SearchLeft' < SearchLeft
<1>1. /\ UNCHANGED <<depth, answer, making>> /\ cancels' = cancels + 1
      /\ cancels \in Nat /\ MaxCancels \in Nat
  BY BranchTreeAssumption DEF Cancel, TypeOK
<1>2. CASE pc \in {"seed", "fork", "launch", "decide"}
  BY <1>1, <1>2, FinallySpends DEF Cancel, Finally, Forget
<1>3. CASE pc \in {"boot", "cleanup"}
  <2>1. PcLeft > 0 /\ PcLeft' = 0
    BY <1>3, PcLeftIs, PcLeftIsNext, PartsLeft DEF Cancel
  <2>2. /\ bootT' = bootT \/ bootT' = "dropped"
        /\ termT' = termT \/ termT' = "dropped"
        /\ forkT' = forkT /\ todo' = todo
    BY <1>3 DEF Cancel, Forget, ending
  <2>3. BootLeft' \in 0 .. BootLeft
    <3>1. bootT' = bootT => BootLeft' = BootLeft
      BY DEF BootLeft
    <3> QED BY <2>2, <3>1, ThreadLeftIsNext, PartsLeft
  <2>4. TermLeft' \in 0 .. TermLeft
    <3>1. termT' = termT => TermLeft' = TermLeft
      BY <2>2 DEF TermLeft
    <3> QED BY <2>2, <3>1, ThreadLeftIsNext, PartsLeft
  <2>5. ForkLeft' = ForkLeft /\ RoundsLeft' = RoundsLeft /\ Silent' = Silent
    BY <1>1, <2>2 DEF ForkLeft, RoundsLeft, Silent
  <2> QED BY <1>1, <2>1, <2>3, <2>4, <2>5, PartsLeft DEF SearchLeft
<1> QED BY <1>2, <1>3 DEF Cancel

LEMMA SearchSpends ==
  ASSUME TypeOK, depth < MaxDepth, Next
  PROVE  \/ SearchLeft' < SearchLeft
         \/ /\ SearchLeft' = SearchLeft
            /\ Persist \/ Learn \/ \E b, a \in Branches : AgentExits(b, a)
<1>1. CASE Threads
  BY <1>1, ThreadsSpend
<1>2. CASE Persist \/ Learn \/ \E b, a \in Branches : AgentExits(b, a)
  <2>1. UNCHANGED search /\ UNCHANGED <<bootT, forking, ending>>
    BY <1>2 DEF Persist, Learn, AgentExits
  <2>2. SearchLeft' = SearchLeft
    BY <2>1 DEF search, forking, ending, SearchLeft, RoundsLeft, PcLeft, BootLeft, ForkLeft,
                TermLeft, Silent
  <2> QED BY <1>2, <2>2
<1>3. CASE \/ Booted \/ BootFailed \/ Seeded \/ Forked \/ CleanedUp
           \/ RoundEnds /\ pc' = "decide"
  BY <1>3, RoundSpends
<1>4. CASE (RoundEnds /\ pc' # "decide") \/ Raises
  BY <1>4, FinallySpends DEF RoundEnds, Raises, Finally, forking
<1>5. CASE Decide
  <2>1. ASSUME NEW w, NEW complete, Stop(w, complete)
        PROVE  SearchLeft' < SearchLeft
    BY <1>5, <2>1, FinallySpends DEF Decide, Stop, Finally, forking
  <2>2. ASSUME NEW w, NEW n, Continue(w, n)
        PROVE  SearchLeft' < SearchLeft
    BY <1>5, <2>2, ContinueSpends DEF Decide
  <2> QED BY <1>5, <2>1, <2>2 DEF Decide
<1>6. CASE \E b \in Branches : OwnReport(b) \/ \E a \in Branches : StrayReport(b, a)
  BY <1>6, ReportSpends
<1>7. CASE Cancel
  BY <1>7, CancelSpends
<1> QED BY <1>1, <1>2, <1>3, <1>4, <1>5, <1>6, <1>7 DEF Next, Coroutine, InBoxes

LEMMA AtFirstLeft == Init => SearchLeft = AtFirst
<1> SUFFICES ASSUME Init PROVE SearchLeft = AtFirst
  OBVIOUS
<1>1. /\ MaxBranches \in Nat /\ MaxDepth \in Nat /\ MaxCancels \in Nat /\ Round \in Nat
      /\ depth = 0 /\ cancels = 0
  BY BranchTreeAssumption DEF Init, Round
<1>2. Silent = Branches /\ Cardinality(Branches) = MaxBranches
  <2>1. Silent = Branches
    BY DEF Init, Silent
  <2>2. Cardinality(1 .. MaxBranches) = MaxBranches
    BY <1>1, FS_Interval
  <2> QED BY <2>1, <2>2 DEF Branches
<1>3. PcLeft = TermQueued + ForkQueued + 6 /\ BootLeft = 3 /\ ForkLeft = 0 /\ TermLeft = 0
  BY PcLeftIs, ThreadLeftIs DEF Init
<1>4. RoundsLeft = Round * MaxDepth /\ Round * MaxDepth \in Nat
  BY <1>1 DEF RoundsLeft
<1> QED BY <1>1, <1>2, <1>3, <1>4 DEF SearchLeft, AtFirst, TermQueued, ForkQueued

\* Whatever fails or is cancelled, and however the parent decides: each transition of a search, of
\* its threads and of its launches brings its end nearer, and after AtFirst of them nothing moves
\* but the agents that the launches left.  The bounded core of EverySearchEnds.
THEOREM SearchIsBounded ==
  Spec => /\ [](SearchLeft \in 0 .. AtFirst)
          /\ [][\/ SearchLeft' < SearchLeft
                \/ Persist \/ Learn \/ \E b, a \in Branches : AgentExits(b, a)]_vars
<1> DEFINE Nearer == \/ SearchLeft' < SearchLeft
                     \/ Persist \/ Learn \/ \E b, a \in Branches : AgentExits(b, a)
           Known == TypeOK /\ LeakInv /\ TreeInv
           Within == SearchLeft <= AtFirst
<1>1. Init => Known /\ Within
  <2>1. Init => Known
    BY TypeInit, LeakInit, TreeInit
  <2>2. Known => SearchLeft \in Int
    BY PartsLeft DEF TreeInv, Placed, SearchLeft
  <2> QED BY <2>1, <2>2, AtFirstLeft
<1>2. Known /\ [Next]_vars => Known'
  BY TypeStep, LeakStep, TreeStep DEF LeakInv
<1>3. Known => SearchLeft \in Nat
  BY PartsLeft DEF TreeInv, Placed, SearchLeft
<1>4. Known /\ [Next]_vars => [Nearer]_vars
  BY SearchSpends DEF TreeInv, Placed
<1>5. AtFirst \in Nat
  BY BranchTreeAssumption DEF AtFirst, Round
<1>6. Known' => (SearchLeft \in Nat)'
  BY <1>3, PTL
<1>7. Known /\ Within /\ Known' /\ [Next]_vars => Within'
  <2> SUFFICES ASSUME Known, Within, Known', [Next]_vars PROVE Within'
    OBVIOUS
  <2>1. SearchLeft \in Nat /\ SearchLeft' \in Nat
    BY <1>3, <1>6
  <2>2. SearchLeft' <= SearchLeft
    <3>1. CASE Next
      BY <2>1, <3>1, SearchSpends DEF TreeInv, Placed
    <3>2. CASE UNCHANGED vars
      <4>1. SearchLeft' = SearchLeft
        BY <3>2 DEF vars, search, forking, ending, SearchLeft, RoundsLeft, PcLeft, BootLeft,
                    ForkLeft, TermLeft, Silent
      <4> QED BY <2>1, <4>1
    <3> QED BY <3>1, <3>2
  <2>3. AtFirst' = AtFirst
    BY DEF AtFirst, Round
  <2> QED BY <1>5, <2>1, <2>2, <2>3
<1>8. Known /\ Within => SearchLeft \in 0 .. AtFirst
  BY <1>3, <1>5
<1> HIDE DEF Nearer, Known, Within
<1> QED BY <1>1, <1>2, <1>4, <1>7, <1>8, PTL DEF Spec, Nearer
=============================================================================
