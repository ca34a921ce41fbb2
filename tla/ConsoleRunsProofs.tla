-------------------------- MODULE ConsoleRunsProofs ---------------------------
(***************************************************************************)
(* Proofs about the console, for every set of requests, every catalogue    *)
(* and every capacity: types, the limit on the processes that work at a    *)
(* time, what a run called succeeded has done and shown, and that a run    *)
(* which is called over learns nothing any more.                           *)
(***************************************************************************)
EXTENDS ConsoleRuns, FiniteSetTheorems, TLAPS

-----------------------------------------------------------------------------
(* Types *)

\* A request that is matched reads one skill, or none; and so does an id that is looked up.
LEMMA LookupType ==
  ASSUME NEW r \in Requests, store \in Skills
  PROVE  Lookup(r) \subseteq Skills /\ Current(seen[r]) \in Skills
BY DEF Lookup, Current, Skills

LEMMA TypeInit == Init => TypeOK
BY DEF Init, TypeOK, Skills

LEMMA StartTyped ==
  ASSUME TypeOK, NEW r \in Requests, NEW task \in {"fanout", "replay"}, StartRun(r, task)
  PROVE  TypeOK'
BY DEF TypeOK, StartRun, Shows, Goes, server, process, Finals, Exits

LEMMA TypeStep == TypeOK /\ [Next]_vars => TypeOK'
<1> SUFFICES ASSUME TypeOK, [Next]_vars PROVE TypeOK'
  OBVIOUS
<1> USE DEF Shows, Goes, Exits, Finals, asking, process, server
<1>1. ASSUME NEW r \in Requests, Serving(r) PROVE TypeOK'
  <2>1. CASE Post(r) \/ HelperFails(r)
    BY <2>1 DEF Post, HelperFails, TypeOK
  <2>2. CASE Match(r)
    <3>1. Lookup(r) \subseteq Skills
      BY LookupType DEF TypeOK
    <3> QED BY <2>2, <3>1 DEF Match, TypeOK
  <2>3. CASE Route(r)
    BY <2>3, StartTyped DEF Route, TypeOK
  <2>4. CASE Confirm(r)
    BY <2>4, StartTyped DEF Confirm
  <2>5. CASE Stop(r)
    BY <2>5 DEF Stop, TypeOK
  <2>6. CASE Hear(r)
    BY <2>6 DEF Hear, TypeOK
  <2>7. CASE Close(r)
    BY <2>7 DEF Close, Outcome, TypeOK
  <2> QED BY <1>1, <2>1, <2>2, <2>3, <2>4, <2>5, <2>6, <2>7 DEF Serving
<1>2. ASSUME NEW r \in Requests, FanningOut(r) PROVE TypeOK'
  <2>1. CASE Boot(r)
    BY <2>1 DEF Boot, TypeOK
  <2>2. CASE Explore(r)
    BY <2>2 DEF Explore, TypeOK
  <2>3. CASE Break(r)
    BY <2>3 DEF Break, TypeOK
  <2>4. CASE Learn(r)
    BY <2>4 DEF Learn, TypeOK
  <2>5. CASE Save(r)
    BY <2>5 DEF Save, TypeOK, Skills
  <2>6. CASE ThreadEnds(r)
    BY <2>6 DEF ThreadEnds, TypeOK
  <2>7. CASE Learned(r)
    BY <2>7 DEF Learned, TypeOK
  <2>8. CASE Measured(r)
    BY <2>8 DEF Measured, TypeOK
  <2>9. CASE Exit(r)
    BY <2>9 DEF Exit, TypeOK
  <2>10. CASE Drain(r)
    BY <2>10 DEF Drain, TypeOK
  <2> QED BY <1>2, <2>1, <2>2, <2>3, <2>4, <2>5, <2>6, <2>7, <2>8, <2>9, <2>10 DEF FanningOut
<1>3. ASSUME NEW r \in Requests, Replaying(r) PROVE TypeOK'
  <2>1. Current(seen[r]) \in Skills
    BY LookupType DEF TypeOK
  <2> QED BY <1>3, <2>1 DEF Replaying, Load, Replay, TypeOK
<1>4. CASE UNCHANGED vars
  BY <1>4 DEF vars, TypeOK
<1> QED BY <1>1, <1>2, <1>3, <1>4 DEF Next

\* The variables of the console and of its processes keep their types.
THEOREM TypeCorrect == Spec => []TypeOK
BY TypeInit, TypeStep, PTL DEF Spec

-----------------------------------------------------------------------------
(* One run *)

\* What a replay or a fan-out has achieved, and written, once it exits with success.
Achieved(r, lines) ==
  \/ kind[r] = "fanout" /\ saved[r] /\ lines = 2
  \/ kind[r] = "replay" /\ replayed[r] # Nothing /\ lines = 1

\* How far a process is tells what it has written and what it has done ...
Progress(r) ==
  /\ pc[r] \in {"none", "booting", "exploring", "filing", "learning", "replaying"} =>
       printed[r] = 0
  /\ pc[r] \in {"exploring", "filing", "learning", "measuring", "reporting"} =>
       kind[r] = "fanout"
  /\ pc[r] = "measuring" => printed[r] = 1 /\ saved[r]
  /\ pc[r] = "reporting" => printed[r] = 2 /\ saved[r]
  /\ pc[r] = "replaying" => kind[r] = "replay" /\ replayed[r] # Nothing
  /\ pc[r] = "done" => Achieved(r, printed[r])

\* ... a thread learns only for a process that waits for it, and has saved the skill
\* before it goes on ...
Threaded(r) ==
  /\ thread[r] # "none" => pc[r] \in {"learning", "draining"}
  /\ thread[r] \in {"writing", "done"} => saved[r]

\* ... and the server keeps a run active from its start until its process has exited
\* and everything that it wrote has been received.
Tracked(r) ==
  /\ page[r] # "started" => pc[r] = "none" /\ status[r] = "none"
  /\ r \in Alive => Unfinished(r)
  /\ pc[r] = "gone" => shown[r] = printed[r]
  /\ status[r] = "succeeded" => pc[r] = "gone" /\ Achieved(r, printed[r])

Sound(r) == Progress(r) /\ Threaded(r) /\ Tracked(r)

ConsoleInv ==
  /\ \A r \in Requests : Sound(r)
  /\ Cardinality(Active) <= Capacity

\* What the state of one request is made of.
Kept(r) ==
  /\ page'[r] = page[r] /\ kind'[r] = kind[r] /\ status'[r] = status[r] /\ pc'[r] = pc[r]
  /\ thread'[r] = thread[r] /\ saved'[r] = saved[r] /\ printed'[r] = printed[r]
  /\ shown'[r] = shown[r] /\ replayed'[r] = replayed[r]

LEMMA SoundKept ==
  ASSUME NEW r \in Requests, Sound(r), Kept(r)
  PROVE  Sound(r)'
BY DEF Sound, Kept, Progress, Threaded, Tracked, Achieved, Alive, Unfinished

\* A step is about one request: the others are left as they are.
LEMMA OneMoved ==
  ASSUME TypeOK, NEW r \in Requests, Serving(r) \/ FanningOut(r) \/ Replaying(r),
         NEW q \in Requests, q # r
  PROVE  Kept(q)
<1> USE DEF TypeOK, Kept, Shows, Goes, asking, process, server
<1>1. ASSUME NEW task \in {"fanout", "replay"}, StartRun(r, task) PROVE Kept(q)
  BY <1>1 DEF StartRun
<1>2. CASE Post(r) \/ Match(r) \/ HelperFails(r) \/ Hear(r)
  BY <1>2 DEF Post, Match, HelperFails, Hear
<1>3. CASE Route(r) \/ Confirm(r)
  BY <1>1, <1>3 DEF Route, Confirm
<1>4. CASE Stop(r)
  BY <1>4 DEF Stop
<1>5. CASE Close(r)
  BY <1>5 DEF Close
<1>6. CASE Boot(r) \/ Explore(r) \/ Break(r) \/ Learn(r) \/ Exit(r) \/ Drain(r)
  BY <1>6 DEF Boot, Explore, Break, Learn, Exit, Drain
<1>7. CASE Save(r) \/ ThreadEnds(r) \/ Learned(r) \/ Measured(r)
  BY <1>7 DEF Save, ThreadEnds, Learned, Measured
<1>8. CASE Load(r) \/ Replay(r)
  BY <1>8 DEF Load, Replay
<1> QED BY <1>2, <1>3, <1>4, <1>5, <1>6, <1>7, <1>8 DEF Serving, FanningOut, Replaying

\* A run that is started is a process at its beginning, or one that there never was.
LEMMA StartSound ==
  ASSUME TypeOK, NEW r \in Requests, Sound(r), page[r] # "started",
         NEW task \in {"fanout", "replay"}, StartRun(r, task)
  PROVE  Sound(r)'
<1> USE DEF TypeOK, Sound, Progress, Threaded, Tracked, Achieved, Alive, Unfinished, Exits,
            StartRun, Shows, Goes, server, process
<1>1. CASE Cardinality(Active) >= Capacity
  BY <1>1
<1>2. CASE ~(Cardinality(Active) >= Capacity)
  BY <1>2
<1> QED BY <1>1, <1>2

LEMMA ServingSound ==
  ASSUME TypeOK, NEW r \in Requests, Sound(r), Serving(r)
  PROVE  Sound(r)'
<1> USE DEF TypeOK, Sound, Progress, Threaded, Tracked, Achieved, Alive, Unfinished, Exits,
            Shows, Goes, asking, server, process
<1>1. CASE Post(r) \/ Match(r) \/ HelperFails(r)
  BY <1>1 DEF Post, Match, HelperFails
<1>2. CASE Route(r)
  <2>1. CASE seen[r] # Nothing
    BY <1>2, <2>1 DEF Route
  <2>2. CASE seen[r] = Nothing
    BY <1>2, <2>2, StartSound DEF Route
  <2> QED BY <2>1, <2>2
<1>3. CASE Confirm(r)
  BY <1>3, StartSound DEF Confirm
<1>4. CASE Stop(r)
  <2>1. CASE pc[r] = "booting"
    BY <1>4, <2>1 DEF Stop
  <2>2. CASE pc[r] \in {"exploring", "learning", "measuring", "replaying"}
    BY <1>4, <2>2 DEF Stop
  <2>3. CASE pc[r] \in {"filing", "reporting"}
    BY <1>4, <2>3 DEF Stop
  <2>4. CASE pc[r] \notin {"booting", "exploring", "learning", "measuring", "replaying",
                           "filing", "reporting"}
    BY <1>4, <2>4 DEF Stop
  <2> QED BY <2>1, <2>2, <2>3, <2>4
<1>5. CASE Hear(r)
  BY <1>5 DEF Hear
<1>6. CASE Close(r)
  BY <1>6 DEF Close, Outcome
<1> QED BY <1>1, <1>2, <1>3, <1>4, <1>5, <1>6 DEF Serving

LEMMA WorkingSound ==
  ASSUME TypeOK, NEW r \in Requests, Sound(r), FanningOut(r) \/ Replaying(r)
  PROVE  Sound(r)'
<1> USE DEF TypeOK, Sound, Progress, Threaded, Tracked, Achieved, Alive, Unfinished, Exits,
            Goes, asking, server
<1>1. CASE Boot(r) \/ Explore(r) \/ Break(r)
  BY <1>1 DEF Boot, Explore, Break
<1>2. CASE Learn(r)
  BY <1>2 DEF Learn
<1>3. CASE Save(r)
  BY <1>3 DEF Save
<1>4. CASE ThreadEnds(r)
  BY <1>4 DEF ThreadEnds
<1>5. CASE Learned(r)
  BY <1>5 DEF Learned
<1>6. CASE Measured(r)
  BY <1>6 DEF Measured
<1>7. CASE Exit(r)
  BY <1>7 DEF Exit
<1>8. CASE Drain(r)
  BY <1>8 DEF Drain
<1>9. CASE Load(r)
  BY <1>9 DEF Load
<1>10. CASE Replay(r)
  BY <1>10 DEF Replay
<1> QED BY <1>1, <1>2, <1>3, <1>4, <1>5, <1>6, <1>7, <1>8, <1>9, <1>10
        DEF FanningOut, Replaying

-----------------------------------------------------------------------------
(* The limit *)

LEMMA ActiveFinite == IsFiniteSet(Active) /\ IsFiniteSet(Active')
BY CapacityAssumption, FS_Subset DEF Active

\* A run becomes active only where there is room for it.
LEMMA ActiveStep ==
  ASSUME TypeOK, NEW r \in Requests, Serving(r) \/ FanningOut(r) \/ Replaying(r)
  PROVE  \/ Active' \subseteq Active
         \/ Cardinality(Active) < Capacity /\ Active' \subseteq Active \cup {r}
<1> USE DEF TypeOK, Shows, Goes, asking, process, server
<1>1. ASSUME NEW task \in {"fanout", "replay"}, StartRun(r, task)
      PROVE  \/ Active' \subseteq Active
             \/ Cardinality(Active) < Capacity /\ Active' \subseteq Active \cup {r}
  <2>1. CASE Cardinality(Active) >= Capacity
    BY <1>1, <2>1 DEF StartRun, Active
  <2>2. CASE ~(Cardinality(Active) >= Capacity)
    <3>1. Active' \subseteq Active \cup {r}
      BY <1>1, <2>2 DEF StartRun, Active
    <3>2. Cardinality(Active) \in Nat
      BY ActiveFinite, FS_CardinalityType
    <3> QED BY <2>2, <3>1, <3>2, CapacityAssumption
  <2> QED BY <2>1, <2>2
<1>2. CASE Route(r) \/ Confirm(r)
  <2>1. CASE UNCHANGED status
    BY <2>1 DEF Active
  <2>2. CASE \E task \in {"fanout", "replay"} : StartRun(r, task)
    BY <1>1, <2>2
  <2> QED BY <1>2, <2>1, <2>2 DEF Route, Confirm
<1>3. CASE Stop(r) \/ Close(r)
  BY <1>3 DEF Stop, Close, Outcome, Active
<1>4. CASE UNCHANGED status
  BY <1>4 DEF Active
<1>5. Serving(r) => Route(r) \/ Confirm(r) \/ Stop(r) \/ Close(r) \/ UNCHANGED status
  BY DEF Serving, Post, Match, HelperFails, Hear
<1>6. FanningOut(r) => UNCHANGED status
  BY DEF FanningOut, Boot, Explore, Break, Learn, Save, ThreadEnds, Learned, Measured, Exit, Drain
<1>7. Replaying(r) => UNCHANGED status
  BY DEF Replaying, Load, Replay
<1> QED BY <1>2, <1>3, <1>4, <1>5, <1>6, <1>7

LEMMA InvInit == Init => ConsoleInv
<1> SUFFICES ASSUME Init PROVE ConsoleInv
  OBVIOUS
<1>1. ASSUME NEW r \in Requests PROVE Sound(r)
  BY <1>1 DEF Init, Sound, Progress, Threaded, Tracked, Achieved, Alive, Exits
<1>2. Active = {} /\ Cardinality({}) = 0
  BY FS_EmptySet DEF Init, Active
<1> QED BY <1>1, <1>2, CapacityAssumption DEF ConsoleInv

LEMMA InvStep == TypeOK /\ ConsoleInv /\ [Next]_vars => ConsoleInv'
<1> SUFFICES ASSUME TypeOK, ConsoleInv, [Next]_vars PROVE ConsoleInv'
  OBVIOUS
<1>1. CASE UNCHANGED vars
  <2>1. ASSUME NEW r \in Requests PROVE Sound(r)'
    BY <1>1, <2>1, SoundKept DEF vars, asking, process, server, Kept, ConsoleInv
  <2>2. Active' = Active
    BY <1>1 DEF vars, server, Active
  <2> QED BY <2>1, <2>2 DEF ConsoleInv
<1>2. ASSUME NEW r \in Requests, Serving(r) \/ FanningOut(r) \/ Replaying(r)
      PROVE  ConsoleInv'
  <2>1. ASSUME NEW q \in Requests PROVE Sound(q)'
    <3>1. Sound(q)
      BY DEF ConsoleInv
    <3>2. CASE q = r
      BY <1>2, <3>1, <3>2, ServingSound, WorkingSound
    <3>3. CASE q # r
      BY <1>2, <3>1, <3>3, OneMoved, SoundKept
    <3> QED BY <3>2, <3>3
  <2>2. Cardinality(Active') <= Capacity
    <3>1. /\ IsFiniteSet(Active) /\ IsFiniteSet(Active')
          /\ Cardinality(Active) \in Nat /\ Cardinality(Active') \in Nat
          /\ Cardinality(Active) <= Capacity /\ Capacity \in Nat
      BY ActiveFinite, FS_CardinalityType, CapacityAssumption DEF ConsoleInv
    <3>2. CASE Active' \subseteq Active
      BY <3>1, <3>2, FS_Subset
    <3>3. CASE Cardinality(Active) < Capacity /\ Active' \subseteq Active \cup {r}
      <4>1. /\ IsFiniteSet(Active \cup {r})
            /\ Cardinality(Active \cup {r}) \in Nat
            /\ Cardinality(Active \cup {r}) <= Cardinality(Active) + 1
        <5>1. IsFiniteSet(Active \cup {r})
          BY <3>1, FS_AddElement
        <5>2. Cardinality(Active \cup {r}) = Cardinality(Active)
              \/ Cardinality(Active \cup {r}) = Cardinality(Active) + 1
          BY <3>1, FS_AddElement
        <5> QED BY <3>1, <5>1, <5>2
      <4>2. Cardinality(Active') <= Cardinality(Active \cup {r})
        BY <3>3, <4>1, FS_Subset
      <4> QED BY <3>1, <3>3, <4>1, <4>2
    <3> QED BY <1>2, <3>2, <3>3, ActiveStep
  <2> QED BY <2>1, <2>2 DEF ConsoleInv
<1> QED BY <1>1, <1>2 DEF Next

LEMMA Invariant == Spec => [](TypeOK /\ ConsoleInv)
BY TypeInit, TypeStep, InvInit, InvStep, PTL DEF Spec

\* However requests, confirmations and stops come in: no more processes work than the
\* console has capacity for, since a run is active as long as its process lives.
THEOREM CapacitySafe == Spec => []CapacityKept
<1>1. ASSUME ConsoleInv PROVE CapacityKept
  <2>1. Alive \subseteq Active
    BY <1>1 DEF ConsoleInv, Sound, Tracked, Alive, Active, Unfinished
  <2>2. /\ IsFiniteSet(Active) /\ Cardinality(Active) \in Nat
        /\ Cardinality(Alive) <= Cardinality(Active) /\ Cardinality(Alive) \in Nat
    BY <2>1, ActiveFinite, FS_Subset, FS_CardinalityType
  <2> QED BY <1>1, <2>2, CapacityAssumption DEF ConsoleInv, CapacityKept
<1> QED BY <1>1, Invariant, PTL

\* A run that is called succeeded has done its work, and all of its result is shown.
THEOREM SuccessShown == Spec => []SucceededIsShown
<1>1. ASSUME ConsoleInv PROVE SucceededIsShown
  <2> SUFFICES ASSUME NEW r \in Requests, status[r] = "succeeded"
               PROVE  Achieved(r, shown[r])
    BY DEF SucceededIsShown, Achieved
  <2> QED BY <1>1 DEF ConsoleInv, Sound, Tracked
<1> QED BY <1>1, Invariant, PTL

\* A thread that saves a skill does so for a run that is still active: stopping a run
\* does not end it before its thread has.
THEOREM OverIsQuiet == Spec => OverLearnsNothing
<1>1. ASSUME TypeOK, ConsoleInv, [Next]_vars, NEW r \in Requests, saved'[r] # saved[r]
      PROVE  Unfinished(r)
  <2>1. ~ UNCHANGED vars
    BY <1>1 DEF vars, process
  <2>2. PICK q \in Requests : Serving(q) \/ FanningOut(q) \/ Replaying(q)
    BY <1>1, <2>1 DEF Next
  <2>3. q = r
    BY <1>1, <2>2, OneMoved DEF Kept
  <2>4. Save(r)
    BY <1>1, <2>2, <2>3
       DEF Serving, Post, Match, Route, HelperFails, Confirm, StartRun, Stop, Hear, Close,
           FanningOut, Boot, Explore, Break, Learn, ThreadEnds, Learned, Measured, Exit, Drain,
           Replaying, Load, Replay, process
  <2>5. pc[r] \in {"learning", "draining"}
    BY <1>1, <2>4 DEF Save, ConsoleInv, Sound, Threaded
  <2> QED BY <1>1, <2>5 DEF ConsoleInv, Sound, Tracked, Alive, Exits
<1>2. ASSUME TypeOK, ConsoleInv, [Next]_vars
      PROVE  \A r \in Requests : saved'[r] # saved[r] => Unfinished(r)
  BY <1>1, <1>2
<1> QED BY <1>2, Invariant, PTL DEF Spec, OverLearnsNothing
=============================================================================
