-------------------------- MODULE InBoxAgentProofs --------------------------
(***************************************************************************)
(* Proofs about both halves of the in-box agent, for every step budget.    *)
(*                                                                         *)
(* The launch (InBoxAgent): types; that a box in which no inherited agent  *)
(* runs gives back its own agent's trajectory, whole, whatever files the   *)
(* parent left in it; that what is salvaged has every step that the own    *)
(* agent recorded and wrote down; how many steps there are in a launch.    *)
(*                                                                         *)
(* The loop (BranchAgent): types, the conversation with the endpoint, and  *)
(* the report that the launch then reads.                                  *)
(***************************************************************************)
EXTENDS InBoxAgent, BranchAgent, FiniteSetTheorems, TLAPS

LEMMA LinesType ==
  ASSUME NEW a \in Agents, NEW n \in Nat
  PROVE  Lines(a, n) \in Seq(Line)
<1>1. Lines(a, n) \in [1 .. n -> Line]
  BY DEF Lines, Line
<1> QED BY <1>1

LEMMA JournalsType ==
  ASSUME NEW a \in Agents, NEW st, NEW n \in Nat, n # 0 \/ st \notin {"recording", "appending", "failing"},
         NEW j \in Journals(a, st, n)
  PROVE  j \in Seq(Line) /\ \A i \in DOMAIN j : j[i].by = a
<1>1. Lines(a, n) \in Seq(Line) /\ \A i \in DOMAIN Lines(a, n) : Lines(a, n)[i].by = a
  BY LinesType DEF Lines
<1>2. ASSUME n > 0
      PROVE  /\ Short(a, n) \in Seq(Line) /\ \A i \in DOMAIN Short(a, n) : Short(a, n)[i].by = a
             /\ Half(a, n) \in Seq(Line) /\ \A i \in DOMAIN Half(a, n) : Half(a, n)[i].by = a
  <2>1. Short(a, n) \in Seq(Line) /\ \A i \in DOMAIN Short(a, n) : Short(a, n)[i].by = a
    <3>1. n - 1 \in Nat
      BY <1>2
    <3> QED BY <3>1, LinesType DEF Lines, Short
  <2>2. [by |-> a, whole |-> FALSE] \in Line
    BY DEF Line
  <2> HIDE DEF Short
  <2>3. /\ Half(a, n) \in Seq(Line)
        /\ \A i \in DOMAIN Half(a, n) : i \in DOMAIN Short(a, n) \/ i = Len(Short(a, n)) + 1
        /\ \A i \in DOMAIN Short(a, n) : Half(a, n)[i] = Short(a, n)[i]
        /\ Half(a, n)[Len(Short(a, n)) + 1] = [by |-> a, whole |-> FALSE]
    BY <2>1, <2>2 DEF Half
  <2>4. \A i \in DOMAIN Half(a, n) : Half(a, n)[i].by = a
    BY <2>1, <2>3
  <2> QED BY <2>1, <2>3, <2>4
<1>3. j = Lines(a, n) \/ (n > 0 /\ j \in {Short(a, n), Half(a, n)})
  BY DEF Journals
<1> QED BY <1>1, <1>2, <1>3

LEMMA ResultType ==
  ASSUME NEW a \in Agents \cup {Nobody}
  PROVE  /\ <<>> \in Seq(Line)
         /\ \A ls \in Seq(Line) :
              [by |-> a, lines |-> ls] \in [by : Agents \cup {Nobody}, lines : Seq(Line)]
OBVIOUS

LEMMA NothingType == Nothing \in [by : Agents \cup {Nobody}, lines : Seq(Line)]
BY ResultType DEF Nothing

LEMMA TypeInit == Init => TypeOK
<1> SUFFICES ASSUME Init PROVE TypeOK
  OBVIOUS
<1>a. inherited \in BOOLEAN
  <2>1. inherited = (agent["parent"] \in Live)
    BY DEF Init
  <2>2. (agent["parent"] \in Live) \in BOOLEAN
    OBVIOUS
  <2> QED BY <2>1, <2>2
<1>0. /\ inherited \in BOOLEAN /\ late \in BOOLEAN /\ pc = "clear"
      /\ result \in [by : Agents \cup {Nobody}, lines : Seq(Line)]
  BY <1>a, NothingType DEF Init
<1>1. CASE agent = [a \in Agents |-> "absent"] /\ steps = [a \in Agents |-> 0]
           /\ journal = <<>> /\ traj = Absent /\ done = FALSE
  <2>1. steps \in [Agents -> 0 .. MaxSteps]
    BY <1>1, InBoxAgentAssumption
  <2>2. agent \in [Agents -> Live \cup {"absent", "gone", "dead"}]
    BY <1>1
  <2>3. journal \in Seq(Line)
    BY <1>1
  <2>4. traj \in Line \cup {Absent} /\ done \in BOOLEAN
    BY <1>1
  <2> QED BY <1>0, <2>1, <2>2, <2>3, <2>4 DEF TypeOK
<1>2. ASSUME NEW st \in (Live \ {"unlinked"}) \cup {"gone"}, NEW n \in 0 .. MaxSteps,
             n = 0 => st \notin {"recording", "appending", "failing"},
             steps = [me |-> 0, parent |-> n],
             LeftBy("parent", st, n),
             NEW now \in {st, "dead"}, agent = [me |-> "absent", parent |-> now]
      PROVE  TypeOK
  <2>1. journal \in Seq(Line)
    BY <1>2, JournalsType, InBoxAgentAssumption DEF LeftBy, Agents
  <2>2. traj \in Line \cup {Absent} /\ done \in BOOLEAN
    BY <1>2 DEF LeftBy, Line, Agents
  <2>3. steps \in [Agents -> 0 .. MaxSteps]
    BY <1>2, InBoxAgentAssumption DEF Agents
  <2>4. agent \in [Agents -> Live \cup {"absent", "gone", "dead"}]
    BY <1>2 DEF Agents, Live
  <2> QED BY <1>0, <2>1, <2>2, <2>3, <2>4 DEF TypeOK
<1> QED BY <1>1, <1>2 DEF Init

\* The variables of a launch keep their types.
LEMMA TypeStep == TypeOK /\ [Next]_vars => TypeOK'
<1> SUFFICES ASSUME TypeOK, [Next]_vars PROVE TypeOK'
  OBVIOUS
<1> USE DEF TypeOK, launcher, files, Live, Ended, Returned
<1>1. CASE Clear
  BY <1>1, ResultType DEF Clear
<1>2. CASE WriteJob
  BY <1>2 DEF WriteJob
<1>3. CASE Start
  BY <1>3 DEF Start
<1>4. CASE DoneSeen \/ GiveUp
  BY <1>4 DEF DoneSeen, GiveUp
<1>5. CASE ReadTrajectory
  <2>1. traj.by \in Agents \cup {Nobody}
    BY DEF Line, Absent
  <2>2. result' \in [by : Agents \cup {Nobody}, lines : Seq(Line)]
    <3>1. CASE result' = [by |-> traj.by, lines |-> <<>>]
      BY <3>1, <2>1, ResultType
    <3> QED BY <1>5, <3>1 DEF ReadTrajectory
  <2> QED BY <1>5, <2>2 DEF ReadTrajectory
<1>6. CASE Salvage
  <2>1. "me" \in Agents
    BY DEF Agents
  <2>2. result' \in [by : Agents \cup {Nobody}, lines : Seq(Line)]
    BY <1>6, <2>1, ResultType DEF Salvage
  <2> QED BY <1>6, <2>2 DEF Salvage
<1>7. CASE BoxFails
  <2>1. "me" \in Agents
    BY DEF Agents
  <2>2. result' \in [by : Agents \cup {Nobody}, lines : Seq(Line)]
    <3>1. CASE result' = [by |-> "me", lines |-> <<>>]
      BY <3>1, <2>1, ResultType
    <3> QED BY <1>7, <3>1 DEF BoxFails
  <2> QED BY <1>7, <2>2 DEF BoxFails
<1>8. CASE Cancel \/ TimePasses
  BY <1>8 DEF Cancel, TimePasses
<1>9. ASSUME NEW a \in Agents, Record(a) PROVE TypeOK'
  <2>1. steps' \in [Agents -> 0 .. MaxSteps]
    BY <1>9, InBoxAgentAssumption DEF Record
  <2> QED BY <1>9, <2>1 DEF Record
<1>15. ASSUME NEW a \in Agents, Journal(a) PROVE TypeOK'
  <2>1. PICK whole \in BOOLEAN :
          /\ journal' = Append(journal, [by |-> a, whole |-> whole])
          /\ agent' = [agent EXCEPT ![a] = IF whole THEN "thinking" ELSE "appending"]
    BY <1>15 DEF Journal
  <2>2. journal' \in Seq(Line)
    BY <2>1 DEF Line
  <2> QED BY <1>15, <2>1, <2>2 DEF Journal
<1>16. ASSUME NEW a \in Agents, WriteRaises(a) PROVE TypeOK'
  BY <1>16 DEF WriteRaises
<1>10. ASSUME NEW a \in Agents, Recorded(a) PROVE TypeOK'
  <2>1. journal' \in Seq(Line)
    <3>1. CASE journal' = journal
      BY <3>1
    <3>2. CASE /\ Len(journal) > 0
               /\ journal' = [journal EXCEPT ![Len(journal)].whole = TRUE]
      <4>1. journal[Len(journal)] \in Line
        BY <3>2
      <4>2. [journal[Len(journal)] EXCEPT !.whole = TRUE] \in Line
        BY <4>1 DEF Line
      <4> QED BY <3>2, <4>2
    <3> QED BY <1>10, <3>1, <3>2 DEF Recorded
  <2> QED BY <1>10, <2>1 DEF Recorded
<1>11. ASSUME NEW a \in Agents, Finish(a) PROVE TypeOK'
  BY <1>11 DEF Finish, Line
<1>12. ASSUME NEW a \in Agents, WriteTrajectory(a) PROVE TypeOK'
  BY <1>12 DEF WriteTrajectory, Line
<1>13. ASSUME NEW a \in Agents, Sign(a) \/ Dies(a) PROVE TypeOK'
  BY <1>13 DEF Sign, Dies
<1>14. CASE UNCHANGED vars
  BY <1>14 DEF vars
<1> QED
  BY <1>1, <1>2, <1>3, <1>4, <1>5, <1>6, <1>7, <1>8, <1>9, <1>10, <1>11, <1>12,
     <1>13, <1>14, <1>15, <1>16 DEF Next, Launching, Working

THEOREM TypeCorrect == Spec => []TypeOK
BY TypeInit, TypeStep, PTL DEF Spec

\* Where no inherited agent runs, the files are the own agent's from the rm
\* on, they are written in the order journal, trajectory, DONE, and each stage
\* of the agent tells how far that is.
Mine ==
  /\ agent["parent"] \notin Live
  /\ pc = "clear" => agent["me"] = "absent"
  /\ pc \in {"job", "start"} => agent["me"] = "absent" /\ ~done
  /\ pc # "garbled"
  /\ pc \in {"job", "start", "poll", "read", "salvage"} =>
       /\ \A i \in DOMAIN journal : journal[i].by = "me"
       /\ traj.by \in {"me", Nobody}
       /\ agent["me"] # "unlinked"
       /\ agent["me"] = "writing" => ~traj.whole
       /\ agent["me"] = "signing" => traj.whole
       /\ agent["me"] \in Live => ~done
       /\ done => traj.whole
  /\ pc = "read" => done
  /\ pc \in Returned =>
       /\ result.by = "me"
       /\ \A i \in DOMAIN result.lines : result.lines[i].by = "me"

Clean == ~inherited => Mine

LEMMA MineInit == Init => Clean
<1> SUFFICES ASSUME Init, ~inherited PROVE Mine
  BY DEF Clean
<1>1. pc = "clear" /\ agent["parent"] \notin Live
  BY DEF Init
<1>2. agent["me"] = "absent"
  BY DEF Init, Agents
<1> QED BY <1>1, <1>2 DEF Mine, Returned

LEMMA InheritedFixed == [Next]_vars => inherited' = inherited
<1> SUFFICES ASSUME [Next]_vars PROVE inherited' = inherited
  OBVIOUS
<1>1. CASE Launching
  BY <1>1 DEF Launching, Clear, WriteJob, Start, DoneSeen, GiveUp, ReadTrajectory, Salvage
<1>2. CASE BoxFails \/ Cancel \/ TimePasses
  BY <1>2 DEF BoxFails, Cancel, TimePasses
<1>3. ASSUME NEW a \in Agents, Working(a) PROVE inherited' = inherited
  BY <1>3 DEF Working, Record, Journal, Recorded, WriteRaises, Finish, WriteTrajectory, Sign, Dies
<1>4. CASE UNCHANGED vars
  BY <1>4 DEF vars
<1> QED BY <1>1, <1>2, <1>3, <1>4 DEF Next

LEMMA MineStep == TypeOK /\ Clean /\ [Next]_vars => Clean'
<1> SUFFICES ASSUME TypeOK, Mine, ~inherited, ~inherited', [Next]_vars PROVE Mine'
  BY InheritedFixed DEF Clean
<1> USE DEF Mine, Live, Returned, launcher, files
<1>a. "me" \in Agents /\ "parent" \in Agents
  BY DEF Agents
<1>b. \A a \in Agents : agent[a] \in Live => a = "me"
  BY DEF Agents
<1>1. CASE Clear
  BY <1>1, <1>a DEF Clear, TypeOK, Absent
<1>2. CASE WriteJob
  BY <1>2 DEF WriteJob
<1>3. CASE Start
  BY <1>3, <1>a DEF Start, TypeOK
<1>4. CASE DoneSeen
  BY <1>4 DEF DoneSeen
<1>5. CASE GiveUp
  BY <1>5 DEF GiveUp
<1>6. CASE ReadTrajectory
  <2>1. traj.whole
    BY <1>6 DEF ReadTrajectory
  <2>2. traj.by = "me"
    BY <1>6, <2>1 DEF ReadTrajectory, TypeOK, Line, Absent, Agents, Nobody
  <2> QED BY <1>6, <2>1, <2>2 DEF ReadTrajectory
<1>7. CASE Salvage
  BY <1>7 DEF Salvage
<1>8. CASE BoxFails
  BY <1>8 DEF BoxFails, Ended
<1>9. CASE Cancel
  BY <1>9 DEF Cancel
<1>10. CASE TimePasses
  BY <1>10 DEF TimePasses
<1>18. ASSUME NEW a \in Agents, Record(a) \/ WriteRaises(a) PROVE Mine'
  <2>1. a = "me"
    BY <1>18, <1>b DEF Record, WriteRaises
  <2> QED BY <1>18, <1>a, <2>1 DEF Record, WriteRaises, TypeOK
<1>11. ASSUME NEW a \in Agents, Journal(a) PROVE Mine'
  <2>1. a = "me"
    BY <1>11, <1>b DEF Journal
  <2>2. PICK whole \in BOOLEAN :
          /\ journal' = Append(journal, [by |-> a, whole |-> whole])
          /\ agent' = [agent EXCEPT ![a] = IF whole THEN "thinking" ELSE "appending"]
    BY <1>11 DEF Journal
  <2>3. (\A i \in DOMAIN journal : journal[i].by = "me") =>
          \A i \in DOMAIN journal' : journal'[i].by = "me"
    BY <2>1, <2>2 DEF TypeOK
  <2> QED BY <1>11, <1>a, <2>1, <2>2, <2>3 DEF Journal, TypeOK
<1>12. ASSUME NEW a \in Agents, Recorded(a) PROVE Mine'
  <2>1. a = "me"
    BY <1>12, <1>b DEF Recorded
  <2>2. DOMAIN journal' = DOMAIN journal
        /\ \A i \in DOMAIN journal : journal'[i].by = journal[i].by
    BY <1>12 DEF Recorded, TypeOK, Line
  <2> QED BY <1>12, <1>a, <2>1, <2>2 DEF Recorded, TypeOK
<1>13. ASSUME NEW a \in Agents, Finish(a) PROVE Mine'
  <2>1. a = "me"
    BY <1>13, <1>b DEF Finish
  <2> QED BY <1>13, <1>a, <2>1 DEF Finish, TypeOK
<1>14. ASSUME NEW a \in Agents, WriteTrajectory(a) PROVE Mine'
  <2>1. a = "me"
    BY <1>14, <1>b DEF WriteTrajectory
  <2> QED BY <1>14, <1>a, <2>1 DEF WriteTrajectory, TypeOK
<1>15. ASSUME NEW a \in Agents, Sign(a) PROVE Mine'
  <2>1. a = "me"
    BY <1>15, <1>b DEF Sign
  <2> QED BY <1>15, <1>a, <2>1 DEF Sign, TypeOK
<1>16. ASSUME NEW a \in Agents, Dies(a) PROVE Mine'
  <2>1. a = "me"
    BY <1>16, <1>b DEF Dies
  <2> QED BY <1>16, <1>a, <2>1 DEF Dies, TypeOK
<1>17. CASE UNCHANGED vars
  BY <1>17 DEF vars
<1> QED
  BY <1>1, <1>2, <1>3, <1>4, <1>5, <1>6, <1>7, <1>8, <1>9, <1>10, <1>11, <1>12,
     <1>13, <1>14, <1>15, <1>16, <1>17, <1>18 DEF Next, Launching, Working

LEMMA CleanInvariant == Spec => []Clean
BY TypeInit, TypeStep, MineInit, MineStep, PTL DEF Spec

\* A continuation whose parent's agent had ended returns its own agent's work.
THEOREM InheritanceSafe == Spec => []NothingInherited
<1>1. Clean => NothingInherited
  BY DEF Clean, Mine, NothingInherited
<1> QED BY <1>1, CleanInvariant, PTL

\* Where no inherited agent runs, DONE is a promise that the trajectory is whole.
THEOREM SignalSafe == Spec => []DoneMeansWhole
<1>1. Clean => DoneMeansWhole
  BY DEF Clean, Mine, DoneMeansWhole
<1> QED BY <1>1, CleanInvariant, PTL

-----------------------------------------------------------------------------
\* The journal holds one line of the own agent for each step that it recorded and wrote
\* down, whoever else writes to it: the agent comes up after the rm.  The last line may be
\* missing, from the moment the step is recorded.
Journaled ==
  /\ pc \in {"clear", "job", "start"} => agent["me"] = "absent"
  /\ agent["me"] = "absent" => steps["me"] = 0
  /\ agent["me"] \in {"absent", "thinking", "appending"} => Cardinality(Own(journal)) = steps["me"]
  /\ agent["me"] = "recording" => Cardinality(Own(journal)) = steps["me"] - 1
  /\ Cardinality(Own(journal)) \in {steps["me"] - 1, steps["me"]}

LEMMA OwnFinite ==
  ASSUME NEW ls \in Seq(Line)
  PROVE  IsFiniteSet(Own(ls))
<1>1. IsFiniteSet(1 .. Len(ls)) /\ DOMAIN ls = 1 .. Len(ls)
  BY FS_Interval
<1> QED BY <1>1, FS_Subset DEF Own

\* A line more is one own line more, or none.
LEMMA OwnAppended ==
  ASSUME NEW ls \in Seq(Line), NEW line \in Line
  PROVE  Cardinality(Own(Append(ls, line)))
           = Cardinality(Own(ls)) + IF line.by = "me" THEN 1 ELSE 0
<1> DEFINE n == Len(ls) + 1
<1>1. /\ DOMAIN Append(ls, line) = DOMAIN ls \cup {n} /\ n \notin DOMAIN ls
      /\ Append(ls, line)[n] = line
      /\ \A i \in DOMAIN ls : Append(ls, line)[i] = ls[i]
  OBVIOUS
<1>2. Own(Append(ls, line)) = IF line.by = "me" THEN Own(ls) \cup {n} ELSE Own(ls)
  BY <1>1 DEF Own
<1>3. n \notin Own(ls) /\ IsFiniteSet(Own(ls)) /\ Cardinality(Own(ls)) \in Nat
  BY <1>1, OwnFinite, FS_CardinalityType DEF Own
<1> HIDE DEF n
<1>4. CASE line.by = "me"
  BY <1>2, <1>3, <1>4, FS_AddElement
<1>5. CASE line.by # "me"
  BY <1>2, <1>3, <1>5
<1> QED BY <1>4, <1>5

LEMMA JournaledInit == Init => Journaled
<1> SUFFICES ASSUME Init PROVE Journaled
  OBVIOUS
<1>1. Own(<<>>) = {} /\ Cardinality({}) = 0
  BY FS_EmptySet DEF Own
<1>2. CASE agent = [a \in Agents |-> "absent"] /\ steps = [a \in Agents |-> 0]
           /\ journal = <<>>
  BY <1>1, <1>2 DEF Journaled, Agents
<1>3. ASSUME NEW st \in (Live \ {"unlinked"}) \cup {"gone"}, NEW n \in 0 .. MaxSteps,
             n = 0 => st \notin {"recording", "appending", "failing"},
             steps = [me |-> 0, parent |-> n],
             LeftBy("parent", st, n),
             NEW now \in {st, "dead"}, agent = [me |-> "absent", parent |-> now]
      PROVE  Journaled
  <2>1. \A i \in DOMAIN journal : journal[i].by = "parent"
    BY <1>3, JournalsType, InBoxAgentAssumption DEF LeftBy, Agents
  <2>2. Own(journal) = {}
    BY <2>1 DEF Own
  <2> QED BY <1>1, <1>3, <2>2 DEF Journaled
<1> QED BY <1>2, <1>3 DEF Init

LEMMA JournaledStep == TypeOK /\ Journaled /\ [Next]_vars => Journaled'
<1> SUFFICES ASSUME TypeOK, Journaled, [Next]_vars PROVE Journaled'
  OBVIOUS
<1> USE DEF Journaled, launcher, files
<1>a. "me" \in Agents
  BY DEF Agents
<1>1. CASE Clear
  <2>1. Own(journal') = {} /\ Cardinality({}) = 0
    BY <1>1, FS_EmptySet DEF Clear, Own
  <2> QED BY <1>1, <1>a, <2>1 DEF Clear, TypeOK
<1>2. CASE WriteJob \/ DoneSeen \/ GiveUp \/ ReadTrajectory \/ Salvage
  BY <1>2 DEF WriteJob, DoneSeen, GiveUp, ReadTrajectory, Salvage
<1>3. CASE Start
  BY <1>3, <1>a DEF Start, TypeOK
<1>4. CASE BoxFails \/ Cancel \/ TimePasses
  BY <1>4 DEF BoxFails, Cancel, TimePasses
<1>5. ASSUME NEW a \in Agents, Record(a) PROVE Journaled'
  <2>1. steps'["me"] = steps["me"] + IF a = "me" THEN 1 ELSE 0
    BY <1>5, <1>a, InBoxAgentAssumption DEF Record, TypeOK
  <2>2. /\ pc' = pc /\ journal' = journal /\ steps["me"] \in Nat
        /\ agent'["me"] = IF a = "me" THEN "recording" ELSE agent["me"]
        /\ a = "me" => agent["me"] = "thinking"
    BY <1>5, <1>a, InBoxAgentAssumption DEF Record, TypeOK
  <2> QED BY <2>1, <2>2
<1>9. ASSUME NEW a \in Agents, Journal(a) PROVE Journaled'
  <2>1. PICK whole \in BOOLEAN :
          /\ journal' = Append(journal, [by |-> a, whole |-> whole])
          /\ agent' = [agent EXCEPT ![a] = IF whole THEN "thinking" ELSE "appending"]
    BY <1>9 DEF Journal
  <2>2. Cardinality(Own(journal'))
          = Cardinality(Own(journal)) + IF a = "me" THEN 1 ELSE 0
    BY <2>1, OwnAppended DEF TypeOK, Line
  <2>3. /\ pc' = pc /\ steps' = steps /\ steps["me"] \in Nat
        /\ a # "me" => agent'["me"] = agent["me"]
        /\ a = "me" => agent["me"] = "recording" /\ agent'["me"] \in {"thinking", "appending"}
    BY <1>9, <1>a, <2>1, InBoxAgentAssumption DEF Journal, TypeOK
  <2>4. CASE a = "me"
    <3>1. Cardinality(Own(journal')) = steps["me"]
      BY <2>2, <2>3, <2>4
    <3> QED BY <2>3, <2>4, <3>1
  <2>5. CASE a # "me"
    <3>1. Cardinality(Own(journal)) \in Int
      BY <2>3
    <3>2. Cardinality(Own(journal')) = Cardinality(Own(journal))
      BY <2>2, <2>5, <3>1
    <3> QED BY <2>3, <2>5, <3>2
  <2> QED BY <2>4, <2>5
<1>10. ASSUME NEW a \in Agents, WriteRaises(a) PROVE Journaled'
  BY <1>10, <1>a DEF WriteRaises, TypeOK
<1>6. ASSUME NEW a \in Agents, Recorded(a) PROVE Journaled'
  <2>1. DOMAIN journal' = DOMAIN journal
        /\ \A i \in DOMAIN journal : journal'[i].by = journal[i].by
    BY <1>6 DEF Recorded, TypeOK, Line
  <2>2. Own(journal') = Own(journal)
    BY <2>1 DEF Own
  <2> QED BY <1>6, <1>a, <2>2 DEF Recorded, TypeOK
<1>7. ASSUME NEW a \in Agents, Finish(a) \/ WriteTrajectory(a) \/ Sign(a) \/ Dies(a)
      PROVE  Journaled'
  BY <1>7, <1>a DEF Finish, WriteTrajectory, Sign, Dies, TypeOK, Live
<1>8. CASE UNCHANGED vars
  BY <1>8 DEF vars
<1> QED BY <1>1, <1>2, <1>3, <1>4, <1>5, <1>6, <1>7, <1>8, <1>9, <1>10 DEF Next, Launching, Working

\* Whoever writes to the journal, and whenever the launcher gives up: what it salvages has
\* all the steps of its own agent, or all but the last while that is being written down, or
\* the journal has a torn line.
THEOREM EvidenceKept == Spec => EvidenceSurvives
<1> DEFINE salvaged == Cardinality(Own(result'.lines))
<1>1. ASSUME Journaled, [Next]_vars, pc' = "salvaged", pc # "salvaged", ~Torn(journal)
      PROVE  /\ salvaged \in {steps["me"] - 1, steps["me"]}
             /\ agent["me"] = "thinking" => salvaged = steps["me"]
  <2>1. Salvage
    BY <1>1 DEF Next, Launching, Clear, WriteJob, Start, DoneSeen, GiveUp, ReadTrajectory,
                BoxFails, Cancel, TimePasses, Working, Record, Journal, Recorded, WriteRaises,
                Finish, WriteTrajectory, Sign, Dies, vars, launcher
  <2>2. result'.lines = journal
    BY <1>1, <2>1 DEF Salvage
  <2> QED BY <1>1, <2>2 DEF Journaled
<1> QED BY <1>1, TypeInit, TypeStep, JournaledInit, JournaledStep, PTL
        DEF Spec, EvidenceSurvives

-----------------------------------------------------------------------------
LEMMA JournaledInvariant == Spec => []Journaled
BY TypeInit, TypeStep, JournaledInit, JournaledStep, PTL DEF Spec

\* What a launch and the agents of its box have left: the calls that launch() still awaits, the
\* deadline, and for each agent three transitions a step, its line being written in two halves,
\* and its way through the trajectory to DONE.
Stage(a) ==
  CASE agent[a] = "recording" -> 5 [] agent[a] = "appending" -> 4
    [] agent[a] \in {"absent", "thinking", "failing"} -> 3
    [] agent[a] \in {"writing", "unlinked"} -> 2 [] agent[a] = "signing" -> 1
    [] agent[a] \in {"gone", "dead"} -> 0
AgentLeft(a) == 3 * (MaxSteps - steps[a]) + Stage(a)
Awaited ==
  CASE pc = "clear" -> 6 [] pc = "job" -> 5 [] pc = "start" -> 4 [] pc = "poll" -> 3
    [] pc \in {"read", "salvage"} -> 2 [] pc \in Ended -> 0
ClockLeft == IF late THEN 0 ELSE 1
LaunchLeft == Awaited + ClockLeft + AgentLeft("me") + AgentLeft("parent")

LEMMA StageIs ==
  ASSUME NEW a
  PROVE  /\ agent[a] = "recording" => Stage(a) = 5
         /\ agent[a] = "appending" => Stage(a) = 4
         /\ agent[a] \in {"absent", "thinking", "failing"} => Stage(a) = 3
         /\ agent[a] \in {"writing", "unlinked"} => Stage(a) = 2
         /\ agent[a] = "signing" => Stage(a) = 1
         /\ agent[a] \in {"gone", "dead"} => Stage(a) = 0
  BY DEF Stage

LEMMA StageIsNext ==
  ASSUME NEW a
  PROVE  /\ agent'[a] = "recording" => Stage(a)' = 5
         /\ agent'[a] = "appending" => Stage(a)' = 4
         /\ agent'[a] \in {"absent", "thinking", "failing"} => Stage(a)' = 3
         /\ agent'[a] \in {"writing", "unlinked"} => Stage(a)' = 2
         /\ agent'[a] = "signing" => Stage(a)' = 1
         /\ agent'[a] \in {"gone", "dead"} => Stage(a)' = 0
  BY DEF Stage

LEMMA AwaitedIs ==
  /\ pc = "clear" => Awaited = 6
  /\ pc = "job" => Awaited = 5
  /\ pc = "start" => Awaited = 4
  /\ pc = "poll" => Awaited = 3
  /\ pc \in {"read", "salvage"} => Awaited = 2
  /\ pc \in Ended => Awaited = 0
  BY DEF Awaited, Ended, Returned

LEMMA AwaitedIsNext ==
  /\ pc' = "clear" => Awaited' = 6
  /\ pc' = "job" => Awaited' = 5
  /\ pc' = "start" => Awaited' = 4
  /\ pc' = "poll" => Awaited' = 3
  /\ pc' \in {"read", "salvage"} => Awaited' = 2
  /\ pc' \in Ended => Awaited' = 0
  BY DEF Awaited, Ended, Returned

LEMMA AgentLeftIs ==
  ASSUME TypeOK, NEW a \in Agents
  PROVE  AgentLeft(a) \in Nat /\ AgentLeft(a) <= 3 * MaxSteps + 5
<1>1. steps[a] \in 0 .. MaxSteps /\ MaxSteps \in Nat
  BY InBoxAgentAssumption DEF TypeOK
<1>2. Stage(a) \in 0 .. 5
  <2>1. agent[a] \in Live \cup {"absent", "gone", "dead"}
    BY DEF TypeOK
  <2> QED BY <2>1, StageIs DEF Live
<1> QED BY <1>1, <1>2 DEF AgentLeft

LEMMA AgentLeftIsNext ==
  ASSUME TypeOK', NEW a \in Agents
  PROVE  AgentLeft(a)' \in Nat
<1>1. steps'[a] \in 0 .. MaxSteps /\ MaxSteps \in Nat
  BY InBoxAgentAssumption DEF TypeOK
<1>2. Stage(a)' \in 0 .. 5
  <2>1. agent'[a] \in Live \cup {"absent", "gone", "dead"}
    BY DEF TypeOK
  <2> QED BY <2>1, StageIsNext DEF Live
<1> QED BY <1>1, <1>2 DEF AgentLeft

\* A call of launch() leaves every agent as much as it had: the rm takes the name of a file
\* away, and an agent that is started has its whole way before it, as it had when it was absent.
LEMMA LauncherKeeps ==
  ASSUME TypeOK, Journaled, Launching \/ BoxFails \/ Cancel, NEW a \in Agents
  PROVE  AgentLeft(a)' = AgentLeft(a) /\ late' = late
<1>1. steps' = steps /\ late' = late
  BY DEF Launching, Clear, WriteJob, Start, DoneSeen, GiveUp, ReadTrajectory, Salvage, BoxFails,
         Cancel, files, launcher
<1>2. \/ agent'[a] = agent[a]
      \/ agent[a] = "writing" /\ agent'[a] = "unlinked"
      \/ agent[a] = "absent" /\ agent'[a] = "thinking"
  <2>1. CASE Clear
    BY <2>1 DEF Clear, TypeOK
  <2>2. CASE Start
    BY <2>2 DEF Start, TypeOK, Journaled
  <2>3. CASE ~Clear /\ ~Start
    BY <2>3 DEF Launching, WriteJob, DoneSeen, GiveUp, ReadTrajectory, Salvage, BoxFails, Cancel
  <2> QED BY <2>1, <2>2, <2>3
<1>3. Stage(a)' = Stage(a)
  <2>1. CASE agent'[a] = agent[a]
    BY <2>1 DEF Stage
  <2> QED BY <1>2, <2>1, StageIs, StageIsNext
<1> QED BY <1>1, <1>3 DEF AgentLeft

\* A step of an agent's program leaves that agent less, and the other as much.
LEMMA WorkingLess ==
  ASSUME TypeOK, NEW a \in Agents, Working(a)
  PROVE  /\ AgentLeft(a)' \in Int /\ AgentLeft(a)' < AgentLeft(a)
         /\ \A b \in Agents : b # a => AgentLeft(b)' = AgentLeft(b)
         /\ UNCHANGED launcher
<1> DEFINE n == steps[a]
<1>1. n \in 0 .. MaxSteps /\ MaxSteps \in Nat /\ steps' \in [Agents -> Int]
      /\ agent[a] \in Live
  BY InBoxAgentAssumption DEF TypeOK, Working, Record, Journal, Recorded, WriteRaises, Finish,
                              WriteTrajectory, Sign, Dies, Live
<1>2. AgentLeft(a) = 3 * (MaxSteps - n) + Stage(a)
      /\ AgentLeft(a)' = 3 * (MaxSteps - steps'[a]) + Stage(a)'
  BY DEF AgentLeft
<1>3. /\ \A b \in Agents : b # a => agent'[b] = agent[b] /\ steps'[b] = steps[b]
      /\ UNCHANGED launcher
  BY DEF Working, Record, Journal, Recorded, WriteRaises, Finish, WriteTrajectory, Sign, Dies,
         TypeOK, launcher
<1>4. ASSUME NEW b \in Agents, b # a PROVE AgentLeft(b)' = AgentLeft(b)
  BY <1>3, <1>4 DEF AgentLeft, Stage
<1>5. \/ agent[a] = "thinking" /\ steps'[a] = n + 1 /\ agent'[a] = "recording"
      \/ /\ steps'[a] = n
         /\ \/ agent[a] = "recording" /\ agent'[a] = "appending"
            \/ /\ agent[a] \in {"recording", "appending"}
               /\ agent'[a] \in {"thinking", "failing"}
            \/ agent[a] \in {"thinking", "failing"} /\ agent'[a] = "writing"
            \/ agent[a] \in {"writing", "unlinked"} /\ agent'[a] = "signing"
            \/ agent[a] = "signing" /\ agent'[a] = "gone"
            \/ agent'[a] = "dead"
  BY DEF Working, Record, Journal, Recorded, WriteRaises, Finish, WriteTrajectory, Sign, Dies,
         TypeOK
<1>6. AgentLeft(a)' \in Int /\ AgentLeft(a)' < AgentLeft(a)
  <2> HIDE DEF n
  <2>1. CASE agent[a] = "thinking" /\ steps'[a] = n + 1 /\ agent'[a] = "recording"
    BY <1>1, <1>2, <2>1, StageIs, StageIsNext
  <2>2. CASE steps'[a] = n /\ agent'[a] # "dead"
    BY <1>1, <1>2, <1>5, <2>2, StageIs, StageIsNext
  <2>3. CASE steps'[a] = n /\ agent'[a] = "dead"
    <3>1. Stage(a) \in 1 .. 5 /\ Stage(a)' = 0
      BY <1>1, <2>3, StageIs, StageIsNext DEF Live
    <3> QED BY <1>1, <1>2, <2>3, <3>1
  <2> QED BY <1>5, <2>1, <2>2, <2>3
<1> QED BY <1>3, <1>4, <1>6

\* Whatever the agents do, and whatever is lost or cancelled: every transition of a launch and of
\* the agents in its box brings their end nearer, and after 6 * MaxSteps + 17 of them nothing moves
\* there any more.  This is the bounded core of EveryLaunchEnds.
THEOREM LaunchIsBounded ==
  Spec => [][/\ LaunchLeft' \in Nat /\ LaunchLeft' < LaunchLeft
             /\ LaunchLeft <= 6 * MaxSteps + 17]_vars
<1> DEFINE Nearer == LaunchLeft' \in Nat /\ LaunchLeft' < LaunchLeft
                     /\ LaunchLeft <= 6 * MaxSteps + 17
<1>a. "me" \in Agents /\ "parent" \in Agents /\ \A a \in Agents : a = "me" \/ a = "parent"
  BY DEF Agents
<1>1. ASSUME TypeOK, Journaled, TypeOK', Next PROVE Nearer
  <2>1. /\ AgentLeft("me") \in Nat /\ AgentLeft("me") <= 3 * MaxSteps + 5
        /\ AgentLeft("parent") \in Nat /\ AgentLeft("parent") <= 3 * MaxSteps + 5
        /\ AgentLeft("me")' \in Nat /\ AgentLeft("parent")' \in Nat /\ MaxSteps \in Nat
    BY <1>1, <1>a, AgentLeftIs, AgentLeftIsNext, InBoxAgentAssumption
  <2>2. /\ LaunchLeft = Awaited + ClockLeft + AgentLeft("me") + AgentLeft("parent")
        /\ LaunchLeft' = Awaited' + ClockLeft' + AgentLeft("me")' + AgentLeft("parent")'
    BY DEF LaunchLeft
  <2>3. /\ Awaited \in 0 .. 6 /\ Awaited' \in 0 .. 6
        /\ ClockLeft \in 0 .. 1 /\ ClockLeft' \in 0 .. 1
    BY <1>1, AwaitedIs, AwaitedIsNext DEF TypeOK, ClockLeft
  <2>4. CASE \E a \in Agents : Working(a)
    <3>1. PICK a \in Agents : Working(a)
      BY <2>4
    <3>2. /\ AgentLeft(a)' < AgentLeft(a)
          /\ \A b \in Agents : b # a => AgentLeft(b)' = AgentLeft(b)
          /\ UNCHANGED launcher
      BY <1>1, <3>1, WorkingLess
    <3>3. Awaited' = Awaited /\ ClockLeft' = ClockLeft
      BY <3>2 DEF launcher, Awaited, ClockLeft
    <3>4. \/ AgentLeft("me")' < AgentLeft("me") /\ AgentLeft("parent")' = AgentLeft("parent")
          \/ AgentLeft("me")' = AgentLeft("me") /\ AgentLeft("parent")' < AgentLeft("parent")
      BY <1>a, <3>2
    <3>5. AgentLeft("me")' + AgentLeft("parent")' < AgentLeft("me") + AgentLeft("parent")
      BY <2>1, <3>4
    <3> QED BY <2>1, <2>2, <2>3, <3>3, <3>5
  <2>5. CASE Launching \/ BoxFails \/ Cancel
    <3>1. /\ AgentLeft("me")' = AgentLeft("me") /\ AgentLeft("parent")' = AgentLeft("parent")
          /\ ClockLeft' = ClockLeft
      BY <1>1, <1>a, <2>5, LauncherKeeps DEF ClockLeft
    <3>2. Awaited' < Awaited
      <4>1. \/ pc = "clear" /\ pc' = "job"
            \/ pc = "job" /\ pc' = "start"
            \/ pc = "start" /\ pc' = "poll"
            \/ pc = "poll" /\ pc' \in {"read", "salvage"}
            \/ pc \notin Ended /\ pc' \in Ended
        BY <2>5 DEF Launching, Clear, WriteJob, Start, DoneSeen, GiveUp, ReadTrajectory,
                    Salvage, BoxFails, Cancel, Ended, Returned
      <4>2. pc \in {"clear", "job", "start", "poll", "read", "salvage"} \cup Ended
        BY <1>1 DEF TypeOK
      <4> QED BY <4>1, <4>2, AwaitedIs, AwaitedIsNext
    <3> QED BY <2>1, <2>2, <2>3, <3>1, <3>2
  <2>6. CASE TimePasses
    <3>1. /\ AgentLeft("me")' = AgentLeft("me") /\ AgentLeft("parent")' = AgentLeft("parent")
          /\ Awaited' = Awaited /\ ClockLeft' < ClockLeft
      BY <1>1, <2>6 DEF TimePasses, AgentLeft, Stage, Awaited, ClockLeft, files
    <3> QED BY <2>1, <2>2, <2>3, <3>1
  <2> QED BY <1>1, <2>4, <2>5, <2>6 DEF Next
<1>2. TypeOK /\ Journaled /\ TypeOK' /\ [Next]_vars => [Nearer]_vars
  BY <1>1
<1> QED BY <1>2, TypeCorrect, JournaledInvariant, PTL DEF Spec

-----------------------------------------------------------------------------
(* The loop that the agent of a box runs. *)

Last(s) == s[Len(s)]

\* What the loop leaves of its budget: a reply that is awaited, or a command
\* that runs, still has its step.  Only a run without a budget records a step beyond it.
Within ==
  /\ where \in {"asked", "shell"} => Len(recorded) < budget
  /\ where \in {"loop", "over"} => Len(recorded) <= budget
  /\ where = "over" /\ recorded = <<>> => budget = 0
  /\ where = "raised" => Len(recorded) <= budget \/ budget = 0

\* Only a finish ends with an answer, and nothing is recorded after it.
Undecided ==
  /\ answer = "none" /\ signal = FALSE
  /\ \A i \in DOMAIN recorded : recorded[i].action # "finish"

Finished ==
  /\ answer # "none" /\ error = "none"
  /\ recorded # <<>> /\ Last(recorded).action = "finish"

Deciding ==
  /\ where \in {"loop", "asked", "shell"} => Undecided /\ error = "none"
  /\ where = "over" => Undecided \/ Finished

\* The conversation so far alternates, and whose turn it is follows from where.
Alternating(s) == \A i \in 1 .. Len(s) - 1 : MayFollow(s[i], s[i + 1])

Turned ==
  /\ messages # <<>> /\ Alternating(messages)
  /\ where \in {"loop", "asked"} => Last(messages).role # "assistant"
  /\ where = "shell" => Last(messages) = Assistant(TRUE)

LoopInv == BranchTypeOK /\ Within /\ Deciding /\ Turned /\ EndIsExplained

-----------------------------------------------------------------------------
\* Appending to a sequence: its length, its last element and the others.
LEMMA Appended ==
  ASSUME NEW S, NEW s \in Seq(S), NEW e \in S
  PROVE  /\ Append(s, e) \in Seq(S)
         /\ Append(s, e) # <<>>
         /\ Len(Append(s, e)) = Len(s) + 1
         /\ Last(Append(s, e)) = e
         /\ \A i \in 1 .. Len(s) : Append(s, e)[i] = s[i]
  BY DEF Last

\* A conversation that alternates still does with a turn that may follow.
LEMMA TurnTaken ==
  ASSUME NEW s \in Seq(Turns), NEW t \in Turns, Alternating(s),
         s # <<>> => MayFollow(Last(s), t)
  PROVE  /\ Append(s, t) \in Seq(Turns)
         /\ Append(s, t) # <<>>
         /\ Alternating(Append(s, t))
         /\ Last(Append(s, t)) = t
<1> DEFINE a == Append(s, t)
<1>1. /\ a \in Seq(Turns) /\ a # <<>> /\ Len(a) = Len(s) + 1 /\ Last(a) = t
      /\ \A i \in 1 .. Len(s) : a[i] = s[i]
  BY Appended
<1>2. ASSUME NEW i \in 1 .. Len(a) - 1
      PROVE  MayFollow(a[i], a[i + 1])
  <2>1. Len(s) \in Nat /\ i \in 1 .. Len(s)
    BY <1>1
  <2>2. CASE i = Len(s)
    <3>1. s # <<>> /\ a[i] = Last(s) /\ a[i + 1] = t
      BY <1>1, <2>1, <2>2 DEF Last
    <3> QED BY <3>1
  <2>3. CASE i # Len(s)
    <3>1. i \in 1 .. Len(s) - 1 /\ a[i] = s[i] /\ a[i + 1] = s[i + 1]
      BY <1>1, <2>1, <2>3
    <3> QED BY <3>1 DEF Alternating
  <2> QED BY <2>2, <2>3
<1> HIDE DEF a
<1> QED BY <1>1, <1>2 DEF Alternating, a

LEMMA TurnTypes ==
  /\ User \in Turns
  /\ \A c \in BOOLEAN : Assistant(c) \in Turns
  /\ \A n \in 0 .. MaxBudget : Result(n) \in Turns
  BY BranchAgentAssumption DEF User, Assistant, Result, Turn, Turns

\* A reply to a request, and the turn that answers the reply.
LEMMA Exchange ==
  ASSUME NEW s \in Seq(Turns), s # <<>>, Alternating(s), Last(s).role # "assistant",
         NEW c \in BOOLEAN, NEW t \in Turns,
         t.role = IF c THEN "tool" ELSE "user"
  PROVE  LET both == s \o <<Assistant(c), t>>
         IN  /\ both \in Seq(Turns) /\ both # <<>>
             /\ Alternating(both) /\ Last(both).role # "assistant"
<1> DEFINE a == Append(s, Assistant(c))
           b == Append(a, t)
<1>1. Assistant(c) \in Turns
  BY TurnTypes
<1>2. MayFollow(Last(s), Assistant(c))
  BY DEF MayFollow, Assistant, Turn
<1>3. a \in Seq(Turns) /\ a # <<>> /\ Alternating(a) /\ Last(a) = Assistant(c)
  BY <1>1, <1>2, TurnTaken
<1>4. MayFollow(Last(a), t)
  BY <1>3 DEF MayFollow, Assistant, Turn
<1>5. b \in Seq(Turns) /\ b # <<>> /\ Alternating(b) /\ Last(b) = t
  <2> HIDE DEF a
  <2> QED BY <1>3, <1>4, TurnTaken
<1>6. b = s \o <<Assistant(c), t>>
  BY <1>1
<1>7. Last(b).role # "assistant"
  BY <1>5
<1> QED BY <1>5, <1>6, <1>7

\* A step recorded before the loop is decided.
LEMMA StepTaken ==
  ASSUME BranchTypeOK, NEW action \in Actions, NEW res \in {"ok", "error", "abandoned"},
         RecordStep(action, res)
  PROVE  /\ recorded' \in Seq(Steps) /\ recorded' # <<>>
         /\ Len(recorded') = Len(recorded) + 1
         /\ Last(recorded').action = action
         /\ Undecided /\ action # "finish" =>
              \A i \in DOMAIN recorded' : recorded'[i].action # "finish"
<1>1. Step(action, res) \in Steps /\ Step(action, res).action = action
  BY DEF Step, Steps
<1>2. recorded \in Seq(Steps) /\ recorded' = Append(recorded, Step(action, res))
  BY DEF BranchTypeOK, RecordStep
<1>3. /\ recorded' \in Seq(Steps) /\ recorded' # <<>> /\ Len(recorded') = Len(recorded) + 1
      /\ Last(recorded') = Step(action, res)
      /\ \A i \in 1 .. Len(recorded) : recorded'[i] = recorded[i]
  BY <1>1, <1>2, Appended
<1>4. ASSUME Undecided, action # "finish", NEW i \in DOMAIN recorded'
      PROVE  recorded'[i].action # "finish"
  <2>1. Len(recorded) \in Nat /\ i \in 1 .. Len(recorded) + 1
    BY <1>2, <1>3
  <2>2. CASE i = Len(recorded) + 1
    BY <1>1, <1>3, <1>4, <2>2 DEF Last
  <2>3. CASE i \in 1 .. Len(recorded)
    BY <1>2, <1>3, <1>4, <2>3 DEF Undecided
  <2> QED BY <2>1, <2>2, <2>3
<1> QED BY <1>1, <1>3, <1>4

-----------------------------------------------------------------------------
LEMMA LoopInit == BranchInit => LoopInv
<1> SUFFICES ASSUME BranchInit PROVE LoopInv
  OBVIOUS
<1>1. User \in Turns /\ User.role = "user"
  BY TurnTypes DEF User, Turn
<1>2. /\ messages \in Seq(Turns) /\ messages # <<>> /\ Len(messages) = 1
      /\ Last(messages) = User
  BY <1>1 DEF BranchInit, Last
<1>3. BranchTypeOK
  <2>1. <<>> \in Seq(Steps)
    OBVIOUS
  <2>2. NoReport \in Report
    BY <2>1 DEF NoReport, Report, Answers, Errors
  <2> QED BY <1>2, <2>1, <2>2 DEF BranchInit, BranchTypeOK, Answers, Errors
<1>4. Within
  BY BranchAgentAssumption DEF BranchInit, Within
<1>5. Deciding
  BY DEF BranchInit, Deciding, Undecided
<1>6. Turned
  BY <1>1, <1>2 DEF BranchInit, Turned, Alternating
<1> QED BY <1>3, <1>4, <1>5, <1>6 DEF LoopInv, EndIsExplained, BranchInit

\* The steps of the loop up to its end: what a step does to the steps and to
\* the conversation decides it.
LEMMA LoopStep ==
  ASSUME LoopInv, where' # "reported",
         UNCHANGED <<budget, report>>,
         BranchTypeOK', Within', Deciding', Turned'
  PROVE  LoopInv'
  BY DEF LoopInv, EndIsExplained

\* A reply, or a command that ended, brings the loop back to its head with
\* one step more and the turn with the user or a result.
LEMMA Again ==
  ASSUME LoopInv, where \in {"asked", "shell"}, where' = "loop",
         UNCHANGED <<budget, overdue, outcome, report>>,
         NEW action \in Actions \ {"finish"}, NEW res \in {"ok", "error", "abandoned"},
         RecordStep(action, res),
         messages' \in Seq(Turns), messages' # <<>>,
         Alternating(messages'), Last(messages').role # "assistant"
  PROVE  LoopInv'
<1>1. /\ recorded' \in Seq(Steps) /\ Len(recorded') = Len(recorded) + 1
      /\ Undecided => \A i \in DOMAIN recorded' : recorded'[i].action # "finish"
  BY StepTaken DEF LoopInv
<1>2. BranchTypeOK'
  BY <1>1 DEF LoopInv, BranchTypeOK, outcome
<1>3. Within'
  BY <1>1 DEF LoopInv, Within, BranchTypeOK
<1>4. Deciding'
  BY <1>1 DEF LoopInv, Deciding, Undecided, outcome
<1>5. Turned'
  BY DEF Turned
<1> QED BY <1>2, <1>3, <1>4, <1>5, LoopStep

\* The loop is over with one step more and the conversation as it was.
LEMMA OverWithError ==
  ASSUME LoopInv, where \in {"loop", "asked"}, Len(recorded) < budget, where' = "over",
         UNCHANGED <<budget, overdue, messages, answer, signal, report>>,
         error' \in Errors,
         NEW action \in Actions \ {"finish"}, NEW res \in {"ok", "error", "abandoned"},
         RecordStep(action, res)
  PROVE  LoopInv'
<1>1. /\ recorded' \in Seq(Steps) /\ Len(recorded') = Len(recorded) + 1
      /\ Undecided => \A i \in DOMAIN recorded' : recorded'[i].action # "finish"
  BY StepTaken DEF LoopInv
<1>2. BranchTypeOK'
  BY <1>1 DEF LoopInv, BranchTypeOK
<1>3. Within'
  BY <1>1 DEF LoopInv, Within, BranchTypeOK
<1>4. Deciding'
  BY <1>1 DEF LoopInv, Deciding, Undecided
<1>5. Turned'
  BY DEF LoopInv, Turned
<1> QED BY <1>2, <1>3, <1>4, <1>5, LoopStep

\* The result of a call carried out at once.
LEMMA AnsweredAgain ==
  ASSUME LoopInv, where = "asked", where' = "loop",
         UNCHANGED <<budget, overdue, outcome, report>>,
         NEW action \in Actions \ {"finish"}, NEW res \in {"ok", "error", "abandoned"},
         AnsweredCall(action, res)
  PROVE  LoopInv'
<1>1. RecordStep(action, res) /\ Len(recorded') = Len(recorded) + 1
  BY StepTaken DEF LoopInv, AnsweredCall
<1>2. budget - Len(recorded') \in 0 .. MaxBudget
  BY <1>1, BranchAgentAssumption DEF LoopInv, Within, BranchTypeOK
<1>3. /\ Result(budget - Len(recorded')) \in Turns
      /\ Result(budget - Len(recorded')).role = "tool"
  BY <1>2, TurnTypes DEF Result, Turn
<1>4. /\ messages \in Seq(Turns) /\ messages # <<>> /\ Alternating(messages)
      /\ Last(messages).role # "assistant"
  BY DEF LoopInv, BranchTypeOK, Turned
<1>5. messages' = messages \o <<Assistant(TRUE), Result(budget - Len(recorded'))>>
  BY DEF AnsweredCall
<1>6. /\ messages' \in Seq(Turns) /\ messages' # <<>>
      /\ Alternating(messages') /\ Last(messages').role # "assistant"
  BY <1>3, <1>4, <1>5, Exchange
<1> QED BY <1>1, <1>6, Again

-----------------------------------------------------------------------------
LEMMA LoopNextKeeps == LoopInv /\ [BranchNext]_branch => LoopInv'
<1> SUFFICES ASSUME LoopInv, [BranchNext]_branch PROVE LoopInv'
  OBVIOUS
<1>0. BranchTypeOK /\ Within /\ Deciding /\ Turned /\ EndIsExplained
  BY DEF LoopInv
<1>1. CASE Ask
  <2> USE <1>0, <1>1 DEF Ask
  <2>1. BranchTypeOK' BY DEF BranchTypeOK, outcome
  <2>2. Within' BY DEF Within
  <2>3. Deciding' BY DEF Deciding, Undecided, outcome
  <2>4. Turned' BY DEF Turned
  <2> QED BY <2>1, <2>2, <2>3, <2>4, LoopStep
<1>2. CASE OutOfTime
  BY <1>2, OverWithError DEF OutOfTime, Actions, Errors
<1>3. CASE OutOfSteps
  <2> USE <1>0, <1>3 DEF OutOfSteps
  <2>1. BranchTypeOK' BY DEF BranchTypeOK, outcome
  <2>2. Within' BY BranchAgentAssumption DEF Within, BranchTypeOK
  <2>3. Deciding' BY DEF Deciding, Undecided, outcome
  <2>4. Turned' BY DEF Turned
  <2> QED BY <2>1, <2>2, <2>3, <2>4, LoopStep
<1>4. CASE TransportFails
  <2>1. Len(recorded) < budget
    BY <1>0, <1>4 DEF TransportFails, Within
  <2> QED BY <1>4, <2>1, OverWithError DEF TransportFails, Actions, Errors
<1>5. CASE Malformed
  <2> USE <1>0, <1>5 DEF Malformed
  <2>1. BranchTypeOK' BY DEF BranchTypeOK, outcome
  <2>2. Within' BY BranchAgentAssumption DEF Within, BranchTypeOK
  <2>3. Deciding' BY DEF Deciding, Undecided, outcome
  <2>4. Turned' BY DEF Turned
  <2> QED BY <2>1, <2>2, <2>3, <2>4, LoopStep
<1>6. CASE Silent
  <2>1. /\ messages \in Seq(Turns) /\ messages # <<>> /\ Alternating(messages)
        /\ Last(messages).role # "assistant"
    BY <1>0, <1>6 DEF BranchTypeOK, Turned, Silent
  <2>2. User \in Turns /\ User.role = "user"
    BY TurnTypes DEF User, Turn
  <2>3. messages' = messages \o <<Assistant(FALSE), User>>
    BY <1>6 DEF Silent
  <2>4. /\ messages' \in Seq(Turns) /\ messages' # <<>>
        /\ Alternating(messages') /\ Last(messages').role # "assistant"
    BY <2>1, <2>2, <2>3, Exchange
  <2>5. RecordStep("call_model", "abandoned") /\ "call_model" \in Actions \ {"finish"}
    BY <1>6 DEF Silent, Actions
  <2> QED BY <1>6, <2>4, <2>5, Again DEF Silent
<1>7. CASE FinishCalled
  <2>1. RecordStep("finish", "ok") /\ "finish" \in Actions
    BY <1>7 DEF FinishCalled, Actions
  <2>2. /\ recorded' \in Seq(Steps) /\ recorded' # <<>> /\ Len(recorded') = Len(recorded) + 1
        /\ Last(recorded').action = "finish"
    BY <1>0, <2>1, StepTaken
  <2>3. Assistant(TRUE) \in Turns /\ Assistant(TRUE).role = "assistant"
    BY TurnTypes DEF Assistant, Turn
  <2>4. messages \in Seq(Turns) /\ messages # <<>> /\ Alternating(messages)
        /\ MayFollow(Last(messages), Assistant(TRUE))
    BY <1>0, <1>7, <2>3 DEF BranchTypeOK, Turned, FinishCalled, MayFollow
  <2>5. messages' \in Seq(Turns) /\ messages' # <<>> /\ Alternating(messages')
    BY <1>7, <2>3, <2>4, TurnTaken DEF FinishCalled
  <2>6. BranchTypeOK'
    BY <1>0, <1>7, <2>2, <2>5 DEF BranchTypeOK, FinishCalled, Answers
  <2>7. Within'
    BY <1>0, <1>7, <2>2 DEF BranchTypeOK, Within, FinishCalled
  <2>8. Deciding'
    BY <1>0, <1>7, <2>2 DEF Deciding, Finished, FinishCalled
  <2>9. Turned'
    BY <1>7, <2>5 DEF Turned, FinishCalled
  <2> QED BY <1>7, <2>6, <2>7, <2>8, <2>9, LoopStep DEF FinishCalled
<1>8. CASE Misuse
  BY <1>8, AnsweredAgain DEF Misuse, Actions
<1>9. CASE Note
  <2>1. PICK abandoning \in BOOLEAN :
          AnsweredCall("note", IF abandoning THEN "abandoned" ELSE "ok")
    BY <1>9 DEF Note
  <2> QED BY <1>9, <2>1, AnsweredAgain DEF Note, Actions
<1>10. CASE NotRun
  BY <1>10, AnsweredAgain DEF NotRun, Actions
<1>11. CASE Run
  <2>1. Assistant(TRUE) \in Turns
    BY TurnTypes
  <2>2. messages \in Seq(Turns) /\ messages # <<>> /\ Alternating(messages)
        /\ MayFollow(Last(messages), Assistant(TRUE))
    BY <1>0, <1>11
       DEF BranchTypeOK, Turned, Run, MayFollow, Assistant, Turn
  <2>3. /\ messages' \in Seq(Turns) /\ messages' # <<>> /\ Alternating(messages')
        /\ Last(messages') = Assistant(TRUE)
    BY <1>11, <2>1, <2>2, TurnTaken DEF Run
  <2>4. BranchTypeOK'
    BY <1>0, <1>11, <2>3 DEF BranchTypeOK, Run, outcome
  <2>5. Within'
    BY <1>0, <1>11 DEF Within, Run
  <2>6. Deciding'
    BY <1>0, <1>11 DEF Deciding, Undecided, Run, outcome
  <2>7. Turned'
    BY <1>11, <2>3 DEF Turned, Run
  <2> QED BY <1>11, <2>4, <2>5, <2>6, <2>7, LoopStep DEF Run
<1>12. CASE Exits
  <2>1. PICK res \in {"ok", "error"} : RecordStep("run", res)
    BY <1>12 DEF Exits
  <2>2. "run" \in Actions \ {"finish"}
    BY DEF Actions
  <2>3. Len(recorded') = Len(recorded) + 1
    BY <1>0, <2>1, <2>2, StepTaken
  <2>4. budget - Len(recorded') \in 0 .. MaxBudget
    BY <1>0, <1>12, <2>3, BranchAgentAssumption DEF Exits, Within, BranchTypeOK
  <2> DEFINE r == Result(budget - Len(recorded'))
  <2>5. r \in Turns /\ r.role = "tool"
    BY <2>4, TurnTypes DEF Result, Turn
  <2>6. messages \in Seq(Turns) /\ messages # <<>> /\ Alternating(messages)
        /\ MayFollow(Last(messages), r)
    BY <1>0, <1>12, <2>5
       DEF BranchTypeOK, Turned, Exits, MayFollow, Assistant, Turn
  <2>7. messages' = Append(messages, r)
    BY <1>12 DEF Exits
  <2> HIDE DEF r
  <2>8. /\ messages' \in Seq(Turns) /\ messages' # <<>> /\ Alternating(messages')
        /\ Last(messages') = r
    BY <2>5, <2>6, <2>7, TurnTaken
  <2>9. Last(messages').role # "assistant"
    BY <2>5, <2>8
  <2> QED BY <1>12, <2>1, <2>2, <2>8, <2>9, Again DEF Exits
<1>13. CASE ShellRaises
  <2> USE <1>0, <1>13 DEF ShellRaises
  <2>1. BranchTypeOK' BY DEF BranchTypeOK, outcome
  <2>2. Within' BY BranchAgentAssumption DEF Within, BranchTypeOK
  <2>3. Deciding' BY DEF Deciding, Undecided, outcome
  <2>4. Turned' BY DEF Turned
  <2> QED BY <2>1, <2>2, <2>3, <2>4, LoopStep
<1>19. CASE JournalFails
  <2>1. PICK step \in Recordable : recorded' = Append(recorded, step)
    BY <1>19 DEF JournalFails
  <2>2. /\ where' = "raised" /\ UNCHANGED <<budget, overdue, messages, outcome, report>>
        /\ where \in {"loop", "asked", "shell", "over"}
        /\ step \in Steps
        /\ Len(recorded) < budget \/ (where = "over" /\ recorded = <<>>)
    BY <1>0, <1>19, <2>1 DEF JournalFails, Recordable, Steps, Step, Actions, Within
  <2>3. recorded' \in Seq(Steps) /\ Len(recorded') = Len(recorded) + 1
    BY <1>0, <2>1, <2>2, Appended DEF BranchTypeOK
  <2>4. BranchTypeOK'
    BY <1>0, <2>2, <2>3 DEF BranchTypeOK, outcome
  <2>5. Len(recorded) \in Nat /\ budget \in Nat
    BY <1>0, BranchAgentAssumption DEF BranchTypeOK
  <2>6. Within'
    BY <1>0, <2>2, <2>3, <2>5 DEF Within
  <2>7. Deciding' /\ Turned'
    BY <1>0, <2>2 DEF Deciding, Turned
  <2> QED BY <2>2, <2>4, <2>6, <2>7, LoopStep
<1> DEFINE r == Substantial(recorded)
<1>14. ASSUME where \in {"over", "raised"}
       PROVE  /\ r \in Seq(Steps) /\ Len(r) >= 1 /\ (Len(r) <= budget \/ budget = 0)
              /\ Undecided => Last(r).action # "finish"
              /\ Finished => Last(r).action = "finish"
  <2>1. CASE recorded = <<>>
    <3>1. r = <<Step("start", "error")>> /\ Step("start", "error") \in Steps
          /\ Step("start", "error").action = "start"
      BY <2>1 DEF Substantial, Step, Steps, Actions
    <3>2. r \in Seq(Steps) /\ Len(r) = 1 /\ Last(r).action = "start"
      <4> HIDE DEF r
      <4> QED BY <3>1 DEF Last
    <3>3. budget \in Nat
      BY <1>0, BranchAgentAssumption DEF BranchTypeOK
    <3> HIDE DEF r
    <3> QED BY <2>1, <3>2, <3>3 DEF Finished
  <2>2. CASE recorded # <<>>
    <3>1. r = recorded
      BY <2>2 DEF Substantial
    <3>2. recorded \in Seq(Steps) /\ Len(recorded) \in Nat /\ Len(recorded) >= 1
          /\ (Len(recorded) <= budget \/ budget = 0) /\ Len(recorded) \in DOMAIN recorded
      BY <1>0, <1>14, <2>2 DEF BranchTypeOK, Within
    <3> QED BY <3>1, <3>2 DEF Undecided, Finished, Last
  <2> QED BY <2>1, <2>2
<1>15. CASE Conclude
  <2>1. /\ where = "over" /\ where' = "reported"
        /\ UNCHANGED <<budget, overdue, recorded, messages, outcome>>
    BY <1>15 DEF Conclude
  <2>2. /\ report'.steps = r /\ report'.success = signal
        /\ report'.error = IF answer = "none" /\ error = "none" THEN "exhausted" ELSE error
    BY <1>15 DEF Conclude
  <2>3. report' \in Report
    BY <1>0, <1>14, <1>15, <2>1
       DEF Conclude, Report, BranchTypeOK, Answers, Errors
  <2>4. BranchTypeOK'
    BY <1>0, <2>1, <2>3 DEF BranchTypeOK, outcome
  <2>5. Within' /\ Deciding'
    BY <2>1 DEF Within, Deciding
  <2>6. Turned'
    BY <1>0, <2>1 DEF Turned
  <2>7. EndIsExplained'
    <3>1. CASE Undecided
      BY <1>14, <2>1, <2>2, <3>1 DEF EndIsExplained, Undecided, Last
    <3>2. CASE Finished
      BY <1>14, <2>1, <2>2, <3>2 DEF EndIsExplained, Finished, Last
    <3> QED BY <1>0, <2>1, <3>1, <3>2 DEF Deciding
  <2> QED BY <2>4, <2>5, <2>6, <2>7 DEF LoopInv
<1>16. CASE Fallback
  <2>1. /\ where = "raised" /\ where' = "reported"
        /\ UNCHANGED <<budget, overdue, recorded, messages, outcome>>
    BY <1>16 DEF Fallback
  <2>2. report' = [steps |-> r, answer |-> "none", success |-> FALSE, error |-> "raised"]
    BY <1>16 DEF Fallback
  <2>3. report' \in Report
    BY <1>14, <2>1, <2>2 DEF Report, Answers, Errors
  <2>4. BranchTypeOK'
    BY <1>0, <2>1, <2>3 DEF BranchTypeOK, outcome
  <2>5. Within' /\ Deciding'
    BY <2>1 DEF Within, Deciding
  <2>6. Turned'
    BY <1>0, <2>1 DEF Turned
  <2>7. EndIsExplained'
    BY <1>0, <1>14, <2>1, <2>2 DEF EndIsExplained, Deciding, Last
  <2> QED BY <2>4, <2>5, <2>6, <2>7 DEF LoopInv
<1>17. CASE DeadlinePasses
  <2> USE <1>0, <1>17 DEF DeadlinePasses
  <2>1. BranchTypeOK' BY DEF BranchTypeOK, outcome
  <2>2. Within' BY DEF Within
  <2>3. Deciding' BY DEF Deciding, Undecided, Finished, outcome
  <2>4. Turned' BY DEF Turned
  <2> QED BY <2>1, <2>2, <2>3, <2>4, LoopStep
<1>18. CASE UNCHANGED branch
  BY <1>0, <1>18
     DEF branch, outcome, LoopInv, BranchTypeOK, Within, Deciding, Undecided, Finished,
                     Turned, EndIsExplained
<1> QED
  BY <1>1, <1>2, <1>3, <1>4, <1>5, <1>6, <1>7, <1>8, <1>9, <1>10, <1>11, <1>12, <1>13,
     <1>15, <1>16, <1>17, <1>18, <1>19 DEF BranchNext, Work, Reply

LEMMA LoopInvariant == BranchSpec => []LoopInv
  BY LoopInit, LoopNextKeeps, PTL DEF BranchSpec

\* The variables of the loop keep their types: no result tells the model of
\* more replies than the job allows, or of fewer than none.
THEOREM LoopTypes == BranchSpec => []BranchTypeOK
<1>1. LoopInv => BranchTypeOK
  BY DEF LoopInv
<1> QED BY <1>1, LoopInvariant, PTL

\* Every request the endpoint sees alternates and answers each call.
THEOREM ConversationSound == BranchSpec => []RequestsAreWellFormed
<1>1. LoopInv => RequestsAreWellFormed
  BY DEF LoopInv, Turned, Alternating, RequestsAreWellFormed, Last
<1> QED BY <1>1, LoopInvariant, PTL

\* Every report says truly how the loop ended.
THEOREM ReportSound == BranchSpec => []EndIsExplained
<1>1. LoopInv => EndIsExplained
  BY DEF LoopInv
<1> QED BY <1>1, LoopInvariant, PTL
-----------------------------------------------------------------------------
\* What the loop has left: a step of its budget takes at most three transitions, the
\* last one at most five, and the deadline passes once.
Place ==
  CASE where = "loop" -> 5 [] where = "asked" -> 4 [] where = "shell" -> 3
    [] where = "over" -> 2 [] where = "raised" -> 1 [] where = "reported" -> 0
BudgetLeft == IF Len(recorded) < budget THEN budget - Len(recorded) ELSE 0
Rank == 3 * BudgetLeft + Place + (IF overdue THEN 0 ELSE 1)

LEMMA PlaceIs ==
  /\ where = "loop" => Place = 5
  /\ where = "asked" => Place = 4
  /\ where = "shell" => Place = 3
  /\ where = "over" => Place = 2
  /\ where = "raised" => Place = 1
  /\ where = "reported" => Place = 0
  BY DEF Place

LEMMA PlaceIsNext ==
  /\ where' = "loop" => Place' = 5
  /\ where' = "asked" => Place' = 4
  /\ where' = "shell" => Place' = 3
  /\ where' = "over" => Place' = 2
  /\ where' = "raised" => Place' = 1
  /\ where' = "reported" => Place' = 0
  BY DEF Place

\* Every transition of the loop brings its end nearer, whatever the model answers: also a
\* silent reply, a tool that does not exist and a refused command cost a step of the budget.
\* So a branch reports after at most 3 * MaxBudget + 6 transitions, the bounded core of
\* EveryBranchReports.
THEOREM LoopIsBounded ==
  BranchSpec => [][Rank' \in Nat /\ Rank' < Rank /\ Rank <= 3 * MaxBudget + 6]_branch
<1> DEFINE Nearer == Rank' \in Nat /\ Rank' < Rank /\ Rank <= 3 * MaxBudget + 6
<1>1. ASSUME LoopInv, LoopInv', BranchNext PROVE Nearer
  <2> DEFINE n == Len(recorded)
             m == Len(recorded')
  <2>1. /\ budget \in Nat /\ budget <= MaxBudget /\ MaxBudget \in Nat
        /\ n \in Nat /\ m \in Nat /\ budget' = budget /\ overdue \in BOOLEAN
    <3>1. budget' = budget
      BY <1>1 DEF BranchNext, Work, Ask, OutOfTime, OutOfSteps, Reply, TransportFails, Malformed,
                  Silent, FinishCalled, Misuse, Note, NotRun, Run, Exits, ShellRaises, Conclude,
                  Fallback, DeadlinePasses, JournalFails
    <3> QED BY <1>1, <3>1, BranchAgentAssumption DEF LoopInv, BranchTypeOK
  <2>2. \A action, end : RecordStep(action, end) => m = n + 1
    BY <1>1 DEF LoopInv, BranchTypeOK, RecordStep
  <2>3. /\ where \in {"loop", "asked", "shell", "over", "raised", "reported"}
        /\ where \in {"asked", "shell"} => n < budget
        /\ where \in {"loop", "over"} => n <= budget
    BY <1>1, <2>1 DEF LoopInv, BranchTypeOK, Within
  <2>4. Place \in 0..5
    BY <2>3, PlaceIs
  <2> HIDE DEF n, m
  <2>5. \/ /\ where = "loop" /\ n < budget /\ where' \in {"asked", "over"}
           /\ (m = n /\ where' = "asked") \/ (m = n + 1 /\ where' = "over")
           /\ overdue' = overdue
        \/ where = "loop" /\ where' = "over" /\ m = n /\ overdue' = overdue
        \/ where = "asked" /\ where' \in {"over", "loop"} /\ m = n + 1 /\ overdue' = overdue
        \/ where = "asked" /\ where' \in {"raised", "shell"} /\ m = n /\ overdue' = overdue
        \/ where = "shell" /\ where' = "loop" /\ m = n + 1 /\ overdue' = overdue
        \/ where = "shell" /\ where' = "raised" /\ m = n /\ overdue' = overdue
        \/ /\ where \in {"loop", "asked", "shell", "over"} /\ where' = "raised"
           /\ m = n + 1 /\ overdue' = overdue
        \/ where \in {"over", "raised"} /\ where' = "reported" /\ m = n /\ overdue' = overdue
        \/ where # "reported" /\ where' = where /\ m = n /\ ~overdue /\ overdue'
    <3>1. CASE Ask \/ OutOfTime \/ OutOfSteps
      BY <2>2, <3>1 DEF Ask, OutOfTime, OutOfSteps, n, m
    <3>2. CASE TransportFails \/ Malformed \/ Silent \/ FinishCalled \/ Run
      BY <2>2, <3>2 DEF TransportFails, Malformed, Silent, FinishCalled, Run, n, m
    <3>3. CASE Misuse \/ Note \/ NotRun
      BY <2>2, <3>3 DEF Misuse, Note, NotRun, AnsweredCall
    <3>4. CASE Exits \/ ShellRaises
      BY <2>2, <3>4 DEF Exits, ShellRaises, n, m
    <3>5. CASE Conclude \/ Fallback
      BY <3>5 DEF Conclude, Fallback, n, m
    <3>6. CASE DeadlinePasses
      BY <3>6 DEF DeadlinePasses, n, m
    <3>7. CASE JournalFails
      <4>1. PICK step \in Recordable : recorded' = Append(recorded, step)
        BY <3>7 DEF JournalFails
      <4>2. m = n + 1
        BY <1>1, <4>1 DEF LoopInv, BranchTypeOK, n, m
      <4>3. where \in {"loop", "asked", "shell", "over"}
        BY <4>1 DEF Recordable
      <4> QED BY <3>7, <4>2, <4>3 DEF JournalFails
    <3> QED BY <1>1, <3>1, <3>2, <3>3, <3>4, <3>5, <3>6, <3>7 DEF BranchNext, Work, Reply
  <2>6. /\ Rank = 3 * (IF n < budget THEN budget - n ELSE 0) + Place
                  + (IF overdue THEN 0 ELSE 1)
        /\ Rank' = 3 * (IF m < budget THEN budget - m ELSE 0) + Place'
                   + (IF overdue' THEN 0 ELSE 1)
    BY <2>1 DEF Rank, BudgetLeft, n, m
  <2>7. /\ Rank' \in Nat /\ Rank' < Rank
    BY <2>1, <2>3, <2>5, <2>6, PlaceIs, PlaceIsNext
  <2>8. Rank <= 3 * MaxBudget + 6
    BY <2>1, <2>3, <2>4, <2>6
  <2> QED BY <2>7, <2>8
<1>2. LoopInv /\ LoopInv' /\ [BranchNext]_branch => [Nearer]_branch
  BY <1>1
<1> QED BY <1>2, LoopInvariant, PTL DEF BranchSpec
=============================================================================
