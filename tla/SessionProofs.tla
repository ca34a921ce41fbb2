---------------------------- MODULE SessionProofs ----------------------------
(***************************************************************************)
(* Proofs about the assistant, for any processes, requests, skills, slots  *)
(* and jobs: types, that what a session announces is what it replays, that *)
(* its end leaves nothing behind, and that its jobs live the coordinator's *)
(* lives.                                                                  *)
(***************************************************************************)
EXTENDS Session, TLAPS

\* The steps by what they move: the case split of every proof below.
Talks(s) == \/ \E u \in Utterances : Hit(s, u)
            \/ Reload(s) \/ Fill(s) \/ Mishear(s)
            \/ Find(s) \/ Confirm(s) \/ Reject(s) \/ Book(s)
            \/ Quit(s) \/ Interrupt(s) \/ Enter(s)

LEMMA StepCases ==
  ASSUME [Next]_vars
  PROVE  \/ \E s \in Sessions : Talks(s)
         \/ \E s \in Sessions : Start(s)
         \/ \E s \in Sessions, u \in Utterances : Miss(s, u)
         \/ \E s \in Sessions : InterruptClosing(s)
         \/ \E s \in Sessions : Finish(s)
         \/ \E s \in Sessions, j \in Jobs : Begin(s, j)
         \/ \E s \in Sessions, j \in Jobs : Learn(s, j)
         \/ \E s \in Sessions, j \in Jobs : Decline(s, j) \/ Fail(s, j)
         \/ UNCHANGED vars
BY DEF Next, Conversing, Ending, Talks

\* TypeOK is inductive with what the counters of an open question are.
QuestionInv == \A s \in Sessions :
    pc[s] = "asking" => left[s] \in 1..Questions /\ tries[s] \in 0..MaxAttempts - 1
TypeInv == TypeOK /\ QuestionInv

\* A look at the store finds a skill or nothing.
LEMMA LookupType ==
  ASSUME TypeOK, NEW u
  PROVE  Lookup(u) \in Skills
BY DEF TypeOK, Lookup, Skills

\* The assistant's variables keep their types.
THEOREM TypeCorrect == Spec => []TypeOK
<1> USE QuestionsAssumption
<1>1. Init => TypeInv
  BY DEF Init, TypeInv, TypeOK, QuestionInv, Skills, Places, Typing, Statuses
<1>2. TypeInv /\ [Next]_vars => TypeInv'
  <2> SUFFICES ASSUME TypeInv, [Next]_vars PROVE TypeInv'
    OBVIOUS
  <2> USE DEF TypeInv, TypeOK, QuestionInv, Places, Typing, conversation, tasks
  <2>1. ASSUME NEW s \in Sessions, Talks(s) PROVE TypeInv'
    <3>1. ASSUME NEW u \in Utterances, Hit(s, u) PROVE TypeInv'
      BY <3>1, LookupType DEF Hit, Skills
    <3>2. CASE Reload(s)
      <4> DEFINE skill == Lookup(asked[s])
      <4>1. skill \in Skills
        BY LookupType
      <4>2. pc' \in [Sessions -> Places] /\ using' \in [Sessions -> Skills]
            /\ left' \in [Sessions -> 0..Questions] /\ tries' \in [Sessions -> 0..MaxAttempts]
            /\ asked' \in [Sessions -> Skills]
        BY <3>2, <4>1 DEF Reload, Skills
      <4>3. QuestionInv'
        BY <3>2 DEF Reload
      <4> QED BY <3>2, <4>2, <4>3 DEF Reload
    <3>3. CASE Fill(s)
      BY <3>3 DEF Fill
    <3>4. CASE Mishear(s)
      BY <3>4 DEF Mishear
    <3>5. CASE Find(s) \/ Confirm(s) \/ Reject(s) \/ Book(s) \/ Quit(s)
      BY <3>5 DEF Find, Confirm, Reject, Book, Quit
    <3>6. CASE Interrupt(s) \/ Enter(s)
      <4>1. reading' \in [Sessions -> BOOLEAN]
        <5>1. CASE Interrupt(s)
          <6> DEFINE b == pc[s] \in {"prompt", "asking", "gate"}
          <6>1. b \in BOOLEAN
            OBVIOUS
          <6>2. reading' = [reading EXCEPT ![s] = b]
            BY <5>1 DEF Interrupt
          <6> HIDE DEF b
          <6> QED BY <6>1, <6>2
        <5>2. CASE Enter(s)
          BY <5>2 DEF Enter
        <5> QED BY <3>6, <5>1, <5>2
      <4> QED BY <3>6, <4>1 DEF Interrupt, Enter
    <3> QED BY <2>1, <3>1, <3>2, <3>3, <3>4, <3>5, <3>6 DEF Talks
  <2>2. ASSUME NEW s \in Sessions, Start(s) PROVE TypeInv'
    BY <2>2 DEF Start, Written, Skills
  <2>3. ASSUME NEW s \in Sessions, NEW u \in Utterances, Miss(s, u) PROVE TypeInv'
    BY <2>3 DEF Miss, Skills, Statuses
  <2>4. ASSUME NEW s \in Sessions, InterruptClosing(s) PROVE TypeInv'
    BY <2>4 DEF InterruptClosing, Statuses
  <2>5. ASSUME NEW s \in Sessions, Finish(s) PROVE TypeInv'
    BY <2>5 DEF Finish
  <2>6. ASSUME NEW s \in Sessions, NEW j \in Jobs, Begin(s, j) PROVE TypeInv'
    BY <2>6 DEF Begin, Statuses
  <2>7. ASSUME NEW s \in Sessions, NEW j \in Jobs, Learn(s, j) PROVE TypeInv'
    BY <2>7 DEF Learn, Written, Statuses
  <2>8. ASSUME NEW s \in Sessions, NEW j \in Jobs, Decline(s, j) \/ Fail(s, j) PROVE TypeInv'
    <3>1. PICK to \in {"succeeded", "failed"} : status' = [status EXCEPT ![s][j] = to]
      BY <2>8 DEF Decline, Fail
    <3> QED BY <2>8, <3>1 DEF Decline, Fail, Statuses
  <2>9. CASE UNCHANGED vars
    BY <2>9 DEF vars
  <2> QED BY StepCases, <2>1, <2>2, <2>3, <2>4, <2>5, <2>6, <2>7, <2>8, <2>9
<1> QED BY <1>1, <1>2, PTL DEF Spec, TypeInv

-----------------------------------------------------------------------------
\* Between the two lookups: unless another process wrote, what was announced is what
\* the store still gives.  AnnouncedIsReplayed alone says nothing of that moment.
LookupInv == \A s \in Sessions : pc[s] = "announced" =>
    /\ announced[s] # Nothing
    /\ touched[s] \/ Lookup(asked[s]) = announced[s]
AnnouncementInv == LookupInv /\ AnnouncedIsReplayed

\* A step that leaves a session's own state alone, and the store or its history with
\* it, keeps what is known of the session.
LEMMA Unconcerned ==
  ASSUME AnnouncementInv, NEW r \in Sessions,
         pc'[r] = pc[r], asked'[r] = asked[r], announced'[r] = announced[r], using'[r] = using[r],
         touched[r] => touched'[r], store' = store \/ touched'[r] \/ pc[r] # "announced"
  PROVE  /\ pc'[r] = "announced" => /\ announced'[r] # Nothing
                                    /\ touched'[r] \/ Lookup(asked[r])' = announced'[r]
         /\ pc'[r] # "announced" /\ announced'[r] # Nothing /\ ~touched'[r]
               => using'[r] = announced'[r]
BY DEF AnnouncementInv, LookupInv, AnnouncedIsReplayed, Lookup

\* "I already know how to do that": what is announced is what is replayed.
THEOREM AnnouncementKept == Spec => []AnnouncedIsReplayed
<1>1. Init => AnnouncementInv
  BY DEF Init, AnnouncementInv, LookupInv, AnnouncedIsReplayed
<1>2. TypeOK /\ AnnouncementInv /\ [Next]_vars => AnnouncementInv'
  <2> SUFFICES ASSUME TypeOK, AnnouncementInv, [Next]_vars, NEW r \in Sessions
               PROVE  /\ pc'[r] = "announced" =>
                            /\ announced'[r] # Nothing
                            /\ touched'[r] \/ Lookup(asked[r])' = announced'[r]
                      /\ pc'[r] # "announced" /\ announced'[r] # Nothing /\ ~touched'[r]
                            => using'[r] = announced'[r]
    BY DEF AnnouncementInv, LookupInv, AnnouncedIsReplayed
  <2> USE DEF TypeOK, conversation, tasks
  <2>1. ASSUME NEW s \in Sessions, Talks(s), s # r PROVE r \in Sessions /\ UNCHANGED store
            /\ pc'[r] = pc[r] /\ asked'[r] = asked[r] /\ announced'[r] = announced[r]
            /\ using'[r] = using[r] /\ touched'[r] = touched[r]
    BY <2>1 DEF Talks, Hit, Reload, Fill, Mishear, Find, Confirm, Reject, Book, Quit, Interrupt,
                Enter
  <2>2. CASE Talks(r)
    <3>1. ASSUME NEW u \in Utterances, Hit(r, u)
          PROVE  pc'[r] = "announced" /\ announced'[r] = Lookup(u) /\ asked'[r] = u
                 /\ Lookup(u) # Nothing /\ store' = store
      BY <3>1 DEF Hit
    <3>2. CASE Reload(r)
      BY <3>2 DEF Reload, AnnouncementInv, LookupInv
    <3>3. CASE Fill(r) \/ Mishear(r)
      BY <3>3 DEF Fill, Mishear, AnnouncementInv, AnnouncedIsReplayed
    <3>4. CASE Find(r) \/ Confirm(r) \/ Reject(r) \/ Book(r) \/ Quit(r)
      BY <3>4 DEF Find, Confirm, Reject, Book, Quit, AnnouncementInv, AnnouncedIsReplayed
    <3>5. CASE Interrupt(r)
      BY <3>5 DEF Interrupt, Yielded, Suspended, Typing, AnnouncementInv, AnnouncedIsReplayed
    <3>6. CASE Enter(r)
      BY <3>6, Unconcerned DEF Enter
    <3>7. CASE \E u \in Utterances : Hit(r, u)
      BY <3>1, <3>7 DEF Lookup
    <3> QED BY <2>2, <3>2, <3>3, <3>4, <3>5, <3>6, <3>7 DEF Talks
  <2>3. ASSUME NEW s \in Sessions, Start(s) PROVE
            /\ (pc'[r] # "announced" /\ pc[r] # "announced") \/ pc'[r] = pc[r]
            /\ asked'[r] = asked[r] /\ announced'[r] = announced[r] /\ using'[r] = using[r]
            /\ touched[r] => touched'[r]
            /\ store' = store \/ touched'[r] \/ pc[r] # "announced"
    BY <2>3 DEF Start, Written
  <2>4. ASSUME NEW s \in Sessions, NEW u \in Utterances, Miss(s, u) PROVE
            \/ announced'[r] = Nothing /\ pc'[r] = "prompt"
            \/ /\ pc'[r] = pc[r] /\ asked'[r] = asked[r] /\ announced'[r] = announced[r]
               /\ using'[r] = using[r] /\ touched'[r] = touched[r] /\ store' = store
    BY <2>4 DEF Miss
  <2>5. ASSUME NEW s \in Sessions, InterruptClosing(s) \/ Finish(s) PROVE
            /\ (pc'[r] # "announced" /\ pc[r] # "announced") \/ pc'[r] = pc[r]
            /\ asked'[r] = asked[r] /\ announced'[r] = announced[r] /\ using'[r] = using[r]
            /\ touched'[r] = touched[r] /\ store' = store
    BY <2>5 DEF InterruptClosing, Finish
  <2>6. ASSUME NEW s \in Sessions, NEW j \in Jobs,
               Begin(s, j) \/ Learn(s, j) \/ Decline(s, j) \/ Fail(s, j) PROVE
            /\ pc'[r] = pc[r] /\ asked'[r] = asked[r] /\ announced'[r] = announced[r]
            /\ using'[r] = using[r]
            /\ touched[r] => touched'[r]
            /\ store' = store \/ touched'[r] \/ pc[r] # "announced"
    <3>1. Yielded(r) => pc[r] # "announced"
      BY DEF Yielded, Suspended, Typing
    <3> QED BY <2>6, <3>1 DEF Begin, Learn, Decline, Fail, Written
  <2>7. CASE UNCHANGED vars
    BY <2>7, Unconcerned DEF vars
  <2>8. ASSUME /\ pc'[r] # "announced" /\ pc[r] # "announced"
               /\ announced'[r] = announced[r] /\ using'[r] = using[r]
               /\ touched[r] => touched'[r]
        PROVE  pc'[r] # "announced" /\ (announced'[r] # Nothing /\ ~touched'[r]
                   => using'[r] = announced'[r])
    BY <2>8 DEF AnnouncementInv, AnnouncedIsReplayed
  <2> QED BY StepCases, <2>1, <2>2, <2>3, <2>4, <2>5, <2>6, <2>7, <2>8, Unconcerned
<1> QED BY <1>1, <1>2, TypeCorrect, PTL DEF Spec, AnnouncementInv

-----------------------------------------------------------------------------
\* An ended process begins nothing and learns nothing.
LEMMA EndedStep ==
  ASSUME TypeOK, EndedIsOver, [Next]_vars
  PROVE  EndedIsOver'
<1> SUFFICES ASSUME NEW r \in Sessions, pc'[r] = "ended", NEW i \in Jobs PROVE Over(r, i)'
  BY DEF EndedIsOver
<1> USE DEF TypeOK, conversation, tasks
<1>1. CASE status'[r] = status[r] /\ pc[r] = "ended"
  BY <1>1 DEF EndedIsOver, Over
<1>2. ASSUME NEW s \in Sessions, Talks(s) PROVE status' = status /\ pc[r] = "ended"
  BY <1>2 DEF Talks, Hit, Reload, Fill, Mishear, Find, Confirm, Reject, Book, Quit, Interrupt,
              Enter
<1>3. ASSUME NEW s \in Sessions, Start(s) PROVE status' = status /\ pc[r] = "ended"
  BY <1>3 DEF Start
<1>4. ASSUME NEW s \in Sessions, NEW u \in Utterances, Miss(s, u)
      PROVE  status'[r] = status[r] /\ pc[r] = "ended"
  BY <1>4 DEF Miss
<1>5. ASSUME NEW s \in Sessions, InterruptClosing(s)
      PROVE  status'[r] = status[r] /\ pc[r] = "ended"
  BY <1>5 DEF InterruptClosing
<1>6. ASSUME NEW s \in Sessions, Finish(s)
      PROVE  status' = status /\ (pc[r] = "ended" \/ Over(r, i))
  BY <1>6 DEF Finish, Drained
<1>7. ASSUME NEW s \in Sessions, NEW j \in Jobs,
             Begin(s, j) \/ Learn(s, j) \/ Decline(s, j) \/ Fail(s, j)
      PROVE  status'[r] = status[r] /\ pc[r] = "ended"
  BY <1>7 DEF Begin, Learn, Decline, Fail, Yielded, Suspended, Typing
<1>8. CASE UNCHANGED vars
  BY <1>1, <1>8 DEF vars
<1> QED BY StepCases, <1>1, <1>2, <1>3, <1>4, <1>5, <1>6, <1>7, <1>8 DEF Over

\* When the assistant has ended, everything it accepted is over.
THEOREM EndSafe == Spec => []EndedIsOver
<1>1. Init => EndedIsOver
  BY DEF Init, EndedIsOver
<1> QED BY <1>1, EndedStep, TypeCorrect, PTL DEF Spec

-----------------------------------------------------------------------------
\* The jobs of all processes, as the coordinator's specification sees them.
Standing == [job \in Sessions \X Jobs |-> status[job[1]][job[2]]]
AllEnded == \A s \in Sessions : pc[s] = "ended"

\* A step that changes one job's status changes that job alone of the standing.
LEMMA OneMoved ==
  ASSUME TypeOK, NEW s \in Sessions, NEW j \in Jobs, NEW to,
         status' = [status EXCEPT ![s][j] = to]
  PROVE  Standing' = [Standing EXCEPT ![<<s, j>>] = to]
<1>1. \A r \in Sessions, i \in Jobs :
        status'[r][i] = IF r = s /\ i = j THEN to ELSE status[r][i]
  BY DEF TypeOK
<1>2. \A job \in Sessions \X Jobs :
        status'[job[1]][job[2]] = IF job = <<s, j>> THEN to ELSE status[job[1]][job[2]]
  BY <1>1
<1> QED BY <1>2 DEF Standing

\* A process that has not ended keeps the whole from being sealed.
LEMMA NotSealed ==
  ASSUME NEW s \in Sessions, pc[s] # "ended"
  PROVE  ~AllEnded
BY DEF AllEnded

\* A conversation ends nothing, and no job moves with it.
LEMMA TalkIsQuiet ==
  ASSUME TypeOK, NEW s \in Sessions, Talks(s) \/ Start(s)
  PROVE  status' = status /\ AllEnded' = AllEnded
<1> USE DEF TypeOK, conversation, tasks
<1>1. status' = status
  BY DEF Talks, Hit, Reload, Fill, Mishear, Find, Confirm, Reject, Book, Quit, Interrupt,
         Enter, Start
<1>2. pc' = pc \/ (pc[s] # "ended" /\ pc'[s] # "ended")
  <2>1. CASE \E u \in Utterances : Hit(s, u)
    BY <2>1 DEF Hit
  <2>2. CASE Reload(s)
    BY <2>2 DEF Reload
  <2>3. CASE Fill(s) \/ Mishear(s)
    BY <2>3 DEF Fill, Mishear
  <2>4. CASE Find(s) \/ Confirm(s) \/ Reject(s) \/ Book(s) \/ Quit(s)
    BY <2>4 DEF Find, Confirm, Reject, Book, Quit
  <2>5. CASE Interrupt(s)
    BY <2>5 DEF Interrupt, Yielded, Suspended, Typing
  <2>6. CASE Enter(s)
    BY <2>6 DEF Enter
  <2>7. CASE Start(s)
    BY <2>7 DEF Start
  <2> QED BY <2>1, <2>2, <2>3, <2>4, <2>5, <2>6, <2>7 DEF Talks
<1>3. \A r \in Sessions : r # s => pc'[r] = pc[r]
  BY DEF Talks, Hit, Reload, Fill, Mishear, Find, Confirm, Reject, Book, Quit, Interrupt,
         Enter, Start
<1> QED BY <1>1, <1>2, <1>3 DEF AllEnded

\* Every job of every process lives the coordinator's life, and the last end seals it.
THEOREM JobsRefine == Spec => JobsSpec
<1>1. Init => Life!Init
  BY SessionsAssumption DEF Init, Life!Init
<1>2. TypeOK /\ EndedIsOver /\ EndedIsOver' /\ [Next]_vars
          => [Life!Next]_<<Standing, AllEnded>>
  <2> SUFFICES ASSUME TypeOK, EndedIsOver, EndedIsOver', [Next]_vars
               PROVE  Life!Next \/ UNCHANGED <<Standing, AllEnded>>
    OBVIOUS
  <2>1. ASSUME NEW s \in Sessions, Talks(s) \/ Start(s) PROVE UNCHANGED <<Standing, AllEnded>>
    <3>1. status' = status /\ AllEnded' = AllEnded
      BY <2>1, TalkIsQuiet
    <3> QED BY <3>1 DEF Standing
  <2>2. ASSUME NEW s \in Sessions, NEW u \in Utterances, Miss(s, u) PROVE Life!Next
    <3>1. PICK j \in Jobs : status[s][j] = "absent"
                            /\ status' = [status EXCEPT ![s][j] = "pending"]
      BY <2>2 DEF Miss
    <3>2. ~AllEnded /\ pc' = pc
      BY <2>2, NotSealed DEF Miss
    <3>3. Standing' = [Standing EXCEPT ![<<s, j>>] = "pending"]
      BY <3>1, OneMoved
    <3>4. Life!Accept(<<s, j>>)
      BY <3>1, <3>2, <3>3 DEF Life!Accept, Life!Moved, Standing, AllEnded
    <3> QED BY <3>4 DEF Life!Next
  <2>3. ASSUME NEW s \in Sessions, NEW j \in Jobs, Begin(s, j) PROVE Life!Next
    <3>1. status[s][j] = "pending" /\ status' = [status EXCEPT ![s][j] = "running"] /\ pc' = pc
      BY <2>3 DEF Begin
    <3>2. Standing' = [Standing EXCEPT ![<<s, j>>] = "running"]
      BY <3>1, OneMoved
    <3>3. Life!Begin(<<s, j>>)
      BY <3>1, <3>2 DEF Life!Begin, Life!Moved, Standing, AllEnded
    <3> QED BY <3>3 DEF Life!Next
  <2>4. ASSUME NEW s \in Sessions, NEW j \in Jobs, Learn(s, j) \/ Decline(s, j) PROVE Life!Next
    <3>1. status[s][j] = "running" /\ status' = [status EXCEPT ![s][j] = "succeeded"]
          /\ pc' = pc
      BY <2>4 DEF Learn, Decline
    <3>2. Standing' = [Standing EXCEPT ![<<s, j>>] = "succeeded"]
      BY <3>1, OneMoved
    <3>3. Life!Complete(<<s, j>>)
      BY <3>1, <3>2 DEF Life!Complete, Life!Moved, Standing, AllEnded
    <3> QED BY <3>3 DEF Life!Next
  <2>5. ASSUME NEW s \in Sessions, NEW j \in Jobs, Fail(s, j) PROVE Life!Next
    <3>1. status[s][j] = "running" /\ status' = [status EXCEPT ![s][j] = "failed"] /\ pc' = pc
      BY <2>5 DEF Fail
    <3>2. Standing' = [Standing EXCEPT ![<<s, j>>] = "failed"]
      BY <3>1, OneMoved
    <3>3. Life!Fail(<<s, j>>)
      BY <3>1, <3>2 DEF Life!Fail, Life!Moved, Standing, AllEnded
    <3> QED BY <3>3 DEF Life!Next
  <2>6. ASSUME NEW s \in Sessions, InterruptClosing(s) PROVE Life!Next
    <3>0. PICK S : S = {job \in Sessions \X Jobs : job[1] = s /\ ~Over(s, job[2])}
      OBVIOUS
    <3>1. S \subseteq Life!Unfinished
      BY <3>0 DEF TypeOK, Statuses, Over, Life!Unfinished
    <3>2. S # {}
      <4>1. PICK j \in Jobs : ~Over(s, j)
        BY <2>6 DEF InterruptClosing
      <4>2. <<s, j>> \in S
        BY <3>0, <4>1
      <4> QED BY <4>2
    <3>3. Standing' = [job \in Sessions \X Jobs |-> IF job \in S THEN "cancelled" ELSE Standing[job]]
      BY <2>6, <3>0 DEF InterruptClosing, Standing, TypeOK
    <3>4. AllEnded' = AllEnded
      BY <2>6 DEF InterruptClosing, AllEnded
    <3>5. Life!CallOff(S)
      BY <3>2, <3>3, <3>4 DEF Life!CallOff, Standing, AllEnded
    <3> QED BY <3>1, <3>5 DEF Life!Next
  <2>7. ASSUME NEW s \in Sessions, Finish(s) PROVE Life!Next \/ UNCHANGED <<Standing, AllEnded>>
    <3>1. status' = status /\ ~AllEnded
      BY <2>7, NotSealed DEF Finish, tasks
    <3>2. CASE AllEnded'
      <4>1. \A r \in Sessions, j \in Jobs : Over(r, j)
        BY <3>1, <3>2 DEF AllEnded, EndedIsOver, Over
      <4>2. Life!Unfinished = {}
        BY <4>1 DEF Life!Unfinished, Over
      <4>3. Life!Seal
        BY <3>1, <3>2, <4>2 DEF Life!Seal, Standing, AllEnded
      <4> QED BY <4>3 DEF Life!Next
    <3>3. CASE ~AllEnded'
      BY <3>1, <3>3 DEF Standing, AllEnded
    <3> QED BY <3>2, <3>3
  <2>8. CASE UNCHANGED vars
    BY <2>8 DEF vars, tasks, Standing, AllEnded
  <2> QED BY StepCases, <2>1, <2>2, <2>3, <2>4, <2>5, <2>6, <2>7, <2>8
<1> QED BY <1>1, <1>2, TypeCorrect, EndSafe, PTL DEF Spec, JobsSpec, Life!Spec, Standing, AllEnded
=============================================================================
