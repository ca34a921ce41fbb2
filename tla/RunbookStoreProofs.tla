------------------------- MODULE RunbookStoreProofs -------------------------
(***************************************************************************)
(* Theorems about RunbookStore, for any number of processes, runbooks and  *)
(* operations.                                                             *)
(*                                                                         *)
(* The inductive invariant adds to the properties what holds inside the    *)
(* critical section: a saving process is alone in it, and what it read     *)
(* already has distinct ids, covers everything that was acknowledged and   *)
(* is what the file holds unless --fresh removed it.                       *)
(***************************************************************************)
EXTENDS RunbookStore, TLAPS

Exclusive ==
  /\ \A p, q \in Procs : Writing(p) /\ Inside(q) => p = q
  /\ \A p \in Procs : pc[p] \in {"parsed", "written", "replaced"} => op[p] = "save"

AllDistinct ==
  /\ OneRunbookPerIdentity
  /\ \A p \in Procs : HasRead(p) => Distinct(runbooks[p])

AllCovered ==
  /\ AcknowledgedIsDurable
  /\ \A p \in Procs : HasRead(p) => \A r \in acked : Covers(runbooks[p], r)
  /\ \A p \in Procs : pc[p] = "replaced" /\ arg[p] \in known => Covers(file.books, arg[p])

IInv == TypeOK /\ Exclusive /\ AllDistinct /\ AllCovered /\ ReadIsCurrent /\ file \in survivors

-----------------------------------------------------------------------------
\* In a store with distinct ids, saving r displaces the runbook with the id of
\* r, if there is one, and leaves the ids distinct.
LEMMA UpsertedIsLearned ==
  ASSUME NEW books \in Seq(Runbooks), Distinct(books), NEW r \in Runbooks
  PROVE  /\ Upserted(books, r) \in Seq(Runbooks)
         /\ Distinct(Upserted(books, r))
         /\ Elements(Upserted(books, r)) = (Elements(books) \ Skills!Rivals(r)) \union {r}
<1>1. CASE Rivals(books, r) = {}
  <2>1. Upserted(books, r) = Append(books, r)
    BY <1>1 DEF Upserted
  <2>2. \A k \in DOMAIN books : Identity[books[k]] # Identity[r] \/ Identity[r] = NoIdentity
    BY <1>1 DEF Rivals
  <2>3. Append(books, r) \in Seq(Runbooks) /\ Distinct(Append(books, r))
    BY <2>2 DEF Distinct
  <2>4. Elements(Append(books, r)) = Elements(books) \union {r}
    <3>1. DOMAIN Append(books, r) = DOMAIN books \union {Len(books) + 1}
      OBVIOUS
    <3>2. /\ \A k \in DOMAIN books : Append(books, r)[k] = books[k]
          /\ Append(books, r)[Len(books) + 1] = r
      OBVIOUS
    <3> QED BY <3>1, <3>2 DEF Elements
  <2>5. Elements(books) \ Skills!Rivals(r) = Elements(books)
    BY <2>2 DEF Elements, Skills!Rivals
  <2> QED BY <2>1, <2>3, <2>4, <2>5
<1>2. CASE Rivals(books, r) # {}
  <2>1. PICK k \in Rivals(books, r) : TRUE
    BY <1>2
  <2>2. k \in DOMAIN books /\ Identity[books[k]] = Identity[r] /\ Identity[r] # NoIdentity
    BY <2>1 DEF Rivals
  <2>3. \A n \in DOMAIN books : Identity[books[n]] = Identity[r] => n = k
    BY <2>2 DEF Distinct
  <2>4. Rivals(books, r) = {k}
    BY <2>1, <2>3 DEF Rivals
  <2>5. Upserted(books, r) = [books EXCEPT ![k] = r]
    <3>1. (CHOOSE i \in Rivals(books, r) : \A n \in Rivals(books, r) : i <= n) = k
      BY <2>2, <2>4
    <3> QED BY <1>2, <3>1 DEF Upserted
  <2> DEFINE new == [books EXCEPT ![k] = r]
  <2>6. new \in Seq(Runbooks) /\ DOMAIN new = DOMAIN books
        /\ new[k] = r /\ \A n \in DOMAIN books : n # k => new[n] = books[n]
    BY <2>2
  <2>7. Distinct(new)
    BY <2>2, <2>3, <2>6 DEF Distinct
  <2>8. Elements(new) = (Elements(books) \ Skills!Rivals(r)) \union {r}
    <3>1. ASSUME NEW n \in DOMAIN books, n # k PROVE books[n] \notin Skills!Rivals(r)
      BY <2>3, <3>1 DEF Skills!Rivals
    <3>2. books[k] \in Skills!Rivals(r)
      BY <2>2 DEF Skills!Rivals
    <3> HIDE DEF new
    <3> QED BY <2>2, <2>6, <3>1, <3>2 DEF Elements
  <2> QED BY <2>5, <2>6, <2>7, <2>8
<1> QED BY <1>1, <1>2

\* What is covered stays covered when another identity is saved, and what is
\* saved is covered.
LEMMA UpsertedCovers ==
  ASSUME NEW books \in Seq(Runbooks), Distinct(books), NEW r \in Runbooks
  PROVE  /\ Covers(Upserted(books, r), r)
         /\ \A s \in Runbooks :
              Covers(books, s) /\ (Identity[s] # Identity[r] \/ Identity[s] = NoIdentity)
                => Covers(Upserted(books, r), s)
<1>1. Elements(Upserted(books, r)) = (Elements(books) \ Skills!Rivals(r)) \union {r}
  BY UpsertedIsLearned
<1>2. \A q \in Elements(books) : q \in Skills!Rivals(r) =>
        Identity[q] = Identity[r] /\ Identity[r] # NoIdentity
  BY DEF Skills!Rivals
<1> QED BY <1>1, <1>2 DEF Covers

\* The file that a save() is about to put in place.
LEMMA ReplacementGood ==
  ASSUME IInv, NEW p \in Procs, Replace(p)
  PROVE  /\ file' \in Files
         /\ Distinct(file'.books)
         /\ Covers(file'.books, arg[p])
         /\ \A r \in acked' : r \in acked /\ Covers(file'.books, r)
<1> DEFINE new == Upserted(runbooks[p], arg[p])
<1>1. runbooks[p] \in Seq(Runbooks) /\ Distinct(runbooks[p]) /\ arg[p] \in Runbooks
      /\ acked \subseteq Runbooks
  BY DEF IInv, TypeOK, AllDistinct, HasRead, Replace
<1>2. file' = Valid(new)
  BY DEF Replace
<1>3. new \in Seq(Runbooks) /\ Distinct(new)
  BY <1>1, UpsertedIsLearned
<1>4. Covers(new, arg[p])
  BY <1>1, UpsertedCovers
<1>5. \A r \in acked' : r \in acked /\ Covers(new, r)
  <2> SUFFICES ASSUME NEW r \in acked' PROVE r \in acked /\ Covers(new, r)
    OBVIOUS
  <2>1. r \in acked /\ (Identity[r] # Identity[arg[p]] \/ Identity[r] = NoIdentity)
    BY DEF Replace
  <2>2. Covers(runbooks[p], r)
    BY <2>1 DEF IInv, AllCovered, HasRead, Replace
  <2> QED BY <1>1, <2>1, <2>2, UpsertedCovers
<1> HIDE DEF new
<1>6. file'.books = new /\ file' \in Files
  BY <1>2, <1>3 DEF Valid, Files
<1> QED BY <1>3, <1>4, <1>5, <1>6

\* The invariant holds of every file the store may start from.
LEMMA InitInv == Init => IInv
<1> SUFFICES ASSUME Init PROVE IInv
  OBVIOUS
<1>1. file \in Files /\ Distinct(file.books) /\ file.books \in Seq(Runbooks)
  BY StoreAssumption DEF Init, Files
<1>2. Elements(file.books) \subseteq Runbooks
  BY <1>1 DEF Elements
<1>3. TypeOK
  BY <1>1, <1>2, StoreAssumption DEF Init, TypeOK
<1>4. Exclusive /\ AllDistinct /\ AllCovered /\ ReadIsCurrent /\ file \in survivors
  BY <1>1 DEF Init, Exclusive, Writing, Inside, AllDistinct, OneRunbookPerIdentity, HasRead,
              AllCovered, AcknowledgedIsDurable, ReadIsCurrent
<1> QED BY <1>3, <1>4 DEF IInv

\* Types are preserved by every step.
LEMMA NextType == IInv /\ [Next]_vars => TypeOK'
<1> SUFFICES ASSUME IInv, [Next]_vars PROVE TypeOK'
  OBVIOUS
<1>1. ASSUME NEW p \in Procs, NEW what \in {"save", "lookup"}, NEW r \in Runbooks,
             Begin(p, what, r)
      PROVE  TypeOK'
  BY <1>1, StoreAssumption DEF Begin, IInv, TypeOK
<1>2. ASSUME NEW p \in Procs, Lookup(p) PROVE TypeOK'
  BY <1>1, <1>2 DEF Lookup, IInv, TypeOK
<1>3. ASSUME NEW p \in Procs, Lock(p) PROVE TypeOK'
  BY <1>3 DEF Lock, IInv, TypeOK
<1>4. ASSUME NEW p \in Procs, ReadFile(p) PROVE TypeOK'
  <2>1. runbooks' \in [Procs -> Seq(Runbooks)]
    BY <1>4 DEF ReadFile, IInv, TypeOK, Files
  <2> QED BY <1>4, <2>1 DEF ReadFile, Leave, IInv, TypeOK
<1>5. ASSUME NEW p \in Procs, ReadFails(p) \/ ReadErrors(p) \/ WriteFails(p) \/ Crash(p) PROVE TypeOK'
  BY <1>5 DEF ReadFails, ReadErrors, WriteFails, Crash, Leave, IInv, TypeOK
<1>6. ASSUME NEW p \in Procs, WriteTemporary(p) PROVE TypeOK'
  BY <1>6 DEF WriteTemporary, IInv, TypeOK
<1>7. ASSUME NEW p \in Procs, Replace(p) PROVE TypeOK'
  <2>1. file' \in Files
    BY <1>7, ReplacementGood
  <2>2. survivors' \subseteq Files /\ acked' \subseteq Runbooks /\ known' \subseteq Runbooks
    BY <1>7, <2>1 DEF Replace, Renamed, IInv, TypeOK
  <2>3. pc' \in [Procs -> {"idle", "waiting", "locked", "parsed", "written", "replaced"}]
    BY <1>7 DEF Replace, IInv, TypeOK
  <2> QED BY <1>7, <2>1, <2>2, <2>3 DEF Replace, IInv, TypeOK
<1>8. ASSUME NEW p \in Procs, SyncDirectory(p) PROVE TypeOK'
  <2>1. survivors' \subseteq Files /\ acked' \subseteq Runbooks
    BY <1>8 DEF SyncDirectory, Synced, IInv, TypeOK
  <2> QED BY <1>8, <2>1 DEF SyncDirectory, Leave, IInv, TypeOK
<1>9. CASE PowerLoss
  <2>1. file' \in Files /\ survivors' \subseteq Files
    BY <1>9 DEF PowerLoss, IInv, TypeOK
  <2> QED BY <1>9, <2>1 DEF PowerLoss, IInv, TypeOK
<1>10. CASE StartFresh
  <2>1. Absent \in Files
    BY DEF Absent, Files
  <2>2. file' \in Files /\ survivors' \subseteq Files /\ acked' = {} /\ known' = {}
    BY <1>10, <2>1 DEF StartFresh, IInv, TypeOK
  <2> QED BY <1>10, <2>2 DEF StartFresh, IInv, TypeOK
<1>11. CASE UNCHANGED vars
  BY <1>11 DEF vars, IInv, TypeOK
<1> QED BY <1>1, <1>2, <1>3, <1>4, <1>5, <1>6, <1>7, <1>8, <1>9, <1>10, <1>11
        DEF Next, Working, Save

\* A process inside the critical section that leaves it, or goes on with its
\* save, disturbs nobody.
LEMMA MovesOn ==
  ASSUME TypeOK, Exclusive, NEW p \in Procs, Inside(p), NEW to,
         op' = op, pc' = [pc EXCEPT ![p] = to],
         to = "idle" \/ (op[p] = "save" /\ to \in {"parsed", "written", "replaced"})
  PROVE  Exclusive'
<1>1. \A q \in Procs : Inside(q)' => Inside(q)
  BY DEF Inside, TypeOK
<1>2. \A q \in Procs : Writing(q)' => Writing(q)
  BY <1>1 DEF Writing
<1>3. \A q \in Procs : pc'[q] \in {"parsed", "written", "replaced"} => op'[q] = "save"
  BY DEF Exclusive, TypeOK
<1> QED BY <1>1, <1>2, <1>3 DEF Exclusive

\* A saving process stays alone in the critical section.
LEMMA NextExclusive == IInv /\ [Next]_vars => Exclusive'
<1> SUFFICES ASSUME IInv, [Next]_vars PROVE Exclusive'
  OBVIOUS
<1>0. TypeOK /\ Exclusive /\ \A p \in Procs : arg[p] \in Runbooks
  BY DEF IInv, TypeOK
<1>1. ASSUME NEW p \in Procs, NEW what \in {"save", "lookup"}, NEW r \in Runbooks,
             Begin(p, what, r)
      PROVE  Exclusive'
  BY <1>0, <1>1 DEF Begin, TypeOK, Exclusive, Writing, Inside
<1>2. ASSUME NEW p \in Procs, Lock(p) PROVE Exclusive'
  BY <1>0, <1>2 DEF Lock, Compatible, TypeOK, Exclusive, Writing, Inside
<1>3. ASSUME NEW p \in Procs, ReadFile(p) PROVE Exclusive'
  <2>1. Inside(p) /\ op' = op
    BY <1>3 DEF ReadFile, Inside
  <2>2. \/ pc' = [pc EXCEPT ![p] = "idle"]
        \/ op[p] = "save" /\ pc' = [pc EXCEPT ![p] = "parsed"]
    BY <1>3 DEF ReadFile, Leave
  <2> QED BY <1>0, <2>1, <2>2, MovesOn
<1>4. ASSUME NEW p \in Procs, ReadFails(p) \/ ReadErrors(p) \/ WriteFails(p) \/ SyncDirectory(p)
      PROVE  Exclusive'
  <2>1. Inside(p) /\ op' = op /\ pc' = [pc EXCEPT ![p] = "idle"]
    BY <1>4 DEF ReadFails, ReadErrors, WriteFails, SyncDirectory, Leave, Inside
  <2> QED BY <1>0, <2>1, MovesOn
<1>5. ASSUME NEW p \in Procs, WriteTemporary(p) \/ Replace(p) PROVE Exclusive'
  <2>1. Inside(p) /\ op' = op /\ op[p] = "save"
    BY <1>0, <1>5 DEF WriteTemporary, Replace, Inside, Exclusive
  <2>2. pc' = [pc EXCEPT ![p] = "written"] \/ pc' = [pc EXCEPT ![p] = "replaced"]
    BY <1>5 DEF WriteTemporary, Replace
  <2> QED BY <1>0, <2>1, <2>2, MovesOn
<1>6. ASSUME NEW p \in Procs, Crash(p) PROVE Exclusive'
  <2>1. op' = op /\ pc' = [pc EXCEPT ![p] = "idle"]
    BY <1>6 DEF Crash, Leave
  <2>2. CASE Inside(p)
    BY <1>0, <2>1, <2>2, MovesOn
  <2>3. CASE ~Inside(p)
    BY <1>0, <2>1, <2>3 DEF TypeOK, Exclusive, Writing, Inside
  <2> QED BY <2>2, <2>3
<1>7. CASE PowerLoss \/ StartFresh \/ UNCHANGED vars
  BY <1>0, <1>7 DEF PowerLoss, StartFresh, vars, TypeOK, Exclusive, Writing, Inside
<1> QED BY <1>0, <1>1, <1>2, <1>3, <1>4, <1>5, <1>6, <1>7 DEF Next, Working, Save, Lookup

\* Ids stay distinct, in the file and in what a power loss leaves.
LEMMA NextDistinct == IInv /\ [Next]_vars => AllDistinct'
<1> SUFFICES ASSUME IInv, [Next]_vars PROVE AllDistinct'
  OBVIOUS
<1> USE DEF AllDistinct, OneRunbookPerIdentity, HasRead
<1>1. ASSUME NEW p \in Procs, NEW what, NEW r, Begin(p, what, r) PROVE AllDistinct'
  BY <1>1 DEF Begin, IInv, TypeOK
<1>2. ASSUME NEW p \in Procs, Lock(p) \/ WriteTemporary(p) PROVE AllDistinct'
  BY <1>2 DEF Lock, WriteTemporary, IInv, TypeOK
<1>3. ASSUME NEW p \in Procs, ReadFile(p) PROVE AllDistinct'
  BY <1>3 DEF ReadFile, Leave, IInv, TypeOK
<1>4. ASSUME NEW p \in Procs, ReadFails(p) \/ ReadErrors(p) \/ WriteFails(p) \/ Crash(p) PROVE AllDistinct'
  BY <1>4 DEF ReadFails, ReadErrors, WriteFails, Crash, Leave, IInv, TypeOK
<1>5. ASSUME NEW p \in Procs, Replace(p) PROVE AllDistinct'
  <2>1. Distinct(file'.books)
    BY <1>5, ReplacementGood
  <2>2. survivors' = survivors \union {file'} /\ runbooks' = runbooks
        /\ \A q \in Procs : pc'[q] \in {"parsed", "written"} => pc[q] \in {"parsed", "written"}
    BY <1>5 DEF Replace, Renamed, IInv, TypeOK
  <2> QED BY <2>1, <2>2 DEF IInv
<1>6. ASSUME NEW p \in Procs, SyncDirectory(p) PROVE AllDistinct'
  BY <1>6 DEF SyncDirectory, Synced, Leave, IInv, TypeOK
<1>7. CASE PowerLoss
  BY <1>7 DEF PowerLoss, IInv
<1>8. CASE StartFresh
  BY <1>8 DEF StartFresh, Absent, Distinct, IInv
<1>9. CASE UNCHANGED vars
  BY <1>9 DEF vars, IInv
<1> QED BY <1>1, <1>2, <1>3, <1>4, <1>5, <1>6, <1>7, <1>8, <1>9
        DEF Next, Working, Save, Lookup

\* What was acknowledged stays covered.
LEMMA NextCovered == IInv /\ [Next]_vars => AllCovered'
<1> SUFFICES ASSUME IInv, [Next]_vars PROVE AllCovered'
  OBVIOUS
<1> USE DEF AllCovered, AcknowledgedIsDurable, HasRead
<1>1. ASSUME NEW p \in Procs, NEW what, NEW r, Begin(p, what, r) PROVE AllCovered'
  BY <1>1 DEF Begin, IInv, TypeOK
<1>2. ASSUME NEW p \in Procs, Lock(p) \/ WriteTemporary(p) PROVE AllCovered'
  BY <1>2 DEF Lock, WriteTemporary, IInv, TypeOK
<1>3. ASSUME NEW p \in Procs, ReadFile(p) PROVE AllCovered'
  BY <1>3 DEF ReadFile, Leave, IInv, TypeOK
<1>4. ASSUME NEW p \in Procs, ReadFails(p) \/ ReadErrors(p) \/ WriteFails(p) \/ Crash(p) PROVE AllCovered'
  BY <1>4 DEF ReadFails, ReadErrors, WriteFails, Crash, Leave, IInv, TypeOK
<1>5. ASSUME NEW p \in Procs, Replace(p) PROVE AllCovered'
  <2>1. Covers(file'.books, arg[p]) /\ \A r \in acked' : r \in acked /\ Covers(file'.books, r)
    BY <1>5, ReplacementGood
  <2>2. \A q \in Procs : q # p => pc'[q] \in {"idle", "waiting"}
    BY <1>5 DEF Replace, IInv, TypeOK, Exclusive, Writing, Inside
  <2>3. pc'[p] = "replaced" /\ arg' = arg /\ survivors' = survivors \union {file'}
    BY <1>5 DEF Replace, Renamed, IInv, TypeOK
  <2> QED BY <2>1, <2>2, <2>3 DEF IInv
<1>6. ASSUME NEW p \in Procs, SyncDirectory(p) PROVE AllCovered'
  <2>1. \A q \in Procs : pc'[q] \in {"idle", "waiting"}
    BY <1>6 DEF SyncDirectory, Leave, IInv, TypeOK, Exclusive, Writing, Inside
  <2>2. \A r \in acked' : Covers(file.books, r)
    BY <1>6 DEF SyncDirectory, IInv
  <2>3. survivors' = {file} /\ file' = file
    BY <1>6 DEF SyncDirectory, Synced
  <2> QED BY <2>1, <2>2, <2>3
<1>7. CASE PowerLoss
  BY <1>7 DEF PowerLoss, IInv
<1>8. CASE StartFresh
  BY <1>8 DEF StartFresh, IInv
<1>9. CASE UNCHANGED vars
  BY <1>9 DEF vars, IInv
<1> QED BY <1>1, <1>2, <1>3, <1>4, <1>5, <1>6, <1>7, <1>8, <1>9
        DEF Next, Working, Save, Lookup

\* What a saving process has read stays the content of the file, which only
\* --fresh touches outside the lock.
LEMMA NextCurrent == IInv /\ [Next]_vars => ReadIsCurrent'
<1> SUFFICES ASSUME IInv, [Next]_vars PROVE ReadIsCurrent'
  OBVIOUS
<1> USE DEF ReadIsCurrent, HasRead, IInv, TypeOK
<1>1. ASSUME NEW p \in Procs, NEW what, NEW r, Begin(p, what, r) PROVE ReadIsCurrent'
  BY <1>1 DEF Begin
<1>2. ASSUME NEW p \in Procs, Lock(p) \/ WriteTemporary(p) PROVE ReadIsCurrent'
  BY <1>2 DEF Lock, WriteTemporary
<1>3. ASSUME NEW p \in Procs, ReadFile(p) PROVE ReadIsCurrent'
  BY <1>3 DEF ReadFile, Leave
<1>4. ASSUME NEW p \in Procs, ReadFails(p) \/ ReadErrors(p) \/ WriteFails(p) \/ Crash(p) \/ SyncDirectory(p)
      PROVE  ReadIsCurrent'
  BY <1>4 DEF ReadFails, ReadErrors, WriteFails, Crash, SyncDirectory, Leave
<1>5. ASSUME NEW p \in Procs, Replace(p) PROVE ReadIsCurrent'
  <2>1. \A q \in Procs : pc'[q] \notin {"parsed", "written"}
    BY <1>5 DEF Replace, Exclusive, Writing, Inside
  <2> QED BY <2>1
<1>6. CASE PowerLoss \/ StartFresh \/ UNCHANGED vars
  BY <1>6 DEF PowerLoss, StartFresh, vars
<1> QED BY <1>1, <1>2, <1>3, <1>4, <1>5, <1>6 DEF Next, Working, Save, Lookup

\* A power loss may leave the file as it is.
LEMMA NextSurvives == IInv /\ [Next]_vars => (file \in survivors)'
<1> SUFFICES ASSUME IInv, [Next]_vars PROVE (file \in survivors)'
  OBVIOUS
<1>1. CASE UNCHANGED <<file, survivors>>
  BY <1>1 DEF IInv
<1>2. ASSUME NEW p \in Procs, Replace(p) \/ SyncDirectory(p) PROVE (file \in survivors)'
  BY <1>2 DEF Replace, Renamed, SyncDirectory, Synced
<1>3. CASE PowerLoss \/ StartFresh
  BY <1>3 DEF PowerLoss, StartFresh
<1> QED BY <1>1, <1>2, <1>3
        DEF Next, Working, Save, Lookup, Begin, Lock, ReadFile, ReadFails, ReadErrors,
            WriteTemporary, WriteFails, Crash, vars

\* The invariant holds in every reachable state.
THEOREM Invariant == Spec => []IInv
<1>1. IInv /\ [Next]_vars => IInv'
  BY NextType, NextExclusive, NextDistinct, NextCovered, NextCurrent, NextSurvives DEF IInv
<1> QED BY InitInv, <1>1, PTL DEF Spec

\* Type correctness of the store.
THEOREM TypeCorrect == Spec => []TypeOK
<1>1. IInv => TypeOK
  BY DEF IInv
<1> QED BY <1>1, Invariant, PTL

\* No interleaving of saves, crashes and power losses stores one id twice.
THEOREM IdentitySafe == Spec => []OneRunbookPerIdentity
<1>1. IInv => OneRunbookPerIdentity
  BY DEF IInv, AllDistinct
<1> QED BY <1>1, Invariant, PTL

\* A save() that returned survives crashes, power losses and other saves.
THEOREM DurabilitySafe == Spec => []AcknowledgedIsDurable
<1>1. IInv => AcknowledgedIsDurable
  BY DEF IInv, AllCovered
<1> QED BY <1>1, Invariant, PTL

\* No update of another process is lost: what a save() read is what it replaces.
THEOREM ReadSafe == Spec => []ReadIsCurrent
<1>1. IInv => ReadIsCurrent
  BY DEF IInv
<1> QED BY <1>1, Invariant, PTL

-----------------------------------------------------------------------------
\* The store implements LearnedSkills

\* At most one process is between its read and its replace: what is in effect
\* is what that process has read.
LEMMA HeldNow ==
  ASSUME IInv, NEW p \in Procs, HasRead(p)
  PROVE  InEffect = runbooks[p]
<1>1. \A q \in Procs : HasRead(q) => q = p
  BY DEF IInv, TypeOK, Exclusive, Writing, Inside, HasRead
<1>2. (CHOOSE q \in Procs : HasRead(q)) = p
  BY <1>1
<1> QED BY <1>2 DEF InEffect

\* The same, after a step.
LEMMA HeldNext ==
  ASSUME IInv', NEW p \in Procs, HasRead(p)'
  PROVE  InEffect' = runbooks'[p]
<1>1. \A q \in Procs : HasRead(q)' => q = p
  BY DEF IInv, TypeOK, Exclusive, Writing, Inside, HasRead
<1>2. (CHOOSE q \in Procs : HasRead(q)') = p
  BY <1>1
<1> QED BY <1>2 DEF InEffect

\* A step that changes nobody's being between read and replace, nor what such a
\* process has read, nor the file, leaves what is in effect.
LEMMA HeldKept ==
  ASSUME IInv, IInv', UNCHANGED file,
         \A q \in Procs : HasRead(q)' <=> HasRead(q),
         \A q \in Procs : HasRead(q) => runbooks'[q] = runbooks[q]
  PROVE  InEffect' = InEffect
<1>1. CASE \E q \in Procs : HasRead(q)
  <2>1. PICK q \in Procs : HasRead(q)
    BY <1>1
  <2>2. HasRead(q)' /\ runbooks'[q] = runbooks[q]
    BY <2>1
  <2> QED BY <2>1, <2>2, HeldNow, HeldNext
<1>2. CASE ~\E q \in Procs : HasRead(q)
  <2>1. ~\E q \in Procs : HasRead(q)'
    BY <1>2
  <2> QED BY <1>2, <2>1 DEF InEffect
<1> QED BY <1>1, <1>2

\* While a process writes, no other is between its read and its replace.
LEMMA NobodyElse ==
  ASSUME IInv, NEW p \in Procs, Writing(p)
  PROVE  \A q \in Procs : HasRead(q) => q = p
BY DEF IInv, TypeOK, Exclusive, Writing, Inside, HasRead

\* A power loss may leave one more file: what can be recovered gains its books.
LEMMA AfterwardsImage ==
  ASSUME NEW S, NEW x
  PROVE  {Elements(f.books) : f \in S \union {x}}
           = {Elements(f.books) : f \in S} \union {Elements(x.books)}
OBVIOUS

\* Each rename learns one runbook, each directory sync is a checkpoint, --fresh
\* forgets at once, when the save() in progress fails, or in vain, and nothing
\* else touches what is learned.
THEOREM LearnsOneByOne == Spec => SkillsSpec
<1>1. Init => Skills!Init
  <2> SUFFICES ASSUME Init PROVE Skills!Init
    OBVIOUS
  <2>1. file.books \in Seq(Runbooks) /\ survivors = {file}
    BY StoreAssumption DEF Init, Files
  <2>2. InEffect = file.books
    BY DEF InEffect, HasRead, Init
  <2> QED BY <2>1, <2>2 DEF Skills!Init, Elements
<1>2. IInv /\ IInv' /\ [Next]_vars => [Skills!Next]_(Skills!vars)
  <2> SUFFICES ASSUME IInv, IInv', [Next]_vars
               PROVE  [Skills!Next]_(Skills!vars)
    OBVIOUS
  <2>0. ASSUME UNCHANGED survivors, InEffect' = InEffect PROVE UNCHANGED Skills!vars
    BY <2>0 DEF Skills!vars, Elements
  <2>1. ASSUME UNCHANGED <<file, survivors, runbooks>>,
               \A q \in Procs : HasRead(q)' <=> HasRead(q)
        PROVE  UNCHANGED Skills!vars
    BY <2>0, <2>1, HeldKept
  <2>2. ASSUME NEW p \in Procs,
               Lock(p) \/ ReadFails(p) \/ ReadErrors(p) \/ WriteTemporary(p)
        PROVE  UNCHANGED Skills!vars
    <3>1. \A q \in Procs : HasRead(q)' <=> HasRead(q)
      BY <2>2 DEF Lock, ReadFails, ReadErrors, WriteTemporary, Leave, HasRead, IInv, TypeOK
    <3> QED BY <2>1, <2>2, <3>1 DEF Lock, ReadFails, ReadErrors, WriteTemporary
  <2>3. ASSUME NEW p \in Procs, NEW what, NEW r, Begin(p, what, r) PROVE UNCHANGED Skills!vars
    <3>1. \A q \in Procs : HasRead(q)' <=> HasRead(q)
      BY <2>3 DEF Begin, HasRead, IInv, TypeOK
    <3> QED BY <2>1, <2>3, <3>1 DEF Begin
  <2>4. ASSUME NEW p \in Procs, ReadFile(p) PROVE UNCHANGED Skills!vars
    <3>1. UNCHANGED <<file, survivors>> /\ pc[p] = "locked" /\ runbooks'[p] = file.books
          /\ \A q \in Procs : q # p => pc'[q] = pc[q] /\ runbooks'[q] = runbooks[q]
      BY <2>4 DEF ReadFile, Leave, IInv, TypeOK
    <3>2. CASE op[p] = "save"
      <4>1. ~\E q \in Procs : HasRead(q)
        BY <3>1, <3>2, NobodyElse DEF Writing, Inside, HasRead
      <4>2. InEffect = file.books
        BY <4>1 DEF InEffect
      <4>3. HasRead(p)'
        BY <2>4, <3>2 DEF ReadFile, HasRead, IInv, TypeOK
      <4> QED BY <2>0, <3>1, <4>2, <4>3, HeldNext
    <3>3. CASE op[p] # "save"
      <4>1. \A q \in Procs : HasRead(q)' <=> HasRead(q)
        BY <2>4, <3>1, <3>3 DEF ReadFile, Leave, HasRead, IInv, TypeOK
      <4>2. \A q \in Procs : HasRead(q) => runbooks'[q] = runbooks[q]
        BY <3>1 DEF HasRead
      <4> QED BY <2>0, <3>1, <4>1, <4>2, HeldKept
    <3> QED BY <3>2, <3>3
  <2>5. ASSUME NEW p \in Procs, Replace(p) PROVE Skills!Next
    <3>1. HasRead(p) /\ runbooks[p] \in Seq(Runbooks) /\ Distinct(runbooks[p])
          /\ arg[p] \in Runbooks /\ Writing(p)
      BY <2>5 DEF Replace, HasRead, IInv, TypeOK, AllDistinct, Exclusive, Writing, Inside
    <3>2. file'.books = Upserted(runbooks[p], arg[p]) /\ survivors' = survivors \union {file'}
      BY <2>5 DEF Replace, Renamed, Valid
    <3>3. ~\E q \in Procs : HasRead(q)'
      BY <2>5, <3>1, NobodyElse DEF Replace, HasRead, IInv, TypeOK
    <3>4. InEffect = runbooks[p] /\ InEffect' = file'.books
      BY <3>1, <3>3, HeldNow DEF InEffect
    <3>5. Elements(file'.books) = (Elements(runbooks[p]) \ Skills!Rivals(arg[p])) \union {arg[p]}
      BY <3>1, <3>2, UpsertedIsLearned
    <3>6. {Elements(f.books) : f \in survivors}'
            = {Elements(f.books) : f \in survivors} \union {Elements(file'.books)}
      BY <3>2 DEF Elements
    <3>7. Elements(InEffect)' = Elements(file'.books) /\ Elements(InEffect) = Elements(runbooks[p])
      BY <3>4 DEF Elements
    <3>8. Skills!Learn(arg[p])
      BY <3>7, <3>5, <3>6 DEF Skills!Learn
    <3> QED BY <3>1, <3>8 DEF Skills!Next
  <2>6. ASSUME NEW p \in Procs, SyncDirectory(p) PROVE Skills!Next
    <3>1. UNCHANGED <<file, runbooks>> /\ survivors' = {file} /\ Writing(p) /\ ~HasRead(p)
      BY <2>6 DEF SyncDirectory, Synced, Writing, Inside, HasRead, IInv, TypeOK, Exclusive
    <3>2. \A q \in Procs : ~HasRead(q) /\ ~HasRead(q)'
      BY <2>6, <3>1, NobodyElse DEF SyncDirectory, Leave, HasRead, IInv, TypeOK
    <3>3. InEffect = file.books /\ InEffect' = file.books
      BY <3>1, <3>2 DEF InEffect
    <3> QED BY <3>1, <3>3 DEF Elements, Skills!Next, Skills!Checkpoint
  <2>7. ASSUME NEW p \in Procs, WriteFails(p) \/ Crash(p) PROVE [Skills!Next]_(Skills!vars)
    <3>1. UNCHANGED <<file, survivors, runbooks>> /\ ~HasRead(p)'
          /\ \A q \in Procs : q # p => pc'[q] = pc[q]
      BY <2>7 DEF WriteFails, Crash, Leave, HasRead, IInv, TypeOK
    <3>2. CASE HasRead(p)
      <4>1. Writing(p)
        BY <3>2 DEF HasRead, Writing, Inside, IInv, TypeOK, Exclusive
      <4>2. ~\E q \in Procs : HasRead(q)'
        BY <3>1, <4>1, NobodyElse DEF HasRead
      <4>3. InEffect = runbooks[p] /\ InEffect' = file.books
        BY <3>1, <3>2, <4>2, HeldNow DEF InEffect
      <4>4. CASE runbooks[p] = file.books
        BY <2>0, <3>1, <4>3, <4>4
      <4>5. CASE FreshStarts /\ file = Absent
        <5>1. Elements(file.books) = {}
          BY <4>5 DEF Absent, Elements
        <5>2. {} \in {Elements(f.books) : f \in survivors}
          BY <5>1 DEF IInv
        <5>3. UNCHANGED {Elements(f.books) : f \in survivors}
          BY <3>1
        <5>4. Elements(InEffect)' = {}
          BY <4>3, <3>1, <5>1
        <5>5. {Elements(f.books) : f \in survivors}'
                 = {Elements(f.books) : f \in survivors} \union {{}}
          BY <5>2, <5>3
        <5>6. Skills!Forget
          BY <4>5, <5>4, <5>5 DEF Skills!Forget
        <5> QED BY <5>6 DEF Skills!Next
      <4> QED BY <3>2, <4>4, <4>5 DEF IInv, ReadIsCurrent
    <3>3. CASE ~HasRead(p)
      <4>1. \A q \in Procs : HasRead(q)' <=> HasRead(q)
        BY <3>1, <3>3 DEF HasRead
      <4> QED BY <2>1, <3>1, <4>1
    <3> QED BY <3>2, <3>3
  <2>8. CASE PowerLoss
    <3>1. InEffect' = file'.books
      BY <2>8 DEF PowerLoss, InEffect, HasRead
    <3> QED BY <2>8, <3>1 DEF PowerLoss, Elements, Skills!Next, Skills!LosePower
  <2>9. CASE StartFresh
    <3>1. FreshStarts /\ file' = Absent /\ survivors' = survivors \union {Absent}
          /\ UNCHANGED <<pc, runbooks>>
      BY <2>9 DEF StartFresh
    <3>2. Elements(Absent.books) = {}
      BY DEF Absent, Elements
    <3>3. {Elements(f.books) : f \in survivors}'
            = {Elements(f.books) : f \in survivors} \union {{}}
      BY <3>1, <3>2, AfterwardsImage
    <3>4. InEffect' = InEffect \/ InEffect' = Absent.books
      <4>1. CASE \E q \in Procs : HasRead(q)
        <5>1. PICK q \in Procs : HasRead(q)
          BY <4>1
        <5>2. HasRead(q)' /\ runbooks'[q] = runbooks[q]
          BY <3>1, <5>1 DEF HasRead
        <5> QED BY <5>1, <5>2, HeldNow, HeldNext
      <4>2. CASE ~\E q \in Procs : HasRead(q)
        <5>1. ~\E q \in Procs : HasRead(q)'
          BY <3>1, <4>2 DEF HasRead
        <5> QED BY <3>1, <5>1 DEF InEffect
      <4> QED BY <4>1, <4>2
    <3>5. Elements(InEffect)' = Elements(InEffect) \/ Elements(InEffect)' = {}
      BY <3>2, <3>4 DEF Elements
    <3>6. Skills!Forget
      BY <3>1, <3>3, <3>5 DEF Skills!Forget
    <3> QED BY <3>6 DEF Skills!Next
  <2>10. CASE UNCHANGED vars
    BY <2>1, <2>10 DEF vars, HasRead
  <2> QED BY <2>2, <2>3, <2>4, <2>5, <2>6, <2>7, <2>8, <2>9, <2>10
          DEF Next, Working, Save, Lookup
<1> QED BY <1>1, <1>2, Invariant, PTL DEF Spec, SkillsSpec, Skills!Spec
=============================================================================
