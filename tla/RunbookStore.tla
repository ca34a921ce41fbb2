---------------------------- MODULE RunbookStore ----------------------------
(***************************************************************************)
(* JSONRunbookStore: one JSON file of runbooks, shared by processes that   *)
(* each run one save() or lookup() at a time, under flock on a sidecar     *)
(* file.                                                                   *)
(*                                                                         *)
(* The file is what its name reaches; what a power loss leaves is one of   *)
(* the files the name reached since the directory was last synced.  A      *)
(* temporary file is fsynced before it is renamed, so none of these is     *)
(* torn.  A process may die anywhere: the kernel drops its lock.           *)
(***************************************************************************)
EXTENDS Naturals, Sequences

CONSTANTS
  Procs,       \* processes that open the store
  Runbooks,    \* valid runbook documents
  Identity,    \* the id of each runbook
  NoIdentity,  \* the value of Identity for one without a usable "id"
  Initial,     \* the files the store may start from
  FreshStarts, \* may a session start with --fresh, which unlinks the file?
  PowerFails,  \* may the power fail?
  MaxOps       \* bound: operations begun

Files == [kind : {"absent", "corrupt", "valid"}, books : Seq(Runbooks)]

Absent == [kind |-> "absent", books |-> <<>>]
Valid(books) == [kind |-> "valid", books |-> books]

\* No two runbooks of a sequence have the same identity.
Distinct(books) ==
  \A m, n \in DOMAIN books :
    Identity[books[m]] = Identity[books[n]] /\ Identity[books[m]] # NoIdentity => m = n

ASSUME StoreAssumption ==
  /\ Identity \in [Runbooks -> {Identity[r] : r \in Runbooks}]
  /\ Initial \subseteq {f \in Files : Distinct(f.books) /\ (f.kind # "valid" => f.books = <<>>)}
  /\ FreshStarts \in BOOLEAN
  /\ PowerFails \in BOOLEAN
  /\ MaxOps \in Nat

VARIABLES
  file,      \* what self.path reaches
  survivors, \* the files a power loss may leave
  pc,        \* where each process stands
  op,        \* "save" or "lookup"
  arg,       \* the runbook to save
  runbooks,  \* the local of save() and lookup(): what was read
  outcome,   \* how each process's last operation ended
  acked,     \* history: runbooks whose save() returned, not displaced since
  known,     \* history: runbooks saved, or there at the start, since --fresh
  ops        \* operations begun

vars == <<file, survivors, pc, op, arg, runbooks, outcome, acked, known, ops>>

Elements(books) == {books[k] : k \in DOMAIN books}

Init ==
  /\ file \in Initial
  /\ survivors = {file}
  /\ pc       = [p \in Procs |-> "idle"]
  /\ op       = [p \in Procs |-> "lookup"]
  /\ arg      \in [Procs -> Runbooks]
  /\ runbooks = [p \in Procs |-> <<>>]
  /\ outcome  = [p \in Procs |-> "none"]
  /\ acked    = {}
  /\ known    = Elements(file.books)
  /\ ops      = 0

-----------------------------------------------------------------------------
\* The lock

\* A descriptor holds the lock from flock() to the end of the with-block.
Inside(p)  == pc[p] \notin {"idle", "waiting"}
Writing(p) == Inside(p) /\ op[p] = "save"

\* Fault: writers share the lock too.
Shareable(p) == \A q \in Procs : Inside(q) => op[q] = op[p]

\* LOCK_EX for save, LOCK_SH for lookup.
Compatible(p) ==
  \A q \in Procs : Inside(q) => op[q] = "lookup" /\ op[p] = "lookup"

Lock(p) ==
  /\ pc[p] = "waiting"
  /\ Compatible(p)
  /\ pc' = [pc EXCEPT ![p] = "locked"]
  /\ UNCHANGED <<file, survivors, op, arg, runbooks, outcome, acked, known, ops>>

\* Fault: an exception leaves the with-block with the lock still held.
LeaveLocked(p, how) ==
  /\ pc'      = [pc EXCEPT ![p] = IF how = "ok" THEN "idle" ELSE "locked"]
  /\ outcome' = [outcome EXCEPT ![p] = how]

\* The with-block is left: the lock is released and the operation is over.
Leave(p, how) ==
  /\ pc'      = [pc EXCEPT ![p] = "idle"]
  /\ outcome' = [outcome EXCEPT ![p] = how]

-----------------------------------------------------------------------------
\* save and lookup

\* A document that is not finite JSON is refused here, before anything is done.
Begin(p, what, r) ==
  /\ pc[p] = "idle"
  /\ ops < MaxOps
  /\ ops'     = ops + 1
  /\ op'      = [op EXCEPT ![p] = what]
  /\ arg'     = [arg EXCEPT ![p] = r]
  /\ outcome' = [outcome EXCEPT ![p] = "none"]
  /\ pc'      = [pc EXCEPT ![p] = "waiting"]
  /\ UNCHANGED <<file, survivors, runbooks, acked, known>>

Save(p, r) == Begin(p, "save", r)
Lookup(p)  == Begin(p, "lookup", arg[p])

Readable == file.kind # "corrupt"

ReadFile(p) ==
  /\ pc[p] = "locked"
  /\ Readable
  /\ runbooks' = [runbooks EXCEPT ![p] = file.books]
  /\ IF op[p] = "save"
     THEN pc' = [pc EXCEPT ![p] = "parsed"] /\ UNCHANGED outcome
     ELSE Leave(p, "ok")
  /\ UNCHANGED <<file, survivors, op, arg, acked, known, ops>>

\* RunbookStoreCorruptionError out of the with-block, for save and for lookup.
ReadFails(p) ==
  /\ pc[p] = "locked"
  /\ ~Readable
  /\ Leave(p, "corrupt")
  /\ UNCHANGED <<file, survivors, op, arg, runbooks, acked, known, ops>>

\* An OSError on the way: an I/O error, or the file was removed between the
\* exists() and the open().
ReadErrors(p) ==
  /\ pc[p] = "locked"
  /\ Leave(p, "failed")
  /\ UNCHANGED <<file, survivors, op, arg, runbooks, acked, known, ops>>

Rivals(books, r) ==
  {k \in DOMAIN books : Identity[books[k]] = Identity[r] /\ Identity[r] # NoIdentity}

\* The first entry with the same usable id is replaced; else r is appended.
Upserted(books, r) ==
  IF Rivals(books, r) = {} THEN Append(books, r)
  ELSE [books EXCEPT ![CHOOSE k \in Rivals(books, r) : \A n \in Rivals(books, r) : k <= n] = r]

\* The temporary file is written and fsynced.
WriteTemporary(p) ==
  /\ pc[p] = "parsed"
  /\ pc' = [pc EXCEPT ![p] = "written"]
  /\ UNCHANGED <<file, survivors, op, arg, runbooks, outcome, acked, known, ops>>

Renamed(f) == survivors \union {f}

\* os.replace: the name reaches the new file, the directory is not yet synced.
Replace(p) ==
  /\ pc[p] = "written"
  /\ LET new == Valid(Upserted(runbooks[p], arg[p]))
     IN  /\ file'      = new
         /\ survivors' = Renamed(new)
  /\ acked' = {r \in acked : Identity[r] # Identity[arg[p]] \/ Identity[r] = NoIdentity}
  /\ known' = known \union {arg[p]}
  /\ pc'    = [pc EXCEPT ![p] = "replaced"]
  /\ UNCHANGED <<op, arg, runbooks, outcome, ops>>

\* Fault: nobody syncs the directory.
SyncedNothing == survivors

Synced == {file}

\* os.fsync on the directory, after which save() returns.
SyncDirectory(p) ==
  /\ pc[p] = "replaced"
  /\ survivors' = Synced
  /\ acked' = acked \union ({arg[p]} \intersect known)
  /\ Leave(p, "ok")
  /\ UNCHANGED <<file, op, arg, runbooks, known, ops>>

\* OSError: from the temporary file (which is unlinked) or from os.replace, or
\* from opening or syncing the directory when the file is already replaced.
WriteFails(p) ==
  /\ pc[p] \in {"parsed", "written", "replaced"}
  /\ Leave(p, "failed")
  /\ UNCHANGED <<file, survivors, op, arg, runbooks, acked, known, ops>>

-----------------------------------------------------------------------------
\* The environment

\* A process is killed; the kernel closes its descriptor.
Crash(p) ==
  /\ pc[p] # "idle"
  /\ Leave(p, "none")
  /\ UNCHANGED <<file, survivors, op, arg, runbooks, acked, known, ops>>

PowerLoss ==
  /\ PowerFails
  /\ file' \in survivors
  /\ survivors' = {file'}
  /\ pc'        = [p \in Procs |-> "idle"]
  /\ outcome'   = [p \in Procs |-> "none"]
  /\ UNCHANGED <<op, arg, runbooks, acked, known, ops>>

\* A session starts with --fresh: STORE.unlink(missing_ok=True), no lock taken.
StartFresh ==
  /\ FreshStarts
  /\ file'      = Absent
  /\ survivors' = survivors \union {Absent}
  /\ acked'     = {}
  /\ known'     = {}
  /\ UNCHANGED <<pc, op, arg, runbooks, outcome, ops>>

-----------------------------------------------------------------------------
Working(p) == \/ Lock(p) \/ ReadFile(p) \/ ReadFails(p) \/ ReadErrors(p)
              \/ WriteTemporary(p) \/ Replace(p) \/ SyncDirectory(p) \/ WriteFails(p)

Next ==
  \/ \E p \in Procs : \/ \E r \in Runbooks : Save(p, r)
                      \/ Lookup(p) \/ Working(p) \/ Crash(p)
  \/ PowerLoss
  \/ StartFresh

Spec == Init /\ [][Next]_vars

\* A process that can go on does, or is killed.
LiveSpec == Spec /\ \A p \in Procs : WF_vars(Working(p))

-----------------------------------------------------------------------------
\* Properties

\* Every variable has the type of its Python or file-system counterpart.
TypeOK ==
  /\ file \in Files
  /\ survivors \subseteq Files
  /\ pc \in [Procs -> {"idle", "waiting", "locked", "parsed", "written", "replaced"}]
  /\ op \in [Procs -> {"save", "lookup"}]
  /\ arg \in [Procs -> Runbooks]
  /\ runbooks \in [Procs -> Seq(Runbooks)]
  /\ outcome \in [Procs -> {"none", "ok", "failed", "corrupt"}]
  /\ acked \subseteq Runbooks
  /\ known \subseteq Runbooks
  /\ ops \in 0 .. MaxOps

\* What a process read under its lock is still what the file holds when it
\* comes to replace it, unless --fresh has removed the file meanwhile: no update
\* of another process is lost.
HasRead(p) == pc[p] \in {"parsed", "written"}
ReadIsCurrent ==
  \A p \in Procs : HasRead(p) =>
    runbooks[p] = file.books \/ (FreshStarts /\ file = Absent)

\* No two stored runbooks have the same id, whatever was saved concurrently and
\* whatever a power loss leaves.
OneRunbookPerIdentity == \A f \in survivors \union {file} : Distinct(f.books)

\* r or a later runbook with its id is among the books.
Covers(books, r) ==
  \E q \in Elements(books) : q = r \/ (Identity[q] = Identity[r] /\ Identity[r] # NoIdentity)

\* A runbook whose save() returned is in the file until a runbook with its id
\* is saved, and a power loss cannot take it away.
AcknowledgedIsDurable ==
  \A r \in acked : \A f \in survivors \union {file} : Covers(f.books, r)

\* Every operation ends although other processes die holding the lock.
EveryOperationEnds == \A p \in Procs : pc[p] = "waiting" ~> pc[p] = "idle"

\* The store is a set of learned runbooks that grows one at a time.  While a
\* save() is between its read and its replace, which nobody else can read, the
\* set is what it has read.
InEffect ==
  IF \E p \in Procs : HasRead(p) THEN runbooks[CHOOSE p \in Procs : HasRead(p)]
  ELSE file.books

Skills == INSTANCE LearnedSkills WITH
  Forgets <- FreshStarts, learned <- Elements(InEffect),
  recoverable <- {Elements(f.books) : f \in survivors}
SkillsSpec == Skills!Spec
=============================================================================
