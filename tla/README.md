# Runbook voice agent: TLA+ models, checks and proofs

The repository is a voice concierge that learns *runbooks*. An utterance that
matches a learned runbook is replayed step by step (the warm path), with a
spoken confirmation before anything irreversible. An utterance that matches
nothing becomes a background *cold task*: agents in boxes search for a way to do
it, and what they find is distilled into a new runbook. Beside it stand a booking
core (search, choose, book, cancel), an auth broker and vault that hold
credentials and grants, and a small console server.

This directory models the parts with a state of their own. Paths below are
relative to the repository; `rv/` stands for `src/runbook_voice/`.

    tlc -workers 2 -config ColdTasks_safety.cfg MCColdTasks     # one run
    tlapm ColdTasksProofs.tla                                   # one proof module

## 1. Inventory

| Component | State it keeps | Operations | What makes it hard | What makes it correct |
|---|---|---|---|---|
| Cold-task coordinator, `rv/cold_tasks.py` | jobs and their status, background tasks, submissions in flight, `_closed` | `submit_no_match`, `wait`, `cancel`, `close`, `_execute`, notifier | four kinds of coroutine interleave, each may be cancelled at each await; a playback thread nobody can stop | a terminal status is final, every job ends, close() leaves nothing, success was heard |
| Executor, `rv/executor.py`, with `rv/runbooks.py`, `rv/booking_bridge.py` | one replay: bound slots, position, step results | `execute`, `_confirm`, the runner's `execute` | answers other than booleans, errors after the effect, timeouts that leave a process in the box | each step at most once and in order; nothing irreversible without its own approval; the audit trail is true |
| Runbook store, `rv/runbook_store.py` | a JSON file under a lock file, temporary files | `save`, `lookup`, `list` | several processes, I/O errors, killed processes, power loss, `--fresh` | no lost update, one runbook per id, an acknowledged save survives, no torn file |
| Session, `rv/assistant.py`, `rv/dialogue.py` | answer clock, the pending question, the learning jobs, the thread in `input()` | one turn: lookup, ask, replay or submit; quit, Ctrl-C | two lookups of a store that others change; jobs that outlive their turn; a read nobody can cancel | what is announced is replayed; nobody accepted is forgotten; the end waits for the jobs |
| Learning: `rv/distiller.py`, the matcher of `rv/runbook_store.py`, slot rules of `rv/runbooks.py` and `rv/dialogue.py`, `rv/warm_replay.py` | none beyond a call | judge, distil, save, match, ask, resolve, substitute | the output of each stage is the input of a later one, days apart | a slot has its evidence; a learned skill replays; a request about the same thing is warm |
| Branching search, `rv/branch_search.py`, `rv/sailbox.py` | boxes, a round's branches, trajectories and decisions of the tree | boot, seed, checkpoint fan-out, launch, decide, clean up, persist | threads behind cancelled coroutines; one child of several failing | every box is terminated; the spending is bounded; a search ends |
| In-box agent, `rv/branch_agent.py`, and its launcher in `rv/branch_search.py` | the conversation with the model; job, step journal, trajectory and DONE in the box | ask, run, answer, record, write, sign; clear, start, poll, read, salvage | files and processes inherited through a checkpoint; a poll limit racing a late agent; an agent that is killed | requests are well formed; the report explains its end; the result is this branch's, and whole; a branch given up is salvaged |
| Refinement, judging, learning, `rv/parent_refinement.py`, `rv/judge.py`, `rv/parent_learning.py` | none beyond a call | model calls, validation, the winning path | malformed answers; branch ids that are not unique | the winner's whole history is distilled |
| Planning, `rv/parent_planner.py` | none | one model call, validation | malformed answers | angles are distinct |
| Booking core, `src/booking/` and `scripts/booking_bridge.mjs` | the booking store, `request.json` of a box | `bookStep`, `cancel`, reset, rehearsal, in-box actions | the provider has booked before the record exists; whole-file rewrite without a lock; a shared request file | a booking is tracked or reported; the confirm gate comes first; payment is never reached |
| Auth broker, `src/auth/` | credentials, grants, OAuth attempts, audit log | authorize, callback, device poll, deny, refresh, grant, resolve, revoke | a provider call is awaited between test and write; refresh joined by several callers; save after change | revoked stays revoked; one attempt makes one credential; a grant is spent as granted |
| Vault, `src/vault/` | one encrypted file and its key | load, put, remove, key creation | whole-file writes from stale copies; two first runs make two keys | what is sealed can be opened; no entry is lost |
| Completed agents, `rv/completed_agents.py`, with the page's form | none beyond a call; the catalogue is the store's file beside the artifacts | list, match, suggest, replay | values are looked for with what the distiller kept, in a shape another stage chose | what is filled in is what was said; a listed agent replays |
| Console server, `scripts/version-history-server.mjs`, with the processes it starts | the run table, children, output tails | match, start, stop, output, close | a helper is awaited before the run starts; stop races the end; a thread outlives the loop that started it | capacity is kept; a success is complete and shown; a run that is over changes nothing; every run ends |
| Adapters, console page, demos, operator scripts, schema | none | external I/O, presentation | - | - |

How they interact. `assistant.session` looks an utterance up in the store. On a
match `dialogue` fills slots and `warm_replay` calls the executor, which calls
the booking bridge, a Node process per action, which may delegate to a box. On no
match the session calls `ColdTaskCoordinator.submit_no_match`, whose worker is
the branching search; the parent learning saves a runbook, which the next lookup
finds. The console is the other way in: for each request it starts a process that
matches it, then one that replays the agent, or plans, searches and learns. Store and
booking file are shared by processes; everything else in Python
shares one event loop. Credentials reach a box only through the broker.

## 2. What is modelled, and where

    JobLifecycle  <=  ColdTasks       ColdTasksProofs       MCColdTasks
    ReplayPromise <=  Executor        ReplayProofs          MCExecutor
    LearnedSkills <=  RunbookStore    RunbookStoreProofs    MCRunbookStore
                      BranchTree      BranchTreeProofs      MCBranchTree
                      InBoxAgent      InBoxAgentProofs      MCInBoxAgent
                      BranchAgent     (InBoxAgentProofs)    MCBranchAgent
    JobLifecycle  <=  Session         SessionProofs         MCSession
                      Learning        (ReplayProofs)        (Matching, Distilling, Slots)
                      CompletedAgents (ReplayProofs)        MCLearning (Suggesting, MCSamples)
                      ConsoleRuns     ConsoleRunsProofs     MCConsoleRuns
                      AuthService     AuthServiceProofs     MCAuthService

The left column is the abstract specification; `<=` reads "is implemented by".

The modules meet at steps that one takes as atomic and another takes apart.
`Session` composes the conversation with the jobs and the store: a job in it has the
life that `ColdTasks` shows to implement `JobLifecycle`, a save or a lookup is the
atomic step that `RunbookStore` shows to implement `LearnedSkills`, a replay is
`Executor`, and what a job learns and a lookup finds is `Learning`. `BranchTree` takes a
launch as one step that ends; `InBoxAgent` is what happens within one launch, and
`EveryLaunchEnds` justifies that step. `InBoxAgent` in turn takes the agent's loop as a
run of records and one finish; `BranchAgent` is that loop. `CompletedAgents` extends
`Learning` by the console's way through it. `ConsoleRuns` has the processes of the console
around steps that `BranchTree` (the search), `RunbookStore` (the saving) and `Executor` (a
replay) take apart; a stop in it is the cancellation that `BranchTree` shows the effect of.

### ColdTasks: the coordinator and the voice notifier

One asyncio loop runs everything, so *the code between two awaits is one atomic
action* and a cancellation is a request (`kill`) delivered at the next resume.

| Variable | In the code |
|---|---|
| `status`, `result` | the `ColdTaskJob` in `_jobs`, its `result` as "holds the answer" |
| `task`, `kill` | `_tasks[id]`: where `_execute` stands; `task.cancel()` called, `CancelledError` not yet raised |
| `caller` | the task that called `submit_no_match` and may go on to `wait` |
| `speech`, `orphans`, `heard` | the notification in progress; playback threads whose coroutine was cancelled; history of what was played to its end |
| `canceller`, `closer`, `awaited`, `closed` | each caller of `cancel()` and `close()`, what `gather` collects, `_closed` |

Every await has its normal step, its failure and its cancellation:
`Acknowledged`, `AcknowledgementFails`, `AbortSubmit` for the acknowledgement;
`Start`, `NeverStarts` for the first step of a task; `WorkerSucceeds`,
`WorkerFails`, `Interrupted` for the worker; `Announced`, `AnnouncementFails`,
`Interrupted` for the announcement; `WaitReturns`, `AbortWait` for `wait`;
`CancelReturns`, `CloseReturns`, `AbortCloseSubmissions`, `AbortCloseTasks` for the
two gathers. `AnnouncementUnformed` is the completion template raising outside
every handler. `TakeVoice` lets any waiter have the voice lock: `asyncio.Lock` is
first come first served, the properties do not depend on it and more behaviours
are allowed. A call that raises without a change (blank request, reused id,
unknown job, submission on a closed coordinator) is no step. Workers are assumed
to let `CancelledError` through, as the repository's do.

`JobLifecycle` is what a reader of `list_jobs()` may rely on: a job moves
pending, running, then one terminal status, and once a close() has returned
nothing new begins.

### Executor: one replay

`book` and `supply` are the runbook and the slot values of the call; a value is
only *given*, *mistyped* or not. `at`, `results`, `outcome` follow
`RunbookExecutor.execute`; `approvals` and `dispatched` are histories of gate and
runner. `landed` is the world: the steps whose action took effect. `call` says how
far the bridge process got, and `strays` holds the processes still alive in
a box after a timeout or a cancellation, which may take effect later
(`StrayTakesEffect`). A runner error may come before or after the effect. The
executor shares nothing between two replays, so a behaviour is one replay; what
replays share, the booking store and `request.json`, is not modelled (section 7). `ReplayPromise` says: effects come in order, each irreversible one
with its consent, and the report is about the effects that happened.

### RunbookStore: processes over one file

Each process is *idle, waiting* for `flock`, *locked*, has *parsed* the file, has
*written* and synced the temporary file, has *replaced* the file, and syncs the
directory. `file` is what the name reaches now; `survivors` what it may reach after
a power loss (the old and the new file until the directory is synced).
`Crash` frees the lock in any state, since the kernel closes the descriptor;
`WriteFails`, `ReadErrors` and `ReadFails` are the exceptions of each step;
`StartFresh` is `--fresh`, which unlinks without the lock. `LearnedSkills` is the
store as its users see it: a set of runbooks to which saves add one at a time,
each displacing the one with its id. The refinement mapping `InEffect` makes a
save take effect at its replace, and shows the set it read in between, when
nobody else can read.

Abstracted: the legacy list format, creation of parent directories, litter of
temporary files, the order of runbooks in an answer, and the matcher, which is in
`Matching`.

### BranchTree: one branching search

The search is one coroutine, `pc` the await at which it stands. Sailbox calls run
in threads of the pool (`bootT`, `forkT`, `termT`): *queued* threads of a cancelled
await never run, *running* ones go on and their answer is dropped.

| Variable | In the code |
|---|---|
| `kind` | `search` (one round) or `search_tree` |
| `depth`, `angles`, `next`, `source`, `parent` | loop variables of `search_tree`: `depth`, `angles`, `next_branch_number`, `source_box`, `parent_branch_id` |
| `owned` | `boxes` (or `[*children, base]`): what the finally block terminates |
| `items`, `winners` | `trajectories`; the winners of `decisions` |
| `answer` | the `branch_id` each launch of the round reported |
| `making`, `image`, `forkBad` | inside `checkpoint_fanout`: children asked for, the agents running in the checkpoint, whether a `from_checkpoint` raised |
| `todo`, `stuck` | inside `_terminate`: boxes to come, boxes whose `terminate()` raised |
| `box`, `from`, `alive` | the world: the boxes, their ancestry, agents still running in them |
| `files`, `learning`, `lesson` | `persist`, `learn_from_trajectories`, `_winning_path` |

`Cancel` is `CancelledError` at any await. `Raises` stands for every exception inside
the try. Branch "b0" is branch 1 here and 0 is the base, or no branch. `decide` is one step: its
thread changes nothing but its own call counters, so dropping its answer is all a
cancellation can do to it; the same holds for seeding a box that the search owns.
`AgentsOutlive` says whether an agent may still run when its launch has ended: it
looks at its deadline between two model calls only (`rv/branch_agent.py:423`), and the launch
waits no longer than `poll_slack_seconds`.

### InBoxAgent: one launch

`pc` is where `launch()` stands, `agent` where the box's own agent ("me") and the one
inherited from the parent's box ("parent") stand. `journal`, `traj` and `done` are the
files: a journal line or a trajectory is *whole* or not, and says who wrote it.
`late` is the poll limit, which may pass at any moment. `Init` has a fresh box and every
state in which a parent's agent can be when its box is checkpointed, running, killed
or finished. `Clear` is the `rm -f`: an agent that has its trajectory open then writes
to a file without a name (*unlinked*). `record` appends to the recorder's steps (`Record`)
before it opens the journal; a line longer than the file's buffer reaches the file in two
writes (`Journal`, `Recorded`), and either may raise (`WriteRaises`), which ends the loop.
The loop may also end before its first step. A Sailbox call takes effect at once:
what a call started by a cancelled launch still does in its box does not matter,
since the launch returns nothing and the box is about to be terminated.

### BranchAgent: the agent's loop

`messages` is the conversation that goes out with the next request: each turn by its
role, whether it calls a tool, and the budget that its hint states. `recorded`, `answer`,
`signal` and `error` are the recorder and the locals of `run_branch`; `report` is what
`main` writes. `where` is *loop* at the head of the `for`, *asked* while the model answers,
*shell* while a command runs, *raised* once an exception is on its way to `main`; a step
whose journal line cannot be written is recorded all the same, and raises (`JournalFails`). Every
kind of reply is an action: `Silent`, `FinishCalled`, `Misuse`, `Note`, `NotRun`, `Run`; so
are `TransportFails`, `Malformed`, `OutOfTime` and `OutOfSteps`. What a command prints,
the clipping of outputs, the patterns of `screen_command` and the texts of the prompts
are left out. Its names differ from those of `InBoxAgent`, so that one module can extend both.

### Session: conversations, jobs and one store

Within a process the conversation (`pc`) and the jobs (`status`) take turns of one event
loop, and a turn ends only at an await that has something to wait for: `Yielded`.
Between the session's lookup and the dialogue's there is no such await, so `Hit` and
`Reload` are two steps that only another *process* can come between; `touched` is the
history that says whether one did. `Interrupt` is Ctrl-C: it cancels the await it finds,
and a thread blocked in `input()` stays (`reading`) until a line comes (`Enter`).
`Learn` is one step because from the search's return to the announcement nothing is
awaited. All distilled skills share the id "restaurant-reservation", so the `store`
holds one, named by the request it was learned from, and `Covers` says what it answers.

### Learning: the life of a skill

`Learning` follows one request through the search's trajectories, the judge, the
distiller, the store, the matcher, the questions and the substitution, and then asks
again. It is built from three modules of operators:

- `Matching` is the matcher: aliases, misspellings, weights, the threshold, the first of
  equals. Scores are integers in thousandths; they differ from the source's floats by
  less than one. `DictionaryAssumption` says that the words in play are listed once each, in
  order, the known terms and their concepts among them; `sorted()` of the source is a walk
  along that list. `Distance`, at the end, is the distance that the scan is held against.
- `Distilling` is the distiller: which steps survive, which slots are lifted and from
  what evidence, the document and its verification. A regular expression is taken by
  what it finds in a text.
- `Slots` is what a slot admits, what a reply is read as, when a document loads, what is
  still missing and what a step refers to. A value is its kind.

`learner` is one of the repository's three ways through: `LearningWorker` of the
assistant, `learn_from_trajectories` of the parent, and `WarmReplayJoin`. `stage` names
where a request stands or how it ended; `learned` is the request that the skill was
learned from, `matched` the runbook the matcher answered with. A list of the code from which
elements were dropped is here a function on the places that are left. The module assumes
that budgets are numbers (`StepsAssumption`), that a value given along is of some kind
(`PrefilledAssumption`), and that what is said and kept is made of words that the dictionary
lists or that mean nothing (`WordsAssumption`).

### CompletedAgents: what the console knows of a request

The catalogue starts as one of `Catalogues`. `learner` is *parent* when the cold path
learns by itself (`Judge`, `Save` of `Learning`), and *artifact* when a user of the page names
the branch to distill (`Pick`), in which case the document keeps its examples. `Offer`
opens the form of the agent that matches with what `Suggested` reads out of the
request; `Use` sends the form with any entries its fields admit, and with or without
the confirmation. `Suggesting` holds the rules for a party, a city, a cuisine, a date and
a time, and the test that an example occurs in the request. Words are model values of
their own spelling; a slot's example is the `part` of a text it was lifted from. The files
behind the catalogue and their order, and the wording of errors, are left out.
`EverySpec` joins this way with those of `Learning`: what the parent learned may be
asked of the session or of the console. `CatalogueAssumption` says what is in a catalogue at
first: documents like `demo/handwritten_runbook.json`, which load, ask for every slot they refer to,
and say words that the dictionary knows. One with the id of distilled skills comes last, since `save` appends; a second one
cannot be, since it replaces the first.

### ConsoleRuns: requests, processes and stops

| Variable | In the code |
|---|---|
| `page`, `seen` | how far the page has come with a request (*refused* stands for each error it shows); the agent that the helper named |
| `kind`, `status`, `shown` | the record in `activeRuns`; the result lines that reached it |
| `pc`, `thread`, `signalled` | where the child process stands; the thread of `asyncio.to_thread`; a SIGINT not yet raised at an await |
| `saved`, `printed`, `replayed` | history of the process: its skill saved, result lines written, agent loaded |
| `store` | the distilled skill in the catalogue, which has one at a time; the agent of the repository with an id of its own (`Bundled`) is listed beside it |

A SIGINT before the loop runs, or in a replay's loading, ends the process. In an await
it cancels the main task, and `Drain` waits for the threads, which nobody can stop. In a
stretch without an await (*filing*, *reporting*) it takes effect at the next one, if there
is one. `Close` is Node's `close` event: the process has exited and its pipes are at their
end, so no output can follow. Every request is asked once: what is learned from a request
is named by it. `Covers` says what a skill answers; which that is, is the matter of
`Learning` and `CompletedAgents`.

### AuthService: one credential and its vault

`memory` is `AuthService.data` as far as one OAuth credential goes; `vault` and `temp` are
the file and the one beside it. A call's `pc` says what it awaits: *sent*, *granted* and
*refused* the provider's answer, *joined* the entry of `refreshLocks`, *probing* the answers
within `check`, *saving* and *closing* its place in the chain of saves, which is `queue`.
`Answered` is the end of a save and what the caller does next: `check` has a `finally`
that revokes its grant and saves again. The provider (`live`, `Honours`, `Refuses`) is
external: it honours one refresh token and may rotate it with each answer. `Crash` loads
the vault anew. `excused` records that the provider withdrew the credential, or that a
rotated token was lost on the way or with the process. Encryption is left out: a file is
whole or *Torn*.

## 3. Runs

| Run | Question | Bounds, and why they are enough |
|---|---|---|
| `cold_tasks_safety` | Is any status lost, any success unheard, any close() leaky, under every interleaving and cancellation? | 2 jobs, 2 cancel(), 2 close() (one cancelling, one draining that may itself be cancelled). Two jobs are needed for one to hold the voice lock while the other waits and for a close() to gather one caller and one task; two cancellers and closers for double cancellation of one task. Jobs are symmetric. |
| `cold_tasks_promise` | Does the coordinator implement `JobLifecycle`, and do jobs and close() end? | 2 jobs, 1 canceller, 2 closers; no cancel() of a job being acknowledged, no cancelled close(), templates that format: each of these breaks the promise (section 6). No symmetry, as liveness is checked. |
| `executor` | Are order, consent and audit kept for every runbook, answer and failure? | All runbooks of up to 3 steps over 4 kinds of step, 2 slots, all supplies. Three steps give a step before and one after the one that goes wrong. |
| `runbook_store` | Is an update lost, an acknowledged save undone, a file torn? | 2 processes, 3 operations in all (`MaxOps`), 2 versions of one skill and a document without id, three starts (absent, two books, corrupt). A lost update needs two processes; a displaced acknowledged runbook needs a third save. |
| `branch_tree` | Which boxes can a search leave running, is what it learns one history, does it end? | 2 children a round, 2 rounds, 2 cancellations, all faults, agents that outlive their launch. Two children are needed for one of several to fail and for a winner that is not the first; two rounds for a continuation with an ancestor; two cancellations to reach the cleanup's own await. |
| `in_box_agent` | Whose result does a launch return, is it whole, is a lost branch salvaged, does the launch end? | Agents of at most 2 steps: one whole line before the torn or missing one. One inherited agent, the parent's; a longer chain of inherited agents adds writers of the same kind. 179,547 states. |
| `branch_agent` | Is every request well formed, every reply a step, every end explained, and does every branch report? | Every budget from 0 to 4 steps: a silent reply and a call can each come before and after the other, with room for a finish that does or does not use up the budget. 53,158 states. |
| `session` | Is what a session announces replayed, is everything accepted over at the end, do the jobs and quit end? | 2 processes, 2 requests, of which one skill answers both and the other neither, 1 job a process, 2 questions with 2 attempts. Another process is what can come between two lookups; a process's own job is what could and does not. About 90,000 states. |
| `learning` | Have a learned skill's slots their evidence, does it replay, is a request about the same thing warm, are its own values recovered, is the bounded edit distance right? | 6 requests over 34 words, one of them with thirteen words beside its two concepts, which outweigh them; runs of up to 3 steps (2 where the parent learns or a user picks the branch; `MaxSteps`) of 12 kinds beside 3 other branches, 4 sets of prefilled values, 3 documents from outside, a catalogue with and without the bundled agent; all pairs of words of up to 4 letters over two (`Letters`, `MaxLetters`), with limits 0 to 4: a swap takes two letters on each side, and 4 leave one before and one after it. Three steps are a write, its rewrite and a step of another kind; the parent adds the step of a parent branch to its two. 687,374 states. |
| `auth_service` | Is an acknowledged change kept, is the vault whole, is a refusal ever the service's own doing, does every call end? | 3 calls, 1 crash. Two calls share a refresh or overlap in the chain of saves while the third revokes or saves. 308,517 states. |
| `console_runs` | Is capacity kept, is a success complete and shown, does a run that is over still learn, does every request and run end? | 3 requests with capacity 2: two runs at work while a third request waits for its helper, and either of them stopped. The skills of two requests match each other, the third finds the bundled agent and one of the two the captured one, so forms and fan-outs compete. 174,644 states. |
| `executor_nothing_booked` | a statement of the repository that the code does not keep | the smallest instance that shows it (section 6) |

`CHECK_DEADLOCK` is off in all: each instance has finitely many operations and
stops when they are done.

What each property says is in the comment above it. The ones with most behind
them: `CloseLeavesNothing` (a submission whose acknowledgement is being spoken
cannot slip past close()), `TerminalLostOnlyByEarlyCancel` (exactly one way
remains to lose a terminal status), `IrreversibleWasApproved` and `AuditIsTrue`
(with processes that act after they were given up), `AcknowledgedIsDurable` and
`SkillsSpec` (over all crashes and power losses), `OnlyExcusedLeaks` (exactly four ways
remain to leave a box running), `LessonIsCheckpointPath` (ids, ancestry and boxes agree),
`RefusalIsEarned` (overlapping refreshes under a provider that rotates tokens),
`AcknowledgedIsKept` (chained saves, failing saves, crashes), `AnnouncedIsReplayed` (two
lookups of a shared store), `SlotsAreEvidenced` and `LearnedSkillReplays` (each stage
against what a later one needs), `OwnRequestIsRecovered` (the distiller's examples against
the console's reading of them), `OverLearnsNothing` (a stop at any point of a process whose
thread goes on) and `CapacityKept` (requests that wait for a helper while others start and stop).

The type invariant (`TypeOK`, `BranchTypeOK`, `LearningTypeOK`) is proved of every detailed
module but `CompletedAgents`, which adds no variable to `Learning`, and is in no cfg; adding it
to one is a quick check of a change.

## 4. Fairness

`LoopSpec` (coordinator): weak fairness of every step the event loop or a playback
thread takes by itself, and of a caller that is not waiting coming back. Users
owe nothing: nobody must submit, cancel or close. Workers are not fair: a
box may hang. `EveryJobEnds` therefore assumes that workers end. `EveryCloseReturns` takes as a precondition either
that the workers end or, with `cancel_pending`, that no caller sits in `wait()`
for ever. A task's cancellation is delivered (`WF` of `Interrupted`), which asyncio does.

`Executor` is checked for safety only: a gate may never answer, and nothing in the
executor bounds that.

`RunbookStore!LiveSpec`: a process that can go on does so or is killed. `flock` is
not fair between waiters; since the number of operations is bounded by
`MaxOps`, overtaking is too.

`BranchTree!LiveSpec`: as long as the search, a thread or a launch can go on, one of
them does, that is, Sailbox and model calls return or raise. `InBoxAgent!Spec`:
the event loop resumes the launcher and the clock runs; the agents owe nothing, they may
hang or die. `BranchSpec`: the loop goes on, since a request ends after 300 seconds
and a command after 60.

`Session!FairSpec`: the process runs, and a provider step returns or times out (weak
fairness). Jobs have *strong* fairness, because `Yielded` comes and goes with the
conversation while a job that is ready keeps its place in the loop's queue; that `Ending`
comes at all is due to the search's budgets and timeouts. Users owe nothing:
`EveryJobEnds` holds for one who never types again, and `QuitEnds` asks only that no
thread is left reading.

`AuthService!Spec`: the provider's request ends (`fetch` has its own timeouts), the loop
resumes what was answered, and a save's stages go on. Nothing makes a failure or a crash
happen.

`ConsoleRuns!FairSpec`: as long as the helper's timer, the output, the process or its thread of a
request can go on, one of them does. A helper need never answer, and users owe nothing. That
a stage of the process ends is due to the budgets and timeouts of the plan, the search and
the model calls, which `BranchTree` and `InBoxAgent` have.

## 5. Proofs

For every value of the constants that meets the named assumptions:

| Module | Theorems | Argument |
|---|---|---|
| `ColdTasksProofs` | `TypeCorrect`, `CloseSafe`, `TerminalSafe`, `SuccessSafe`, `SilenceSafe`, `LifecycleKept` | `CloseLeavesNothing` is not inductive: `CloseInv` adds what a close() knows at each await, that it gathers every submission in flight, and later every active task; `NothingNewOnceClosed` says that no step adds to either once `_closed` is set, so overlapping close() calls do not disturb each other. `TerminalSafe` needs `StatusInv`, where a status can stand for each place of caller and task, and `AwaitedInv`: what a close() gathers was submitted. `SuccessSafe` and `SilenceSafe` rest on `VoiceInv`: where the speech of a job stands follows from its task, its caller and what was heard. `LifecycleKept` assumes `Sheltered` (below). |
| `ReplayProofs`, of `Executor` | `TypeCorrect`, `OrderSafe`, `GateSafe`, `AuditSafe`, `UnresolvedSafe`, `KeepsPromise` | `IInv` ties the control point to the histories (`Position`: dispatched and landed are `at`-1 or `at` long, and the only possible stray is the last dispatched step, not yet landed; `Consented`: what was dispatched has its approval; `Audited`, `Verdict`: results and outcome against position). Each property follows from it, and the refinement action by action. |
| the same, of `Learning` and `CompletedAgents` | `LearningTypeCorrect`, `LearnedSkillsReplay`, `LearnedSlotsAreEvidenced` | `LearningInv` follows a skill from the winning branch into a later request. Every document in the store is *sound*: it loads, and its steps refer only to slots it asks for. At most one, the last, has the id of distilled skills, and it is what was distilled from the winner of the request in `learned`. What fills the slots is of the declared types, so `Resolves` and `Substitutes` cannot fail. Under it, lemma by lemma, the distiller: the slots it declares are the vocabulary's, each lifted from evidence; its document loads, also when written back without examples; what a form holds last survives, and each surviving value is attributed to a declared slot that the request speaks of. |
| the same, of `Matching` | `DistanceIsExact`, `AbandonmentSafe`, `ScoreIsAShare`, `MatcherDecides`, `LookupIsEarned`, `IntentIsEnough` | The table of distances is well defined along the sums of its indices, every row the scan computes is that table's, and a row that is wholly over the limit keeps all later rows over it (`NextOver`, `OverStays`): a swap steps over that row, but at the cost of one, and the cell it steps over, which is over the limit, is at most one dearer than the cell it starts from. So the scan is exact, for words of any letters and length and any limit. The score: a text weighs four times its concepts and its other words; along the dictionary, what the pairing adds is at most the weight of the words seen on one side and of the words used up on the other (`PairingSound`), so what is shared is at least what is the same and at most either side. From that, by arithmetic, no score is over 1000; 24 of 35 parts in common with the lighter side pass the threshold whatever else either side says; and half of it, near misses included, do not pass. `LookupIsEarned` carries the decision into the life of a skill: `DecisionInv` adds to `LearningInv` that all the store holds is readable (its words are in the dictionary) and that nothing is matched before a request is answered, so in every state a request that was searched for has not enough in common with any saved runbook, and the runbook that answers one has more than half in common with it. `IntentIsEnough` counts the words of a terse text: its concepts alone are 24 of 35 parts of it, so naming them is enough. |
| `RunbookStoreProofs` | `TypeCorrect`, `IdentitySafe`, `DurabilitySafe`, `ReadSafe`, `LearnsOneByOne` | `IInv`: a saving process is alone in the critical section; what it has read is what the file holds unless `--fresh` removed it, has distinct ids and covers every acknowledged runbook; `file` is among the `survivors`; and all of these have distinct ids and cover what is acknowledged. |
| `BranchTreeProofs` | `TypeCorrect`, `LeakSafe`, `LessonSafe`, `SearchIsBounded` | `LeakInv`: `Places` ties the states of the three threads to `pc` and to how the search ends; `Reached` says where each box that is up is known: owned by the search, to be owned when the fan-out returns, in the cleanup's list, or excused; `Fresh` that a round's boxes are none of those before it. `LessonSafe` needs `TreeInv`: each trajectory has a box of its own (`Numbers`), which is a child of the base or of the box of its parent, an earlier trajectory of the round before (`Rooted`), and the winners are of the rounds they decided (`Won`). From that the way up from a winner exists, is the only one, and has one trajectory of each round (`AllGrounded`). `SearchIsBounded` counts what is left: the rounds, the coroutine's way through one and to its cleanup, the steps of the three threads, the launches that are silent, and the cancellations. A step that queues a thread pays for all its steps, and a round that is begun for all it starts again, so `SearchLeft` falls with every transition but the exit of an agent, and what the demonstration does after the end. |
| `InBoxAgentProofs`, of `InBoxAgent` | `TypeCorrect`, `InheritanceSafe`, `SignalSafe`, `EvidenceKept`, `LaunchIsBounded` | Without an inherited agent only "me" writes after `Clear`: every line and the trajectory are its own, and DONE implies that it is whole and its writer gone. `EvidenceKept` counts: the journal has as many lines of "me" as its recorder has steps, or one less while the last step's line is being written, or after that failed, whoever else writes to it. `LaunchIsBounded` counts the calls that `launch()` still awaits, the deadline, and three transitions for each step of each agent: `LaunchLeft` falls with every transition, from `6 * MaxSteps + 17` at most, since the agent that `launch()` starts was absent before. |
| the same, of `BranchAgent` | `LoopTypes`, `ConversationSound`, `ReportSound`, `LoopIsBounded` | The invariant says of each `where` how the conversation ends and how `recorded`, `answer`, `signal` and `error` stand to each other. `LoopIsBounded` counts what is left: a step of the budget takes at most three transitions, the last one five, and the deadline passes once, so `Rank` falls with every transition. |
| `SessionProofs` | `TypeCorrect`, `AnnouncementKept`, `EndSafe`, `JobsRefine` | `AnnouncementKept` needs that between `Hit` and `Reload` the store still answers the request with what was announced, unless it was touched: no job of that process runs there. `EndSafe` needs that nothing is pending or running in a process that has ended; the refinement of `JobLifecycle` follows step by step. |
| `AuthServiceProofs` | `TypeCorrect`, `AcknowledgementKept`, `VaultSafe`, `RefusalSafe` | `Inv` adds to the types: `Chain` (the queue holds calls that wait for a save, once each, and what is sealed is the first one's), `Copied` (no copy of the data, in memory or on disk, is ahead of the provider), `InStep` (there is one refresh at a time and, unless excused, memory or that refresh has the live token) and `Acks` (what a call in the queue is about to be told is in memory, and in what is sealed once its turn has come). |
| `ConsoleRunsProofs` | `TypeCorrect`, `CapacitySafe`, `SuccessShown`, `OverIsQuiet` | `Sound` says of each request, for every place of its process, what has been written and done (`Progress`), that a thread learns only for a process that waits for it (`Threaded`), and that a run is active until its process has exited and its output is read (`Tracked`). With the count of active runs, which grows only where there is room, it gives all three. |

`Sheltered` is what `ColdTasks_promise.cfg` sets: no cancel() of a job that is still being
acknowledged, no close() that is cancelled itself, and a completion template that can be formatted.
Each of them is needed; section 6 says how a job leaves its life without it: `TerminalIsFinal`, the
cancelled close() that leaves jobs PENDING, and the template that leaves one RUNNING. The same
theorem holds for any number of jobs, cancellers and closers.

The climb from a winner to the root is defined by the path it takes (`Ascends`), not by
recursion, so that it can be reasoned about; the loop of `_winning_path` computes that path, or
raises where there is none. `InBoxAgentProofs` and `ReplayProofs` each extend two components, whose
variables and definitions have names of their own. "The first of equals" and "the last that is
written" are least and greatest places of a finite function; that they exist is the
well-foundedness of `<` on the naturals (`First`), which takes the place of an induction over the list.
The inductions that the matcher needs, along the rows and cells of a table and along the
dictionary, are over a set of naturals (`Stepwise`, from `First`) with no operator as a parameter; that
a function defined by recursion is what its equation says follows from finite tables that grow by a row
(`TableExists`, `RowsExist`, `PairingExists`). `BlendBounds` puts into a name what arithmetic says of a score.

`UnresolvedSafe`, `IdentitySafe`, `ReadSafe`, `EndSafe` and `VaultSafe` are about properties that are
in no cfg of their own: `ReplaySpec`, `SkillsSpec`, `JobsSpec` and `AcknowledgedIsKept`, which are,
cover them on the instances.

Only model-checked. All liveness, which the provers cannot do: `EveryJobEnds`,
`EveryCloseReturns`, `EveryOperationEnds`, `EverySearchEnds`, `EveryLaunchEnds`, `QuitEnds`,
`EveryBranchReports`, `EveryCallEnds`, `EveryRequestEnds`. Of three of them the bounded core is
proved: `SearchIsBounded`, `LaunchIsBounded` and `LoopIsBounded` bound how many transitions
there can be at all, so that what is left to TLC is that, until the end, a step that is fair is
possible. A search of the code numbers `Width * MaxDepth` branches at most, which is the
`MaxBranches` to read in `SearchIsBounded`. And `OwnRequestIsRecovered`, which depends on
the texts: which of them read as a city, a time or a number is a table of the instance.

## 6. Where code and words differ

Shown by a run:

- `executor_nothing_booked`: "nothing was booked" is said of replays in which a
  step has booked (`rv/assistant.py:212`).

Stated in the modules as properties that do not hold. Adding one to the cfg shows why:

- `TerminalIsFinal` (`ColdTasks`): cancel() on a job whose acknowledgement is being spoken
  marks it cancelled, and it runs nevertheless (`rv/cold_tasks.py:215`, `:186`, `:254`).
- `NoOverlappingAudio` (`ColdTasks`): cancelling a job during playback frees the voice lock
  while the thread goes on playing (`rv/cold_tasks.py:87`).
- `StopLeavesNoBox` (`BranchTree`): Stop during boot or fan-out leaves the boxes that the
  thread still makes (`rv/branch_search.py:471`, `:485`).
- `ExplorationOnlyAdds` (`BranchTree`): an agent that outlived its launch can report in a
  continuation, under its earlier branch id, and that level's file is overwritten
  (`rv/branch_search.py:324`, `:650`).
- `AskAgainIsWarm` (`Learning`): "ask me again and it'll be instant" (`rv/assistant.py:131`).
  A request that is mostly values, as "dinner for two in Los Angeles Friday at seven
  somewhere Italian", does not match the skill learned from it: its values count in the
  coverage, and the skill is generalized over them.
- `StopStops` (`Session`): "ctrl-c or 'quit' to stop" (`rv/assistant.py:249`). After Ctrl-C the
  interpreter waits for the thread in `input()`, that is, for Enter.
- `JudgeFailureFallsBack` (`Learning`): "any judge failure falls back" to the longest successful
  branch (`rv/assistant.py:159`); `longest_successful_branch` returns a verdict, which is compared
  with branch ids, so the job fails instead (`:162`).
- `SuggestedIsSaid` (`CompletedAgents`): "the containment check prevents an unrelated example from
  being silently used" (`rv/completed_agents.py:120`). The check is for the example's text anywhere
  in the request (`:147`): an example "2" is found in "12".
- `FullySpecifiedRunsAtOnce` (`CompletedAgents`): "A fully specified request runs the saved agent
  immediately" (`README.md:296`). The parent saves the agent without examples
  (`rv/parent_learning.py:65`), and only slots with an example are read out of the request
  (`rv/completed_agents.py:138`).
- `ConfirmedIsReplayed` (`ConsoleRuns`): "replays that saved runbook" (`README.md:291`). The replay
  looks the agent up again by its id (`rv/completed_agents.py:317`), which all distilled skills
  share.

Met while modelling, and part of the models' behaviours:

- A cancelled draining close() cancels the tasks it gathers, also those that never
  started, which stay PENDING (`rv/cold_tasks.py:244`, against the comment at `:220`).
- close() gathers the callers' whole tasks (`rv/cold_tasks.py:232`): with a caller in
  `wait()`, `close(cancel_pending=True)` waits for the worker it was to cancel.
- A completion template that raises leaves the job RUNNING (`rv/cold_tasks.py:274`).
- A slot that is optional or undeclared and used by a later step is found missing
  after earlier steps were dispatched (`rv/executor.py:110`).
- The bridge's `confirmed` flag comes from the action's name, the gate from the
  runbook's flag (`rv/booking_bridge.py:84`).
- save() may raise although the file was replaced (`rv/runbook_store.py:500`).
- `--fresh` during another process's save() is written back by it (`rv/assistant.py:219`).
- A `from_checkpoint` that raises loses the handles of its siblings (`rv/branch_search.py:403`).
- A second Stop before the cleanup has a thread skips the cleanup (`rv/branch_search.py:640`).
- One half-written journal line discards every salvaged step (`rv/branch_search.py:357`).
- A live agent can be given up, against the comment at `rv/branch_search.py:269`: a model
  call may take 300 seconds (`rv/branch_agent.py:50`), the slack is 120.
- Two trajectories with one branch id make the judge refuse the round, which ends the
  whole tree (`rv/judge.py:321`).
- A request whose skill vanishes between the session's lookup and the dialogue's is
  neither replayed nor learned (`rv/dialogue.py:181`).
- Ctrl-C while close() gathers cancels the jobs it was waiting for (`rv/assistant.py:287`).
- All distilled skills have the id "restaurant-reservation" (`rv/distiller.py:182`), so a
  skill learned later displaces an earlier one.
- The parent saves a `Runbook` written back, without the examples of utterances and
  slots (`rv/parent_learning.py:65`): the matcher has less to match than after the assistant's save.
- `FullIntentIsWarm` asks that one side is terse. The bundled agent
  (`demo/handwritten_runbook.json`) is not: it names two concepts and fifteen other words. A
  request that names both concepts and six words of no use to it scores 0.483; with seven,
  0.453 (`rv/runbook_store.py:267`), and a known skill is searched for again.
- A refusal that marks a credential as revoked skips the save (`src/auth/service.js`,
  `refresh`): after a restart the credential is tried again.
- A step whose journal line cannot be written ends the loop with an exception; of a finish the
  report then has the step, and not the answer (`rv/branch_agent.py:256`).
- A finish with an empty answer ends without answer and without error
  (`rv/branch_agent.py:549`).
- A command's timeout kills the shell and not what the shell started
  (`rv/branch_agent.py:264`).
- "in los angeles friday" makes the console's city "Los Angeles Friday"
  (`rv/completed_agents.py:194`), and "for 7 pm" reads as a party of 7 (`:143`).
- The bundled agent has no examples on its slots, so nothing is recovered for it.
- A run whose process exits with 0 after Stop is shown as cancelled
  (`scripts/version-history-server.mjs`, `close`).

Met, and in no run:

- `rv/distiller.py:184` describes an earlier matcher: it says that the score is the coverage of
  `min(len(query), len(candidate))`, and that the phrasing of the hand-written fixture "scores 0.32
  against its own task and falls under the 0.48 threshold". Today words are weighed, and that
  fixture (`fixtures/runbooks/book-restaurant.json`) scores 0.845 against the task of the fixtures
  (`fixtures/trajectories/branch-0.json:4`), its name and description alone 0.579; the bundled agent
  scores 0.883. The name and description alone are cold (0.332) for "dinner for two in los angeles
  friday at seven somewhere italian", for which the whole fixture scores 0.632.

Met, and outside the models, which have no clock and no layout:

- The phase "judging and learning" is always overwritten by the one taken from the rounds
  (`scripts/version-history-server.mjs:491`), and the rounds are read from a window of 80,000
  characters, so early ones can be forgotten (`:494`).
- The page's confirmation shows the prompt of the first irreversible step; the gate
  then approves all of them.
- The gate's stopwatch: `gate.waited = 0.0` sets an attribute of the instance, `confirm`
  adds to the class's (`rv/assistant.py:187`, `:234`), so the time of a confirmation is never
  subtracted, against the docstring at `:183`.
- The dialogue's stopwatch is not reset after a dialogue that failed; the next replay's time can be
  clamped to 0, and `cold / elapsed` then ends the session (`rv/assistant.py:281`; `Book` may
  end in *closing* for that reason).
- A second miss moves `answer_clock` of a job in flight (`rv/assistant.py:269`).

## 7. Not modelled, and the plan

Within modelled components:

- Search: `keep_boxes` (nothing is terminated then), `run()` and its use of `persist`,
  `sailbox.connect`.
- In-box agent: what a command does in its box, `screen_command`'s patterns, metrics.
- Distiller, matcher: the regular expressions and tables beyond the instance's words.
- Session: speech in place of typed lines, recorded fixtures, the printed times.
- Auth broker: OAuth attempts and the device flow, grants with limits, API keys,
  rotation, several processes over one vault, the first run's key in the keyring, and
  power loss (the vault's file is not synced before its rename).
- Completed agents: two processes over one catalogue, and which file wins when two hold
  agents of one id.
- Console server: the other tasks of its allowlist (judge, distill, rehearse), the history
  and auth routes, transcription, the output window, the booking store of its stub
  providers, and its own death.

Components without a model:

- Booking core (`src/booking/`, `scripts/booking_bridge.mjs` in the box): its state is
  the booking file and a box's `request.json`; it comes first in the plan.
- Parent planner, speech and network adapters, console page, demonstrations, cost tables,
  operator scripts, trajectory schema: external I/O, presentation, or pure validation with
  no state to explore.

What is left of the plan, in this order:

1. **Booking**: processes over `request.json` and over the booking file; death between the
   provider's answer and the record. Abstract: a ledger of bookings, each tracked or
   reported. Bounds: 2 processes, 2 bookings, one death.
2. **OAuth attempts** beside `AuthService`: callback, poll and deny of one attempt. One
   attempt makes at most one credential.
3. **Vault** with two processes: stale copies, one temporary path, two first keys.
