# Emacs Operator in TLA+

Emacs Operator lets agents work in a running Emacs. An agent speaks MCP to a Node
process (`packages/mcp-server`), which speaks framed JSON-RPC over a local TCP
socket to a bridge inside Emacs (`lisp/`), while the human goes on using the same
Emacs; for keys and captures it speaks to a native host process (`apps/linux-host`)
over a Unix socket. This directory holds TLA+ models of the parts where that sharing
can go wrong, the TLC runs that check them on small instances, and TLAPS proofs for
all instances. Every definition is translated from the source; `PROJECT.json` maps
each one to its lines, and lists the hazards found while reading, the properties
that guard against them, and the findings.

## The system

| Component | State it keeps | Operations | What makes it correct |
|---|---|---|---|
| Emacs buffers and hooks (`emacs-operator-observe.el`) | text, narrowing, modified flag, tick, human change count, whether the hook is on | human and rpc edits, save, revert, kill, mode on/off | a tick names one text; the count grows with every human change |
| Checkpoints (`emacs-operator-transaction.el`) | id to snapshot | create, commit, rollback, clear | a rollback never takes back human text, nor lies about "saved" |
| Preconditions and policy (`emacs-operator-policy.el`, `policyEngine.ts`) | the active profile | check tick, mode, buffer, profile, path | no edit over text that is no longer what the agent saw |
| Bridge server (`emacs-operator-bridge.el`) | server, clients, per-connection leftover, heartbeat | process filter, dispatch, start, stop, instance record | each request runs once, in order |
| Bridge client and registry (`bridge-client`, `bridgeRegistry.ts`) | socket, pending requests with timers, one cached client per instance | request, onData, onClose, connect | every request settles once |
| Sessions and lease (`sessionManager.ts`) | sessions with last use, one mutation owner per instance | open, get, acquireMutation, updateTarget, close | one mutator per Emacs, no orphaned lease |
| Idempotency cache (`idempotency.ts`) | answers with expiry, in insertion order | get, set | a retried request is answered, not executed |
| Tool router (`toolRouter.ts`) | none beyond the above | one handler per tool; the eight workflows | commit only edits that were validated; undo the rest |
| Verification tickets (`verificationTickets.ts`) | tickets with their attempts | start, rerun, status, close | bounded evaluations; a rerun is of a changed source |
| Project rename (`emacs-operator-refactor-intelligence.el`) | plans, rollback journals | plan, preview, apply, rollback, commit | all files or none; an undo loses nothing typed since |
| Linux native host (`apps/linux-host`) | connections, request chains, one operation queue, helper processes | initialize, focus, key sequence, capture, cancel | one operation at a time; keys are released; every operation ends |
| Its runtime files (`runtime.mjs`) and readers (`platformDriver.ts`) | lock, token, record, heartbeat | start, renew, stop; discover, authenticate | one host; a running host is found |
| Diffs, framing (`unifiedDiff.ts`, `framing.ts`, `framing.mjs`) | the reader's buffer | apply a diff, push a chunk | equal to a reference definition |
| Refactoring analysis (`refactor-intelligence`, `structure.ts`) | none | scan, check balance, prepare and plan a rename, infer parameters | equal to a reference definition |
| Benchmark and experiment runners (`benchmark`, `agent-experiment`) | the trial at hand, its process and workspace | spawn, time out, kill, snapshot, check, score | a pass is of what was judged; trials do not disturb each other; runs end |
| Instance discovery (`runtime.ts`, bridge), audit log, macOS host, acceptance drivers, packaging | records and tokens; a log file; none of their own | | see *Not modelled* |

The hard behaviours: Emacs is one thread, but it re-enters its process filter
whenever a request waits for a subprocess; Node gives up on requests that Emacs then
executes; the human edits between any two requests; an MCP call is a dozen bridge
requests, any of which may fail; a helper process may hang or be killed with keys
down; a host may crash anywhere among its files; an agent under test may ignore
signals and leave processes behind.

## The modules

```
EmacsBuffers ── Checkpoints <── SemanticWorkflow ── SemanticWorkflow_proofs
ToolServer ──────────── ToolServer_proofs
BridgeConnection ────── BridgeConnection_proofs
VerificationTickets ─── VerificationTickets_proofs
AtomicRename <── ProjectRename ── ProjectRename_proofs        (<── : implements)
NativeHost ──────────── NativeHost_proofs
HostRuntime ─────────── NativeHost_proofs
AgentTrials ─────────── AgentTrials_proofs
UnifiedDiff, Framing, SymbolRename, ExtractParameters ── Algorithms ── Algorithms_proofs
```

`MC<Module>` gives the module its constants for TLC. A definition whose comment
begins with "Mutant" is a plausible mistake in the definition after it; it is part
of no specification.

### Emacs and the server

**EmacsBuffers.** What the human, other programs and Emacs itself do to buffers and
files. A text is a function from regions to words, so that two edits can be in the
same place or in different ones; a narrowing is a set of regions; a file digest is
the file's text (no hash collisions). `SeqAfter` is the after-change hook: it counts
a change only when the command source is `human` and the hook is installed in that
buffer (`tracked`). Buffers made by `get-buffer-create` are not tracked. `author` is
a history variable: who last changed each region.

**Checkpoints** extends it with the bridge's observe, edit, checkpoint.create,
commit and rollback, and the mode switch. A bridge request is one step, because
Emacs runs it to its end in one thread. `snap` is the hash table; the fields of a
snapshot after `fileText` are history. `seen` is what an agent last observed: any
part of the accessible portion (`state.observe` shows a window around point,
`resource.read` a range), with the tick of the whole buffer. So a guarded edit may
well overwrite text its agent never saw, hidden by a narrowing or outside the window;
`SeenIsFresh` and `GuardedEditIsAsPlanned` speak of what it did see.
Rollback is modelled as the code has it: the checks in the order of the code, then
`erase-buffer`, which widens, then the stored text and flag; the tick moves on.

**SemanticWorkflow** extends Checkpoints with one `emacs_workflow` call. `todo` is
the list of bridge requests the coordinator still has to make; `RepairLisp`,
`RefactorDefun` and the other operators give each operation's list, with what the
caller may leave out (a second command, an evaluation). A tool call is an
observation, its request and an observation (`Tool`). A request may be answered
`ok`, `bad` (validation failed, wrong value, condition) or `error`, or time out.
`Throw` is the `catch` block with `workflowRollback`, `Reject` is
`workflowProposalFailure`; the code returns that promise without awaiting it, so a
failing rollback there is not caught again, as in `Throw`. A timed-out request stays
on `wire`, and Emacs executes it later. During an evaluation Emacs reads the socket,
so requests run inside it. At its end it may have written into one region of the
buffer (`WrittenBy`): a Babel block its results, Lisp evaluated in the buffer whatever
it likes (`Effect`). The Lisp operations evaluate after their last validation and
commit what is there, so `CommitIsEarned` excepts `Effect`, and only that. Every run
of this module is a run of Checkpoints. Its one assumption says of the constants that
the proposal's words are its own: no file, no Babel result and no evaluated code
contains them, which is what lets them be told apart afterwards.

**ToolServer** is one MCP server process between calls: `session`, `owner`, `cache`
and the call in progress. Tools that use this state alike share one name:
`emacs_observe` stands for the tools that take no lease, `emacs_edit` for those that
do, `emacs_workflow` for the one that calls other tools inside itself. Calls are
handled one at a time, as the queue in `server.ts` does, and a line that is no
request ends the process (`NotARequest`). A session has the permission profile it
was opened with: `Acquire` refuses a read-only one before it touches the lease.
`Edit` is a change that leaves the session alone, `ChangeTarget` (keys, commands)
one that goes on to look it up and change its target. Time passes while a call
waits. `AnswerUnrecorded` is an audit write that fails.

**BridgeConnection** is the byte stream. A frame is two pieces, because TCP may cut
it anywhere. `stack` holds the activations of the process filter, each with the
unparsed rest of its data, which is a local variable of the Lisp function, and the
request it is executing; `kept` is the process property the rest is saved in.
`epoch` numbers the instances, since a restarted bridge has a new id and port.
Opening one finds it or not (`NotFound`: no record, or a heartbeat that a busy Emacs
has not renewed), and the new client is let in or not (`ConnectFails`).

**VerificationTickets** is the `emacs_verification` tool. `Begin` evaluates and
creates the ticket, `Rerun` and `Gate` are the ticket's checks and the comparison of
its fingerprint with a fresh analysis, `Evaluate` runs the form in Emacs and
`Append1` or `TimedOut` are what Node makes of it. `kept` is the table, which
`prune` empties by age and from its oldest end, also when it is only looked up in
(`Found`), before a ticket is put into it (`Created`).
`ran`, `lost`, `edited` and `raced` are history.

**ProjectRename** is the rename over several buffers. `ApplyBegin` is the preflight
of all of them, `EditBuffer` the change of one under its change group, `Cancel` the
unwinding when one fails, `ApplyEnd` the journal; `RollbackBegin`, `RestoreBuffer`
and `RollbackEnd` likewise. No human step comes in between, as Emacs is one thread,
and the human narrows, types, saves, reverts and kills at any other time. A digest
is the visible text. **AtomicRename** is the promise: a rename, and its undo, are
one step for all of their files, and only on text that still is as captured.
`RenameIsAtomic` says that the one implements the other, the files of a running
command being mapped to what they were when it began.

### The native host

**NativeHost** has clients that connect, send, give up and close; `chain`, each
connection's requests in turn; `tail`, the promise chain on which operations of all
connections queue; and a helper process for each that runs, with the timer's SIGTERM
and SIGKILL. A key sequence presses and releases `Keys` one by one and releases what
it holds when it is signalled, unless it hangs. `call` is what the caller has seen.
`Shutdown` and `Exit` are the signal handler. A capture or a focus presses nothing.

**HostRuntime** is the lock, the token and the record through which a host is found.
Every access to a file is a step, and a host may be killed at each; `cleanup` runs
twice. Clients read the record, connect, then read the token. `raced` is history:
two hosts were starting or stopping at the same time.

### Pure functions

**UnifiedDiff**, **Framing**, **LispText** (the scanner, and the benchmark's balance
checker), **SymbolRename** and **ExtractParameters** are functions on sequences,
translated loop by loop. **Algorithms** calls each once on every input of a bounded
family and compares the answer with a reference definition, written without regard
to the code: the text a diff stands for, the messages a stream holds, matching
brackets, the lexemes of the renamed file, the free variables of a form. The text of
a diff is compared whole, with its final newline and its line ends. Each property
names the inputs it leaves out; for diffs these are hunks without old lines, texts
without lines before or after, notes that change the final newline, and CRLF.

### The runners

**AgentTrials** runs trials one after the other in either harness, chosen at the
start with whether workspaces are kept. The agent writes files, may leave a helper
that holds its output open or not, and may ignore SIGTERM; the harness snapshots,
checks and scores meanwhile. A helper may be `away`: outside the driver's process
group, by `setsid`, or on Windows, where only the driver itself is signalled, any
helper; no signal of the harness reaches it. A check that is a command has a process,
the `verifier`, for whose end `spawnSync` makes the harness stand still; SIGTERM is
all it sends, and the verifier may ignore it. (What a verifier leaves behind holds
nobody up: Node closes the pipes when the time is up.) A workspace is the set of files
that differ from the fixture. `mixed` and `forked` are history.

### Abstractions throughout

Point, mark, windows and frames, `state_seq`, text properties, undo, permissions
other than to change anything (their refusals change nothing), and files that do not
exist are left out.
Evaluated code changes one region of the target buffer at most, and no other buffer.
Time is a bounded clock in ToolServer and
VerificationTickets; elsewhere a timer may fire at any moment.

## The runs

| Run | Shows | Bounds |
|---|---|---|
| `checkpoints` | what was seen is there while the tick is; guarded edits keep what was seen; rollback keeps human text and an honest modified flag | 1 buffer, 2 regions, 2 words, 1 file, 2 checkpoints, 1 agent, tick below 3 |
| `narrowed` | *violation*: rollback of a narrowed buffer erases what was hidden | same |
| `workflow` | all eight workflows: honest answers, no leftovers of a rejected proposal, only validated edits committed, every call answered | 1 buffer, 2 regions, 5 words, 1 checkpoint, tick below 4 |
| `tool_server` | the lease excludes, is not orphaned and goes to no read-only session; recent request ids are not executed again | 3 sessions of 2 profiles, 1 instance, cache of 2, TTLs of 1 and 2, clock up to 2 |
| `connection` | nothing runs twice; without timeouts nothing is lost or reordered | 4 requests per connection, 2 instances |
| `split` | *violation*: a request split around the end of an evaluation is lost | same |
| `native_host` | operations exclude each other, keys are held by a process that will release them, connections are counted, an answer means the end, every operation ends | 1 key, limit of 2 connections, 3 connections and 4 requests ever made |
| `host_runtime` | one host runs and is found, unless two came or went at once; the record heals | 2 hosts after a crashed one or none, 2 clients |
| `tickets` | evaluations of a ticket are bounded; a rerun is of a changed source | 3 sources, table of 2, 2 tickets, TTL 2, at most 2 attempts, 3 evaluations of a ticket, clock up to 3 |
| `project_rename` | the rename implements AtomicRename; its flags are honest, but for rollbacks that lost text or undid a saved rename | 2 files of 2 places, 1 plan at a time, 2 journals, 2 steps of the human or other programs |
| `trials` | passes are of what was judged; trials do not overlap, but for agents given up on or forked; runs end, or wait for a process nothing ends | 2 trials, the first of which may fork, 1 file to change and 1 protected, 2 checks, one of them a command, threshold 60 |
| `algorithms` | the five pure modules equal their reference definitions | 316,637 inputs: diffs of two hunks on three lines, two frames cut in two places or everywhere, texts of up to six characters, two files, forms two deep under two binders |

Why the bounds suffice:

- *Checkpoints*: two regions give edits that overlap and edits that do not, a proper
  narrowing, and a human and an agent who each own part of the text; two checkpoints
  give nesting and rollbacks across each other; a tick bound of 3 leaves two bounded
  edits, and rollbacks, which are not bounded by it, on top. An observation is made
  below the bound only, as none that is made at it can be followed by an edit.
- *Workflow*: the tick bound lets every edit of the longest plan happen with a human
  edit in between; the wire holds whatever timed out; the words tell apart who wrote
  them.
- *Tool server*: three sessions give an owner, a rival and a successor; a cache of
  two is full after two answers, and a workflow alone makes more; the clock passes
  both TTLs of what was stored or used at its start; one profile may change Emacs, the
  other may not.
- *Connection*: a slow request, one that is cut, one sent after it and one more; a
  second instance for the registry.
- *Native host*: the third connection is turned away; four requests give an
  initialize on each of two connections and two operations that queue behind each
  other, one of which may be cancelled, time out or hang.
- *Host runtime*: two hosts with a stale lock are what a race takes.
- *Tickets*: two tickets fill the table, so a third call prunes; one evaluation may
  be lost and the limit still be reached; one source moves, one changes in place.
- *Project rename*: a second file for what fails half-way; one whose text already
  has the new name, so that an undo must tell the two apart; two journals for one
  rename of another's result; two steps, such as a save and an edit, or a narrowing
  and an edit.
- *Trials*: the first may still be alive in the second; the command comes first, so
  that another check follows its verifier.
- *Algorithms*: each family holds the cases the code branches on; the smaller limits
  (`MaxMessage` 4, `MaxHeader` 7, `MaxFiles` 2, `MaxBytes` 6, `MaxEdits` 3) are
  exceeded by some of their inputs.

The theorems below lift the bounds of these runs. Terminal states (all ids
used, clock at its bound, call answered) are real ends of the bounded instances, so
deadlock is not checked.

**Fairness** is stated where a run checks liveness, and only of what the code itself
schedules.

- `WorkflowSpec`: `Send`, `Receive` and `Timeout`. Node's event loop runs what is
  ready, and every request has a timer (`client.ts` 63-67). Nothing is assumed of
  Emacs, the network or the human.
- `NativeHost`: `HostStep` (the event loop takes up the next request of a chain, the
  next operation of the queue) and `Timer` (a helper's timeout and the SIGKILL after
  it). Nothing is assumed of clients, helpers or the X server; killing a helper ends
  it, which is what SIGKILL does.
- `HostRuntime`: a process that is alive takes its next step, and `setInterval`
  renews the record. Crashes are not fair, nor is starting.
- `AgentTrials`: the harness goes on, its timers fire, the SIGKILL to the process
  group follows, and a process that a signal is about to end does end. The agent, its
  helpers and a verifier need not do anything, and `EveryRunEnds` says what may then
  be waited for: a verifier that ignores SIGTERM, a helper that holds the output of a
  driver and is away, or whose driver has exited by itself.

The two violation runs are safety properties and need no fairness.

## What was found

Two runs expect a violation, each of a sentence of the design document that
`PROJECT.json` quotes. `narrowed`: `checkpoint.create` stores the accessible
portion, `erase-buffer` erases the whole buffer. `split`: the filter's data is a
local variable, and an outer activation overwrites the leftover that an inner one
stored. Both lose text, or a request.

The models also do the following, which the hazards list describes without a run:

- A timed-out edit is executed after the call was answered; timeouts cancel nothing.
- A guarded edit overwrites text its agent never saw: read while the buffer is
  narrowed, or through a window, and the tick that comes with it passes for the whole
  buffer, also after a widening.
- The Lisp workflows evaluate after their last validation and commit whatever the
  evaluated code has left in the buffer.
- `refactor_defun` uses bounds read before several awaits; the range is not tied to
  a tick, unless the caller gives one.
- The lease of an expired session is held until that session is asked for again.
- Opening an instance again hands out the cached client, though its socket is
  closed.
- Two hosts that find a stale lock together may both run; a host that starts while
  another shuts down loses its token to the other's exit handler.
- A killed helper leaves its keys down, and nothing releases them.
- Looking a ticket up in a full table deletes the oldest one, which may be that one.
- A rollback of a rename marks a buffer as unmodified from what the journal
  recorded, though its file was written since, or text outside the narrowing went.
- The benchmark does not wait for an agent it gave up on; the SIGKILL never follows.
  It waits for ever for a verifier that ignores SIGTERM, and the experiment for a
  helper outside the driver's process group that keeps the driver's output open.
- The host's frame reader refuses a header within three bytes of its limit when a
  chunk ends inside the delimiter that follows it.
- The pure functions differ from their reference definitions at the edges that the
  comments of `Algorithms` name: hunks without old lines (inserted one line early),
  texts that lose all their lines (one empty line stays), notes on the final newline
  (dropped), CRLF (becomes LF), character literals, `#_`, quoted data in binding
  vectors, names both bound and free.

## The proofs

All from the assumptions of the modules, which only say what kind of value a
constant has, and by an inductive invariant each. Where the type invariant of a run
is stronger than needed (bounds, `Cardinality`), the proof has a weaker one of its
own.

- **Checkpoints.** `TypeOK` is inductive as it stands. `SeenIsFresh` is not, because
  a buffer whose tick is behind an observation could catch up with another text:
  `SeenInv` adds that no observation is ahead of its live buffer, and that unborn
  buffers have been observed by nobody. `GuardedEditIsAsPlanned` follows: the tick
  of the observation is the buffer's, so what it showed is there, and the edit writes
  one region.
  `RollbackKeepsHumanText` needs `SnapInv`: while the buffer's human count still
  equals the snapshot's, every region last written by the human holds what the
  snapshot holds. `RollbackFlagIsHonest` needs `SnapFlagInv`: a truthful snapshot of
  a whole unmodified buffer holds the text of its file, and rollback insists that
  the file is the same.
- **SemanticWorkflow.** First the refinement: `WorkflowImplementsCheckpoints` says
  that each step of the workflow is a step of Checkpoints or leaves its variables
  alone, so the theorems above hold of `emacs_workflow` (`WorkflowKeepsHumanText`).
  Then what its answers mean, `AnswerIsSettled`, `ProposalIsGone` and
  `CommitIsEarned`, for every plan of every operation: the plans are taken apart once
  (`PlansAreWell`), and after that only their shape matters. The invariant has five
  parts. `CallInv`: what is left to do is the end of a plan (`PlanRest`: a commit and
  two looks last, a validation after every change, the checkpoint before the first
  change until it is held) or the end of a rollback (`UndoRest`). `WireInv`: what
  the coordinator waits for is the last request on the wire, or being evaluated, and
  a given-up request is ahead of it only in the first look of a rollback, which
  Emacs must answer before the rollback is sent. That is why no late edit comes
  after the rollback. `ValidInv`: with no validation left to come, what the agent
  wrote is what validation accepted, or the effect of evaluated Lisp. `QuietInv`: there is nothing of the proposal in
  the buffer before the checkpoint is held, in its snapshot, nor after its rollback.
  `SettleInv`: past the commit the checkpoint is committed, past the rollback it is
  rolled back. None of the five is inductive without the others.
- **ToolServer.** `LeaseHasItsSession` and `OneMutatorPerInstance`, by `LeaseInv`:
  an open session that has changed its Emacs holds the lease, and so does the open
  session of a call that has passed `acquireMutation`; whoever holds it may change
  things, as its profile was asked first and stays what it is. The lease is taken
  before the change and given up only when the session goes.
  `TypeOK` and `RetryIsNotReexecuted`, by `CacheInv`: an answer that is still recent
  is in the cache, unexpired, with no more entries behind it than answers were
  recorded since. Pruning takes only expired entries, replacing takes only the key
  that is answered again, and eviction keeps the newest entries, so each of the
  three leaves the invariant. What `Selection` keeps, and in which order, is proved
  by an induction over sets of numbers (the library's WFMin, which takes no operator
  as a parameter).
- **BridgeConnection.** `TypeOK`, and `NothingRunsTwice` by an invariant on frame
  ends, since a frame can be dispatched only where its second half is. Every
  activation that can still parse its data holds frame ends that have not been
  dispatched, occur once, and are held neither by another such activation nor by the
  stream. A re-entered filter may start from a leftover that an outer one also
  holds; then the leftover is a first half, or torn data from which nothing is ever
  parsed again (`StuckStays`).
  `PromptRequestsAreAllServed`, by `PromptInv`: until something times out, one
  activation runs at most, and the last request is coming (what the filter has not
  parsed, followed by what is on the wire, is exactly its frame), running, or served
  with its answer on the way or received.
- **VerificationTickets.** `EvaluationsAreBounded` by counting: each evaluation is
  an attempt, or lost, or the one in progress, which the gate admitted below the
  limit; a ticket that has left the table never takes another attempt.
  `RerunIsOfNewSource` by keeping what the gate saw until the human edits.
- **ProjectRename.** `RenameIsAtomic` is the refinement, for any files, places and
  texts. `OpInv` says what a half-done apply or rollback has done: each buffer is as
  it was, or as the plan, or the journal, has it, so that cancelling restores the
  mapped state, and ending is one abstract step. `FlagIsHonest` by `FlagInv`, which
  follows a flag through the journal: a rename that began with an unmodified buffer
  has captured what the file still holds, unless the file was written.
- **NativeHost.** Five properties, by an invariant in four parts with variables of
  their own: the count is that of the open sockets (`SocketInv`); the request at
  work is the head of its connection's chain (`ChainInv`), so a turn is given once;
  what runs is the head of the queue (`QueueInv`), so one operation runs, and what
  is down is held by it.
- **HostRuntime** (in NativeHost_proofs). `OneHostRuns`, `RunningHostIsFound` and `DeniedMeansARace`, by
  `InOrder`: as long as hosts come and go one after the other, the one past the lock
  has the lock, runs alone, and its token is the one on disk. A race ends the
  argument, and the properties say so.
- **Frame readers** (in Algorithms_proofs, like the next two). `FramesArriveWhole`: a stream of frames, with
  bodies of any bytes and in any chunks, is returned as exactly its bodies, with no
  byte left over and no error. The loop of `push` is taken round by round: a round
  that reads a frame reads the same one when more bytes are there (`RoundLonger`),
  after as many rounds as there are bytes none is left to read (`LoopSettles`), so
  that a chunk and the next leave the reader where the two at once do
  (`ChunksDoNotMatter`, and by induction `AnyCutWillDo`); and a stream at once is
  read frame by frame (`StreamLoop`). For the host a frame needs `HasRoom`: three
  bytes between its header and the limit. Without it the theorem is false, because
  `framing.mjs:19` compares the whole buffer with the limit when a chunk ends within
  the delimiter, though the header alone is not too long. `FramesSurviveChunking`
  says more: what has been returned after every chunk, and of streams with bad
  frames. A reader is then somewhere in the stream (`Got`): it has returned the
  bodies of the first frames, has the bytes from there to the last one received, and
  a frame is whole exactly when that many bytes have come (`IsThere`); it throws at
  the first bad frame, as soon as it is whole at the latest, and returns none of what
  the same chunk completed, so that fewer bodies than frames before it may have come.
  `StreamAssumption` says what a frame is: the delimiter in it ends the header, the
  body is as long as the last length says (or that length is too long), and the header
  keeps the three bytes clear of the host's limit. Frames of any other shape move
  where the next one begins, and there is no stream of frames to compare with.
- **Symbols.** `QualificationIsKept`, for symbols of any length. The name that comes out
  is the old one up to its last separator and the new one after its own (`Whole`,
  `Divided`), and folding to one case goes through a concatenation, so it takes the
  two parts apart.
- **Unified diffs.** `DiffMeansWhatItSays`, for any text and any diff. The two folds
  (over the lines of a diff, over its hunks) are unrolled into their steps, as
  functions on the numbers up to the length of what is folded over. Within a hunk
  (`HunkMeans`), after each line what has been put out is the new side so far, and
  what has been compared is the old side so far: no error so far exactly if that side
  stands at the hunk's place in the text. Over the hunks (`HunksFit`), no error so far
  exactly if the hunks so far are in order, do not overlap and fit; and then
  (`Replaced`) what was put out, followed by the lines not yet consumed, is the text
  the hunks so far stand for. With the final newline and the line ends, which the code
  keeps and sets to LF, it is the text meant (`WholeText`) where the diff means to
  change neither. `DiffAssumption` says that lines are strings and diffs are made of
  hunk headers with natural numbers, of lines of the three kinds, of blank lines and
  notes to ignore, and of junk.
- **AgentTrials.** `TrialsDoNotOverlap` and `PassedOnWhatWasSeen`, by what is past:
  an agent that the harness waited for is over, so that nobody writes while its
  workspace is scored.

Only model-checked: what is about liveness (`EveryCallIsAnswered`,
`EveryOperationEnds`, `RecordHeals`, `EveryRunEnds`), which is out of the prover's
reach; and three of the pure functions' properties, `BalanceIsMatching`,
`RenameTouchesOnlyTheSymbol` and `ParametersAreFreeVariables`: their references are
defined by recursion over nested data (brackets, forms) or by a lexer's automaton,
and showing that another recursion equals them is an induction over that data.

## Not modelled

- *The runtime files of Emacs processes*: the records, tokens and heartbeats are
  those of HostRuntime without the lock; the hazard that a busy Emacs loses its
  record to a second one is listed. `BridgeConnection` has what clients make of them.
- *macOS native host*: its protocol is that of the Linux host; the rest are AppKit
  and Accessibility calls.
- *X11 calls, captures, screenshots*: no state that outlives the call but the keys,
  which are modelled.
- *Permissions for channels, captures and evaluation, and path checks*: pure
  refusals, which stand as `Fail` and `Refuse` where they matter.
- *Language adapters' syntax work* (sexp motion, `org-element`): Emacs' own; an
  adapter's edit, validation and evaluation are steps of SemanticWorkflow.
- *`applyRenamePlanToFilesystem`, statistics, schemas, reports, acceptance drivers,
  the fake bridge, packaging*: straight-line scripts without shared state.

Seen while modelling and left alone, as no property depends on them: snapshots stay
in `emacs-operator--checkpoints` until commit, rollback or mode off; the socket of a
failed `initialize` is not closed; two MCP servers on one Emacs have separate
leases; a Babel result that comes in after a rollback stays in the buffer.
