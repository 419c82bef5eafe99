# Turnmesh in TLA+

Turnmesh is an agent runtime kernel written in Go: a turn engine that feeds a conversation to a model session,
executes the tools the model calls and reports everything over one stream of events, with a batch runtime for tools, an
agent runtime for long tasks, an MCP client for tools of other processes, and a memory that outlives the turns.

This directory holds models of its concurrent core, TLC configurations that check them on small instances, and TLAPS
proofs for every value of their constants. Source paths are relative to `src/`; paths written without a directory are
below `src/internal`.

    tlc -workers 2 -config TurnEngine.cfg MCTurnEngine     # a run
    tlapm TurnEngineProofs.tla                             # a proof

Contents: [components](#components) · [modules and the code](#modules-and-the-code) · [runs](#runs) ·
[bounds](#bounds) · [fairness](#fairness) · [proofs](#proofs) · [disagreements found](#disagreements-found) ·
[not modelled](#not-modelled) · [plan](#plan)

## Components

| Component | Source | State | Operations | Hard behaviour |
|---|---|---|---|---|
| Tool batch runtime | `executor/batch_runtime.go` | per run: plan, result of each call, `batchCtx`, completion channel, event channel | `Plan`, `Run`, `Stream` | completions in any order, the first failure cancels its siblings, discards, a bounded event channel |
| Tools | `executor/{command_tool,handler_tool,tool_dispatcher}.go` | none | `Execute`, `ExecuteTool` | which status an error gets: it decides the cascade |
| Turn engine | `orchestrator/engine.go` | per turn: sequence number, emitted events, conversation, pass | `Boot`, `StreamTurn` | tools emitting beside the turn, a reader that stops, cancellation at every place, the order of the deferred calls |
| Provider sessions | `model/{anthropic,openai,openaichat}` | history or `previousResponseID` | `StreamTurn`, `Close` | turns that share a session, requests that fail half way, a reader that goes away |
| Agent runtime | `agent/{runtime_impl,task}.go` | task registry; status, seal, progress, cancel function of a task | `Start`, `Stop`, `GetTask`, `ListTasks` | `Start`, several `Stop`s and the runner's return racing, sends outside the mutex |
| MCP client | `mcp/client.go` | pending map, reply channels, notifications channel | `request`, `readLoop`, `Close`, `Messages` | late, repeated and disordered answers, `Close` against the delivery, the death of the server |
| MCP stdio transport | `mcp/stdio_transport.go` | process, two pipes, receive channel | `Open`, `Send`, `Recv`, `Close` | a mutex that is kept while writing to a pipe |
| MCP adapter | `mcp/{adapter,types}.go` | none | tools of a server as local tools | names that are put together and taken apart again |
| Memory stores | `memory/{store,file_store}.go` | a map, a file | `Put`, `Get`, `Delete`, `List` | a crash or a failure between two steps of a write |
| Memory runtime | `memory/runtime.go`, coordinator in `cmd/engine/runtime_components.go` | none of its own | `Snapshot`, `Writeback`, `CommitWrites`, `PlanCompact`, `ApplyCompact` | plans that are out of date when applied, turns that finalize at once |
| Kernel agent runner | `cmd/engine/runtime_components.go` | none | an agent task as a turn of an engine of its own, with a filter on its tools | a stream that closes without an end |
| Bootstrap | `cmd/engine/bootstrap.go` | none | construction | a failure half way, with a registry the caller keeps |
| Facade | `turnmesh.go` | runtime, session | `RunTurn`, `StreamTurn`, `RunOneShot` | relaying a stream whose reader may leave |
| Registries | `model/registry.go`, `executor/registry.go` | a map | register, look up | none |
| Feedback, core types, event context | `feedback`, `core`, `eventctx` | none | | none |

How they interact:

- The facade boots an engine, calls `StreamTurn` and relays the channel it returns. `StreamTurn` starts the goroutine of
  `runTurn`, which is the only writer of that channel, except that a tool may emit through the context it is called with;
  both go through the closure `emit` and its mutex.
- A model pass calls `Session.StreamTurn` and reads the channel of the session's goroutine to its end; the tools the
  pass called are executed afterwards, one by one or by one `BatchRuntime.Run`, and their results go into the
  conversation of the next pass.
- When the turn ends, whichever way, the deferred calls run in reverse order: the finalizer (`memoryCoordinator`, which
  writes to the shared store) first, the closing of the channel last.
- An agent task runs a `Runner` in a goroutine of `AgentRuntime`. With the kernel's runner that is a turn of an engine
  again.
- A tool of an MCP server is a `tools/call` request of the `Client`, whose `readLoop` is the one reader of the transport.

What makes each of them correct is stated by the properties below; `PROJECT.json` lists under `hazards` what could go
wrong, at its line, with the properties that would show it.

## Modules and the code

Each component has a module, an `MC` module that fixes sets of inputs for TLC, and a `Proofs` module. Where a
component promises its caller something that can be said without its machinery, that promise is an abstract module and
the component is shown to implement it.

| Module | Models | Abstract specification | Proofs |
|---|---|---|---|
| `BatchRuntime` | one `Run` or `Stream` | `BatchContract` | `BatchRuntimeProofs` |
| `TurnEngine` | one turn | `TurnStream` | `TurnEngineProofs` |
| `ProviderSession` | a session under the passes of several turns | `TurnStream`, once per pass | `ProviderSessionProofs` |
| `AgentRuntime` | one task | `TaskContract` | `AgentRuntimeProofs` |
| `McpClient` | a client over a transport | | `McpClientProofs` |
| `StdioTransport` | a transport, its callers and its subprocess | `MessageWire` | `StdioTransportProofs` |
| `TurnRelay` | a turn's stream on its way to its caller | `TurnStream`, twice | `TurnRelayProofs` |
| `ToolCatalog` | from the name a model calls to the request of a server | | the names: in `McpClientProofs` |
| `TurnMemory` | finalizations over a file store | | `TurnMemoryProofs` |

`TurnStream` is where modules meet: the engine promises its reader the same kind of stream that the session promises the
engine, `TurnRelay` takes any such stream for its producer, and shows that what it relays is one again. It tells the events
of the turn from those of its tools: a tool may publish an event of any kind, which ends nothing, and the promise is about
the turn's own events. A step of a model is what the code does between two points at which another goroutine can notice: a section
under a mutex, a send, a receive, a call that takes time.

Definitions preceded by *Seeded fault* belong to no specification. Each is a definition of the code with a plausible bug
in it; `PROJECT.json` pairs it with the property that fails when it takes the definition's place, which shows that the
property depends on the code being as it is.

### BatchRuntime

`plan`, `current` and `planned` are the planning loop (`PlanCall`, `PlanDone`: `planByConcurrencySafe`, `planSerial`).
`pc`, `batch` and `failure` are the goroutine of `execute` and its loop; `items` and `itemErr` the results it collects;
`results` and `batchDone` the completion channel and `batchCtx` of a concurrent batch; `sent` and `read` the event
channel of `Stream`, whose capacity is `len(calls)+len(plan)+1`.

`StartBatch`, `StartSerial`, `SerialReturn` and `BatchEnd` are the serial path; `SpawnConcurrent`, `ConcurrentReturn`,
`Collect` and `CollectEnd` the concurrent one; `StopOnContext`, `DiscardNext` and `Finish` wind a run up. A tool is an
environment that returns any of `ToolOutcomes`, and may be one of `waiting`, which return only when their context is done.
`CommandOutcome` is what `CommandTool.Execute` returns.

`Run` and `Stream` differ in the emit function only: `streaming` chooses. The batch index of a discard event is left out.

### TurnEngine

`pc` is the place of `runTurn`, `then` where an emit that succeeds leads. `sending` is the event each goroutine has under
`emitMu`; numbering and the context check (`EnterEmit`), the send (`EmitSend`) and its abort by the context (`EmitAbort`)
are separate steps with the mutex held in between. `emitted` is `emittedEvents`; the channel holds those of them
beyond `taken`.

A pass is `Request`, then `consumeModelPass`: `ConsumeMessage`, `ConsumeToolCall`, `ConsumeSilent` (a *started* or
*completed* that is not passed on), `ConsumeError`, `ConsumeInterrupted`, and the closing of the session's stream with or
without calls. `CallTool` or `RunBatch`, `EmitResult` and `EndPass` are `executeToolCalls`. `Finalize` and `CloseOut` are
the deferred calls. The batch refuses to run under a context that is done and the engine drops that error: `EndPass` then
appends no results, as the code does.

Tools emit any kind of event, a terminal one included, as `eventctx` and the facade's `EmitEvent` let them (`ToolKinds` is what they
choose from, and bounds the run); the engine passes it on and the turn goes on. An event therefore carries whom it is `by`. A tool
emits until it returns: a goroutine it leaves behind, which would send on a channel that is closed, is not modelled.

### ProviderSession

`known` is `Session.history` (anthropic) or the messages behind `previousResponseID` (openai); the openai-chatcompat
session keeps neither and is the same machine without memory. A pass `c` of a turn has its own goroutine at `at[c]`,
its `request`, the provider's `reply` and the channel between `emitted` and `taken`. `StreamTurn` builds the request of
what is known and of `normalized.Messages` (`conv`); `Ask`, `AskRefused` and `AskFails` are the HTTP call;
`Report`, `Record`, `Complete`, `Fail` and `Close` the rest of the goroutine. The engine's side (`Read`, `LastPass`,
`NextPass`, `Interrupted`) is what `TurnEngine` does, reduced to the conversation it builds.

### AgentRuntime

`pc[p]` stands for the caller of `Start` (0), the callers of `Stop` and the goroutine of `runTask`. Every section under the
task's mutex is a step. `Publish` is `emitWithMode`: the seal is checked under the mutex and the send, which waits for
room and for no context, is the later step `Send`. The runner emits from one goroutine and only events that end nothing, as the
kernel's does (`forwardAgentEvent`); a runner that a caller injects could emit an ending of its own, or from several goroutines at once, each of
which may then be late by one event. `Decide` reads the error, the context and the status; `RunnerEnds` is
the transition that comes of it. `Stop` makes its transition, seals, cancels through the handle if `attachCancel` has
come by, and announces.

### McpClient

A call is named by its id. `pc` and `answer` are the callers of `request`, `pending` the keys of the map, `reply` the
channel of each call (`ClosedReply` when closed), `reader`, `message` and `target` the `readLoop`, `closer` the caller of
`Close`. `Correlate` is the one section under the mutex in which the loop looks an id up and deletes it; `Deliver` sends
after the mutex was released. `notes` is the channel of `Messages`, which drops what does not fit. Behind `wire` is a
server that answers any request it has received, in any order, again, or never, sends notifications and requests of its
own, and may die.

### StdioTransport

`mutex` is the one `Send` keeps while it writes to `stdin`: `SendLock`, then `SendWrites` or `SendFails`. The other sections under
it are steps with the guard `Free`. `reader` and `hand` are `readLoop`, which decodes from the bounded pipe `stdout`
(`Decode`, `DecodeFails`, `DecodeEnds`), looks at `closed` under the mutex (`CheckOpen`, `CheckClosed`) and sends on
`recvCh` (`Queue`). `once` is `closeOnce`, whose body is `Close`, `CloseLock`, `Kill`, `CloseReturns`, while a second `Close` waits for it
(`CloseAgain`). `process` and `server` are the subprocess: it reads a message, answers it or not, writes of its own accord, and blocks
in a write when `stdout` is full; it may write what is no message, and `Dies` at any moment. What `Close` returns, a
field it reads without the mutex, is left out.

`MessageWire` is what the client takes its transport for: the server's messages, in order and without a gap, up to an end.

### TurnRelay

`mode` is who asked: a reader of the channel of `StreamTurn`, `RunTurn`, `RunOneShot` or the kernel's agent runner. The producer
(`Publish`, `CloseStream`) is any `TurnStream` behind a channel of bounded capacity, into which tools publish events of any
kind (`ToolPublish`), terminal ones included, since `eventctx` and the facade's `EmitEvent` let them. `relay` and `held` are the goroutine of
`StreamTurn` (`RelayTake`, `RelaySend`, and its two exits `RelayQuit` and `RelayDone`). `RunTurnTakes`, `RunnerTakes` with
`RunnerEmits`, and `LoopEnds` are the loops over the stream; `TaskEnds` is the decision `runTask` takes from what the runner returned and the
state of its context.

### ToolCatalog

No state machine: `BuildToolName`, `ParseToolName`, `QualifyToolName`, the registration of the servers' tools in a registry
(`RegisterMCPTools`), an agent's filter over it (`ListTools`), the adapter's `InvocationToCallRequest` and `Invoke`, and
`ExecuteTool` of the dispatcher. A name is a sequence of symbols, of which `_` is one, so that separators that
overlap a name are told apart.

### TurnMemory

An entry is abstracted to the turns it tells of. `entries` is the map of the store, `file` and `tmp` the file and the
temporary one, `holder` the turn that has the store's mutex. `Change` is the part of `Put` and `Delete` before
`persistLocked`, whose calls are `OpenTmp`, `WriteTmp` and `Rename`, any of which may fail (`PersistFails`: the error is
returned and the map keeps the change). `FinalizeTurn` is `WriteBack`, `PlanCompact`, `PutSummary` and the `Delete`s;
the policy may pick any set of the entries that are `Listed`. `session` is what each turn has for a session id: an entry has
that of its `Author` in its metadata, and a turn `Finds` the entries of its session, or of all of them when it names none.
`Crash` loses the map and the turns under way; `Restart` loads the file.

## Runs

Each passing run but *session* and *memory* checks a type invariant, which also states the bound of its channels, and:

**batch** (`MCBatchRuntime`, `BatchRuntime.cfg`). Every plan of three calls, every order of completions, with failures and
cancellations. `PlanPartitions`: no call is lost or reordered by the plan, and a call that may not run beside others is a batch of its own. `ReportComplete`: every call has a result and the error of the run agrees with them. `EventsTellTheRun`: the events are the same story, once and
in order. `FailureEndsRun`: a failure ends the run although siblings wait for their context. `ImplementsContract`:
all of it implements `BatchContract`, in which no call of a batch starts unless the earlier batches succeeded and only calls of safe
tools overlap.

**turn** (`MCTurnEngine`, `TurnEngine.cfg`). Every turn of two passes, with and without session, finalizer and batch
runtime, cancelled anywhere. `SequenceDense`: the numbers the reader sees have no gap. `ConversationBalanced`: the
calls of a message are followed by exactly their results, but for the last message of a cancelled turn, whose batch was refused: the turn
gets no further than the request behind it. `CompletedMeansAnswered`: a turn that completed has answered every
call, after it announced it. `FinalizedWithEverything`: the finalizer runs before the close and gets every event. `CancelEndsTurn`: a
cancelled turn closes its stream although nobody reads. `ReaderEndsTurn`: a turn that is read ends within the pass limit.
`ImplementsTurnStream`: started first, nothing behind the turn's own terminal event, and a close only after that or a cancellation.

**session** (`MCProviderSession`, `ProviderSession.cfg`). Two turns at once on one session, one of which may be cancelled.
`CompletedIsKnown`: an exchange that was reported as completed is in the history in one piece. `FailedIsForgotten`: a pass
that failed, is not over, or was given up by its reader has left no prompt in it. `CancelEndsStream`: the goroutine ends although nobody reads any
more. `ImplementsTurnStream`, for every pass.

**agent** (`MCAgentRuntime`, `AgentRuntime.cfg`). One task, two callers of `Stop`, a runner that reports and returns what it
likes. `OneEnding`: one ending is published, the one the task has. `OneLateEvent`: at most one event that passed the seal
arrives behind it. `CancelledNeverCompletes`: a task whose context was cancelled before its runner returned does not
complete. `EndingIsTold`: a reader that goes on reading gets the ending. `ImplementsTaskContract`.

**mcp** (`MCMcpClient`, `McpClient.cfg`). Two requests against a server that answers late, twice, out of order or not at
all. `AnswerIsMine`: no request returns another one's answer. `NoLostWaiter`: a waiting call can always be woken,
and the map holds no call that returned. `SafeDelivery`: `readLoop` never sends on a full or closed channel. `EveryCallEnds`: a call that was sent
ends once its context, the client or the server has, also while another one is stuck in its send; one that is being sent does if its send returns,
for which the transport's `Send` looks at no context.

**memory** (`MCTurnMemory`, `TurnMemory.cfg`). Two turns that finalize at once over one file, with a crash anywhere.
`NothingForgotten`: compactions that overlap never remove an acknowledged turn and every summary of it, and what is left of it
is found by a turn of its session. The property has an exception, which is the code's: a turn that names no session lists the
entries of every session, and when its policy compacts them its summary belongs to none, so that no turn of those sessions
finds it. `SurvivesCrash`: the
file can always be loaded and tells of every acknowledged turn. `FinalizeEnds`: every finalization comes to an end, next to one whose
write fails at any step, since the mutex of the store is given back on every way out.

**relay** (`MCTurnRelay`, `TurnRelay.cfg`). Each way to ask for a turn, with tools that publish events of any kind, readers that stop, and a
context that is cancelled or times out. `AnswerTellsTheTurn`: `RunTurn`, `RunOneShot` and the runner return nil only when the stream
ended and no error was read from it: for a turn that completed and has run its finalizer, or under a context that is done. Then a turn may have
failed and `RunTurn`, it alone, return nil for it: the relay, with the error to pass on and the context done, may leave (`turnmesh.go:434-437`), and
the loop over what it relayed ends without an error (473). They return an error only when there was one.
`TaskTellsTheTurn`: a task that completed had its turn complete, unless its deadline passed: the engine then closes the
stream without a terminal event, the runner returns nil, and `runTask` asks only whether the context was *cancelled*. `RelaysTurnStream`: the channel `StreamTurn`
returns is a `TurnStream` and carries a prefix of the turn's events, each once, closed behind the turn's terminal event or because the context is done. `NobodyLeftBehind`: the caller
gets its answer and the goroutine of the relay ends, once the context is done or the turn over; with one exception, a
turn in which a tool published an error: `RunTurn` returns with it, and the relay stays until the context is done.

**stdio** (`MCStdioTransport`, `StdioTransport.cfg`). Two `Send`s, two `Close`s and a `Recv` over full pipes. `ImplementsMessageWire`: messages come
out in order and without a gap, through two buffers, a goroutine and a `Close` at any moment, and the end only for a reason.
`CloseReturnsUnlessLocked`: every `Close` returns, unless the two ends have locked each other out: a `Send` waits for room in `stdin` with the
mutex, the server for room in `stdout`, and `readLoop`, with a message in its hand, for the mutex. `Close` then waits as well, although its comment has it
stop the transport (`mcp/stdio_transport.go:93`); `OnlyDeathUnlocks` proves that it waits until the subprocess dies.

`ToolCatalog` has no state to explore: what is true of it is stated as assumptions of `MCToolCatalog`, which TLC evaluates with the run *mcp* over
every server name of up to three symbols and forty-five tool names, and every two servers of a few: a parsed name is what was built exactly when
the server's name is *plain* (`ParseInvertsBuild`), a tool is called under the name it is listed under exactly then (`ListedToolsAreCallable`),
a call that names another server is refused (`OtherServersAreRefused`), a qualified name is qualified once (`QualifyingTwiceIsOnce`), two tools never share a name (`NoToolShadowsAnother`), an
agent is told of the tools it can reach (`ListedIsReachable`), and a bootstrap that failed cannot be tried again with the same
registry (`FailedBootstrapCannotBeRetried`). The first four are also proved, for all names, and so is when two tools are listed under one name: exactly when
they have one server and one raw name, if the servers' names are plain (`NamesAreUnique`). A server `x` with a tool `t` and a tool `mcp__x__t` has both under one.

The other four runs, **batch_command**, **session_request**, **agent_stop** and **mcp_server_request**, each check a sentence of the repository that the code does not keep; see [below](#disagreements-found).

## Bounds

Deadlock is checked in all of them: every module has a `Terminated` step for the states in which it is done.

- *batch*: three calls. A concurrent batch of two has a serial batch on either side in some plan, and a batch that fails
  has one after it. The event channel is reached at its limit, as it holds fewer events than a run emits.
- *turn*: two passes, two calls, two events per model stream. Both calls in one pass, run together, or a pass each; the
  limit of passes (16 in the code) is reached. A channel of two (16 in the code) fills with the turn and a tool waiting for
  it. One event per tool suffices for two emitters to meet in `emit`, one memory entry for the loop that emits them.
- *session*: two turns of two passes with a channel of one (8 in the code). Replies are empty or one call; openai-chatcompat
  is left out, since it does nothing that the other two do not. Only one turn is cancellable, to keep the run short: the
  other then shows what the cancelled one does to its neighbour.
- *agent*: two `Stop`s, so that one can lose against another or against the runner; two reports; a channel of four (16 in
  the code), in which the events `Start` sends before it returns the channel fit, while the rest fill it. A buffer of one, which
  `WithEventBuffer` allows, would block `Start` for ever and is left out.
- *mcp*: two calls and two messages, so that an answer can be late or repeated while another call waits; a notifications channel
  of one (32 in the code), which overflows. The server's own ids are unlike the client's; *mcp_server_request* is the other case.
- *memory*: two turns, each with one of two sessions or with none, and one crash. One turn's plan can be out of date by the other's summary and deletions, and each
  may be interrupted or fail at any step.

- *relay*: three events before the terminal one, one event of a tool, a producer's channel of two and a relay's of one (16 in the code, both): both
  fill, a tool's event can fall anywhere behind a tool call, and the relay can be told to leave with any event in its hand.
- *stdio*: pipes and a receive channel of one message, so that each fills; two senders, of which one can hold the mutex while the other
  waits for it, two closers for `closeOnce`, and four messages of the server, one more than fit between it and a `Recv` that does not come.

The proofs lift every one of these bounds for the properties they cover.

## Fairness

Safety never relies on it. For liveness:

- *batch*: weak fairness of the goroutine of `execute`, of each tool that is able to return, and of the consumer of `Stream`,
  which drains `Events` before it waits for `Done`. Nobody is obliged to cancel; a `waiting` tool that nobody cancels
  never returns.
- *turn*: weak fairness of the turn's goroutine, of each emit and of each tool. The reader and the model's stream are
  obliged to nothing, and are assumed to go on only in the premise of `ReaderEndsTurn`.
- *session*: weak fairness of the goroutine, and of the HTTP call's return once its context is done, as the client is given
  that context. The provider need not answer.
- *agent*: weak fairness of the code of `Start`, `runTask` and `Stop`. The runner owes nothing; the reader's fairness
  is a premise of `EndingIsTold`.
- *mcp*: weak fairness of taking an answer or giving up, and of `readLoop`. Nobody has to call, answer, close or read `Messages`, and
  `Send` need not return: that of a call does is a premise of that call's end, and of no other's. With `StdioTransport` it may not, see *stdio*.
- *relay*: weak fairness of the relay, of the callers' loops and of the closing of a stream that is over or cancelled, which `CancelEndsTurn` and
  `CancelEndsStream` show of the two producers. The reader of `StreamTurn`'s channel owes nothing; that the task's `emit` finds room is a premise.
- *stdio*: weak fairness of `Send`, `Close`, `readLoop` and of a server that can write; strong fairness of the server's reading, which comes back to
  `stdin` however much it has to say. The client that receives is a premise, and nobody has to close or die.
- *memory*: weak fairness of a finalization's own steps. Cancellation, failure, crash and restart are never forced.

Weak fairness is what the Go scheduler gives a goroutine that can run. A mutex is modelled as free or held; the weak fairness
of an operation that needs it is enough in the models because its holder always lets go of it before another can be starved
more than a bounded number of times.

## Proofs

The theorems hold for every value of the constants that satisfies the module's `ASSUME`s (which bound nothing from above:
natural numbers, non-empty where the code requires it, and kinds of event that exist for those tools emit). All follow one scheme: an invariant
`IInv` that is inductive, one lemma per conjunct with one step per action, and the property as its consequence.

| Module | Theorems | Inductive invariant, and why the property alone is not |
|---|---|---|
| `BatchRuntimeProofs` | `TypeCorrect`, `PlanCorrect`, `CascadeCorrect`, `ExclusionCorrect`, `ReportCorrect`, `StoryCorrect`, `ContractImplemented` | `PlanInv`: the batches made so far and the open one cover the calls passed, in order. `RunInv`: where the loop stands fixes the state of every call of the batches before, at and behind it. `ChannelInv`: the completion channel holds exactly the calls that returned and were not collected. The contract also needs `FailureInv`: a run that is wound up has a reason. The report needs `OutcomeInv` (what the reason says of the items, and that no batch is empty), the story `EventsInv`: the events sent so far tell each finished item once, inside its batch. |
| `TurnEngineProofs` | `TypeCorrect`, `SequenceCorrect`, `FinalizationCorrect`, `ConversationCorrect`, `CompletionCorrect`, `StreamImplemented` | `Numbers`: one event at most is between numbering and sending, and its number is the number of events sent; a gap is possible only after the context is done, and then nothing more is sent. `PlaceInv`: tools execute and emit only while the turn waits for them. `StreamInv`: nothing follows the turn's own terminal event. `TalkInv`: a live turn between two passes has answered all calls of the last; one that has not is cancelled, and stuck before its next answer. `AnnounceInv`: a pass that holds calls has announced one, so that tools do not speak before. `OweInv`: a call announced and not answered is one the pass still holds, or its result is being sent; a turn that completes holds none. |
| `AgentRuntimeProofs` | `TypeCorrect`, `EndingUnique`, `LateEventsBounded`, `CancellationWins`, `ContractImplemented` | `Places`, `Outboxes`: who may stand where with which event. `Ended`: the ending belongs to the one process whose transition won, from there to its announcement. `Counted`: progress never exceeds the runner's reports. `Late`: what follows the ending is the one event somebody had in hand when the log was sealed. `RunnerOwns`: only a runner that is past its decision completes or fails a task. With it `Bound` (the runner will end as stopped, is ending so, or has) survives every step once the cancellation came first. |
| `McpClientProofs` | `TypeCorrect`, `CorrelationCorrect`, `WaitersAreFound`, `DeliveryCorrect`; of names `ParseInvertsBuild`, `NamesAreUnique`, `ListedToolsAreCallable`, `OtherServersAreRefused`, `QualifyingTwiceIsOnce` | `Owned`: a call in the map has an empty channel, and one `readLoop` has taken out of it belongs to the loop alone. `Replies`: a channel holds its own answer, was closed, or is empty and somebody will find it. Names need no invariant: by `SplitJoined` the first separator of a joined name is the one put there exactly when what is before it contains none and does not end in half of one. |
| `ProviderSessionProofs` | `TypeCorrect`, `StreamImplemented`, `CompletedCorrect`, `FailedCorrect` | `Shape`: what a pass has sent follows from where it is. `TurnInv`: a turn has one pass under way, whose conversation has the length its number says, and the passes before it are closed without an error. `KnownInv`: the exchange of a pass about to be reported, or reported, is in the history, which only grows, in one piece. `CountInv`: a turn's prompt is in the history no more often than passes of it have put it there. `CompleteInv`: only a pass that reported all of its reply has put it there. |
| `TurnMemoryProofs` | `TypeCorrect`, `MemoryKept`, `CrashSafe`, `FileFollows` | `Covered`: every acknowledged turn is told of by an entry that no compaction under way is about to remove. That rests on `StoreSound` (what an id tells never changes), `PlansAreOld` (an id is planned for removal only after it was written) and `SummariesTell` (a summary tells whatever the ids it replaces tell). `SummariesOwn` (a turn that names a session sums up turns of that session only) makes it an entry its session finds. `FileSound`, `WritesStand` and `FileCovers` say the same of the file between the steps of a write. |
| `StdioTransportProofs` | `TypeCorrect`, `WireImplemented`, `OnlyDeathUnlocks` | `Numbered`: what lies in the pipe, in the loop's hand, in the channel and with the caller are consecutive messages, up to the first output that is none. `Ends`: the channel is closed only by a loop that had a reason. `Locking`: nobody who could kill the process does so while a `Send` writes. |
| `TurnRelayProofs` | `TypeCorrect`, `AnswerCorrect`, `TaskCorrect`, `RelayImplemented` | `TurnInv`: the turn's first event is *started*, its terminal event the last, and tools speak only behind a call it announced. `RelayInv`: what was relayed is a prefix of the stream, lags what was taken by the event in hand, and falls short of the stream in the end only under a done context. `CallerInv`: a loop that reads on has seen no error. `Told`: what a nil answer stands for survives the steps behind it. |

`CascadeCorrect` (`NothingPastAFailure`), `ExclusionCorrect` (`UnsafeRunsAlone`) and `FileFollows` (`FileInStep`) are proved and not
also checked by a run; neither are the types of *memory* and *session*. The theorems about names are checked as assumptions of
`MCToolCatalog` on the names listed there; they hold for names over any alphabet with the underscore and the prefix, and for
server and tool names that are not empty.

`ContractImplemented`, `StreamImplemented`, `WireImplemented` and `RelayImplemented` are refinements: the initial states map to initial states of the abstract
module and every step to a step of it or none.

Only model-checked: the liveness properties (`FailureEndsRun`, `CancelEndsTurn`, `ReaderEndsTurn`, `CancelEndsStream`, `EndingIsTold`,
`EveryCallEnds`, `FinalizeEnds`, `NobodyLeftBehind`, `CloseReturnsUnlessLocked`), since liveness under fairness and `ENABLED` are out of
the prover's reach; and the facts about a registry (`NoToolShadowsAnother`, `FailedBootstrapCannotBeRetried`, `ListedIsReachable`), which
fold a list of tools: what a fold computes for lists of any length takes an induction over data the prover cannot do.

## Disagreements found

Four runs end in a counterexample on purpose. Each checks what a comment or a test of the repository says.

- **batch_command**, `FailedExecutionCascades`. The comment at `executor/batch_runtime.go:192-196` lets a failed item discard the later
  batches. `CommandTool.Execute` returns the status *succeeded* beside the error of a command that exits with an error,
  and it is the status that counts: the later batches run.
- **session_request**, `SentOnce`. The session's tests (`model/anthropic/session_test.go:256-257`,
  `model/openai/session_test.go:274-275`) have each message of a tool cycle go out once, with a caller that sends the new message
  alone. The engine sends the whole conversation with each pass, and the session puts it after the history it keeps.
- **agent_stop**, `StopReachesRunner`. `agent/runtime_impl.go:148` says that `Stop` requests a stop. Between the transition to running
  and `attachCancel` it finds nothing to cancel, and the runner is started afterwards for a task that is stopped.
- **mcp_server_request**, `AnswersAreResponses`. `mcp/client.go:93` says that `Messages` returns what the server initiates. `readLoop` looks
  at the id alone: a request of the server that has the id of a pending call becomes its answer.

## Not modelled

- Conversions: provider JSON, MCP schemas, public and internal types of the facade, normalization of input. They keep no state.
- The subprocess of a command tool, apart from what its outcome may be.
- The registry of providers, capability matching, and of the bootstrap all but the registration of MCP tools: sequential, over a
  map, covered by their tests.
- The metadata and the JSON an MCP call carries; `ToolCatalog` has whether it can be converted.
- The end of a `Turn` whose context is done: `emit` accepts nothing any more, so that the event *turn interrupted*
  (`orchestrator/engine.go:243`) never reaches the stream. The models have it so; no property is about it but those that let a
  stream close without a terminal event once its context is done.
- Scopes, limits and texts of memory queries: `TurnMemory` has the session of a query and lets the policy pick any set of what
  it lists, which includes whatever the others select. A policy that removes entries and returns an empty summary forgets them
  (`memory/runtime.go:163`): that is what it asked for.
- Power failures: the store does not sync before it renames, and the model has the order of calls and not the caches of
  the operating system.
- Output of the feedback sink; nothing reads it back.

## Plan

The modules are those planned, and every safety property that a passing run checks is a theorem. What is left to prove:

1. The safety half of liveness: for `FailureEndsRun`, `CancelEndsTurn` and `CancelEndsStream`, that a state in which nobody has a step
   left is one in which the stream is closed and everybody has returned; the runs check that as deadlock.
2. What the abstract modules promise on their own: that a `TurnStream` has one terminal event of the turn's own and nothing behind it, that a
   `TaskContract` ends once. The components have it by refinement.
