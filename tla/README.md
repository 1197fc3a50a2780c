# Verification of mcp-dap-server

TLA+ models of the server in `src/`: a Go program that exposes a debugger,
reached over the Debug Adapter Protocol (DAP), as tools of the Model Context
Protocol (MCP). Each tool call runs in a goroutine of its own. Behind them
stands one `DAPClient` with two goroutines: `readLoop`, the only reader of the
socket, and `reconnectLoop`, which replaces a lost TCP connection and runs a
hook that repeats the DAP handshake.

The modules follow the code, not its documents. Where the two disagree the
disagreement is a run that is expected to fail, or is listed (see *Where code
and documents disagree*).

## 1. Inventory

| Component | State | Operations | Talks to |
|---|---|---|---|
| Response registry, `dap.go` | `seq`, `responses` (seq -> channel of capacity one) | `newRequest`, `sendAndRegister`(`Raw`), `AwaitResponse`, `dispatchResponse`, `closeRegistry` | handlers on one side, `readLoop` and `replaceConn` on the other; `registryMu` |
| `readLoop` | its reader, the message in hand | read, dispatch, on an error: mark stale, drain, broadcast, park | registry, bus, `pumpResume`, `ctx` |
| `reconnectLoop` | `stale`, `reconnCh`, the connection being installed | wake, redial, close the old one, swap, drain, resume, hook, clear `stale` | `Redialer`, `readLoop`, and through the hook `ds.mu` |
| `Close` | `ctx`, `pumpDone` | cancel, close, wait for `readLoop` | called by `cleanup` under `ds.mu` |
| Replay ring | `items`, `idx`, `size` | `push`, `snapshot` | written by `dispatchEvent`, read by `Subscribe` |
| Event bus | `subscribers`, per subscription `ch`, `out`, `stop`, a bridge goroutine | `dispatchEvent`, `broadcastEvent`, `Subscribe`, `cancel` | `readLoop` on one side, handlers on the other |
| Stop tracking, `tools.go` | `lastStopAt`, `lastFrameID`, the ring's stops | `debug`, `continue`, `step`, `pause`, `wait-for-stop`, `pauseAndCaptureContext`, `context`, `restart`, `reinitialize` | bus, `ds.mu` (not held by `wait-for-stop` while it waits) |
| Breakpoints, `tools.go` | `ds.breakpoints`, `ds.functionBreakpoints`; the adapter's lists | `breakpoint`, `clear-breakpoints`, `continue` with `to`, `debug`, `reinitialize`, `stop` | adapter |
| Session lifecycle, `tools.go` | `client`, `cmd`, `backend`, `capabilities`, registered tools | `debug`, `stop`, `cleanup`, `registerSessionTools`, `unregisterSessionTools`, the end of `main` | MCP server, backend, client, and the hooks of former clients |
| `reconnect` tool | none of its own | mark stale, poll `stale` | `DAPClient` |
| Inspection tools, `restart` | `stoppedThreadID`, `lastFrameID` | requests under `ds.mu` | registry |
| Backends, `Redialer` | process, address | spawn, dial, redial | operating system |
| Prompts, `FlexInt`, logging, `main`, scripts | - | texts, conversions, I/O | - |

What is hard here:

- three kinds of goroutine share the registry, and the one-shot channels are
  sent to, closed and forgotten at different places;
- recovery crosses four goroutines and two mutexes. The hook needs `ds.mu`,
  which a handler holds during its whole request;
- a connection may be lost during the recovery itself, or while it is closed. The
  hook awaits not only answers, which a loss ends, but also an event, which it may miss;
- `Subscribe` is a snapshot, a registration and a replay, and dispatches run
  between them; channels and the ring are bounded and drop;
- `lastStopAt` is a time read and written by handlers that overlap, while the event of a
  stop comes later than the stop, and may come later than the handler that caused it;
- a session may end while calls of it still wait, a `debug` may fail half-way,
  and the hook of a former client may run in the next session;
- a DAP breakpoint request replaces a list, may be applied and not answered,
  and has to agree with what the session remembers across reconnects.

What makes each component correct: a caller is never stranded and gets the
answer to its own request; a stale client recovers and connections do not pile
up; stop ends; the ring is the log of the last events; a subscription gets
what it was promised, once and in order; a stop is neither missed nor reported
twice; the adapter has the breakpoints that the session remembers; no process, client
or hook outlives its session, and the registered tools fit it. `PROJECT.json` lists
the hazards line by line, with the properties that cover each.

## 2. Modules

| Module | Models | Correspondence |
|---|---|---|
| `EventLog` | what the replay buffer promises | a sequence of at most `Cap` entries |
| `EventRing` | `eventRing` | `ring` is the struct; `push` and `snapshot` hold `r.mu` throughout, so each is one step or one expression |
| `DAPClient` | the client without its events | below |
| `EventBus` | the events, on top of `EventRing` | below |
| `ClientLife` | one client as the session sees it | what `DAPClient` implements (`LifeSpec`) |
| `Session` | the session: tools, process, client, over several `debug` and `stop` | below |
| `StopTracking` | the handlers that resume and await the debuggee | below |
| `Breakpoints` | the breakpoints of session and adapter | below |
| `EventRingProofs`, `DAPClientProofs`, `ClientLifeProofs`, `EventBusProofs`, `StopTrackingProofs`, `SessionProofs`, `BreakpointsProofs` | - | theorems and proofs |
| `MC...` | - | instances for TLC |

**DAPClient.** A step is what one goroutine does between two points where
another may run: a section under a mutex, one atomic, one channel operation or
one network call. `responses` is the domain of `c.responses`, `chan` and `buf`
say of each seq whether its channel is open and which connection the buffered
response came from. Connections are numbered; `link` is their fate, `wire` and
`inbox` the requests and responses under way, `cur` is `c.rwc` and `c.reader`.
A handler is `idle`, `begun` (seq allocated, `stale` checked), `registered`,
`sent`, `waiting`, and holds `ds.mu` (`dsMu`) throughout. The hook walks
through the same actions, with the raw variant's differences at `WriteFailed`.
One request stands for `initialize` and `attach` (`HookStart`), one for the breakpoints and
`configurationDone` (`HookInit`). Between them lies `awaitInitializedEvent`, step by step:
the snapshot and the registration of the subscription to `InitializedEvent`
(`HookSnapshot`, `HookSubscribe`), the registration of that to losses, and the select
(`HookInit`, `HookLost`). `initEvent` is the event on its way, `inRing` says that it is in
the ring since the hook's `since`, `hookGot` what the two subscriptions hold; `readLoop`
pushes and sends it in two steps (`ReadEvent`, `FanOut`), and tells a loss after the drain,
past the ring (`ReadDrain`, `TellLoss`). The other events are `EventBus`'s.
`sentOn` and `initialised` are history.

Three modelling decisions matter. A write to a connection whose peer has gone may
succeed (`SilentLoss`), as TCP allows, or always fails; the same switch lets `readLoop` meet
a message it cannot decode on a connection that stays up (`ReadGarbage`). Data already
received from a lost connection may be read or lost. And over gdb's pipes (`Pipes`) `Close`
shuts gdb's input, and `readLoop`'s read ends only when gdb does (`EndOfInput`).

**ClientLife and Session.** `ClientLife` has ten moves of a client: `ds.mu`
taken and released, lost, closed, its two goroutines, redial, hook. The mapping
in `DAPClient` (`Life`) reads `readLoop`, the phases of `doReconnect` and of
`Close` as these: a `Close` holds `ds.mu` until `readLoop` has ended, a new connection
comes only to a stale client, and it stays stale until the hook has run.
`Session` gives every client of the session these moves again, in the same
steps, and adds what surrounds it. Sessions are numbered by the `debug` calls that
reach `Spawn`; `cmd` and `client` are numbers of sessions, `running`, `pumping`, `closed` and
`stale` sets of them, `loop` the place of each `reconnectLoop`. A handler's `pc`
names the place where it next waits, for `ds.mu`, an answer or a time, so that
`pauseAndCaptureContext` passes through `pause`, `pausing` (with `ds.mu`), `paused` and
`waitingPause` (without) and `got`. `"context"` stands for all the tools that send
requests under `ds.mu`; the eleven tools that are always registered together
are one. They are exchanged with `debug` in as many steps as the code makes
calls of the MCP server: `RemoveSession` and `AddDebug` of `unregisterSessionTools`,
`RemoveDebug`, `AddSession` and `AddGated` of `registerSessionTools`. A hook that waits
for an event it missed is `deaf` (`HookDeaf`). `conn` and `handshake` number the connections of the present client; a handler that reads
a context remembers the connection it asked on, since `reconnectLoop`
redials without `ds.mu`. What the handlers return is left out.

**EventBus.** Events are numbered in the order of dispatch, and the number
stands event is *before* it when its number is not larger. `pump` is `readLoop` inside
`dispatchEvent` or `broadcastEvent`: push, copy of the subscribers, one send
after the other. A subscription passes through `snapped` (snapshot taken),
`replay` (registered) and `live`. `ch`, `out` and `hand` are the two channels and
the item the bridge goroutine holds between them. `got`, `dropped`, `overlap`
and `lostOwed` are history. The drain of `BridgeStop` is one step. `registered` and
`targets` are sets: the code serves the subscriptions in the order of `c.subscribers`,
the model in any order.

**StopTracking.** The clock advances with every event received and every `time.Now()`
that is kept. A stop and its event are two steps: the debuggee stops (`Hit`, `Pause`,
`DebugStart`, ...), the adapter's word of it is in `sent`, and `Arrives` is `readLoop`
dispatching it into the ring, `events`, whose bound is left out. A loss of the connection (`Lost`)
drops what is in `sent` and ends every wait; a successful `reinitialize` is `Reconnected`,
and a `wait-for-stop` begun between the two goes on. A handler that keeps `ds.mu`
while it awaits the debuggee (`step`, `debug`) holds `mu`; `wait-for-stop` does
not hold it while it waits and takes it to return. Whoever consumes a stop advances
`lastStopAt` (`Consumed`) and then reads the context, which succeeds or fails (`ShowsContext`).
`debug` starts in one of five
ways: attached; stopped at the entry, to stay or to go on to an initial
breakpoint (`EntryPassed`); running there at once (GDB); at the end of a core dump. `frame`
is the stop to which `ds.lastFrameID` belongs, the frame in which `evaluate` works. The
adapter may acknowledge a pause and not tell the stop (`told`), as the comment in
`waitForStop` reports of dlv. `seen` is the last stop of which a client was shown the
context or knows otherwise: by the result of a handler, the acknowledgement of its own pause, or
the answer of a `debug` that stays at the entry. `seen`, `returned`, `missed`, `stray` and
`orderly` are history. `missed` keeps, for each cause in `Causes`, the last stop that may go
unnoticed for it, `stray` the stops whose event came after the client knew of them, and the
entry that `debug` itself went past. `orderly` holds as long as one client has called one
tool at a time, resumed only stops it was shown, did not call `context` where `wait-for-stop`
would still report the stop, used no `pause` and lost no connection.
`TakesTurn` keeps it, and gives an orderly client a longer clock.
The event bus is taken at its word here.

**Breakpoints.** The handlers hold `ds.mu` from end to end, so one is one step;
its `out` says what became of the request: answered, refused, lost before or
after it was applied, or given up by the caller. An answered request may leave breakpoints
that the adapter could not place (`no`, of several lists `nowhere`): it answers with
success all the same. `breakpoint` fails if that is the new line (`Unverified`), which the
adapter then has pending or has dropped; of functions, and of the other lines, nobody looks.
The list of function
breakpoints is one more list (`FnList`). `kept` tells an adapter that survived
the loss from a fresh one. A `debug` that fails leaves a client whose tools are not
`registered`, which is redialled and reinitialised nonetheless. `accepted`, `disturbed` and
`unplaced` (what an adapter did not keep of a list when it answered) are history.

## 3. Runs

All passing runs are exhaustive. `CHECK_DEADLOCK FALSE` is set where the system
really may stop: calls, events, sessions and the clock are bounded, and an idle
server waits for the next call.

| Run | Question | Bounds |
|---|---|---|
| `client_safety` | No stranded waiter, safe delivery, no cross-talk, stale pursued, one live connection; is it a `ClientLife`? | two handlers, two calls, two connections, one loss or undecodable message, one forced reconnect, a stop, cancelled calls |
| `client_live` | Does every loss end in recovery, unless the hook is deaf, and every call return? | one call, two losses, three connections |
| `client_spawn` | Do calls and stop end when nothing reconnects, over gdb's pipes? | three calls, one loss |
| `bus_replay` | Once, at most twice, in order; is the ring a log; does the bridge end? | one subscription, three events, ring and `ch` of two, `out` of one |
| `bus_fanout` | Are the others served when one is cancelled, and told of a loss? | two subscriptions, two events, capacities of one |
| `stops_all` | Missed stops with two callers in any order, with late and lost events, failed contexts and reconnects; repeated or outdated stops and the frame of `evaluate` with a client in turns | nine readings of the clock in turns, five otherwise, three stops; all modes and tools |
| `session` | Do processes, clients, hooks and tools fit the session, and does every call return? | two overlapping calls, two sessions, two losses or forced reconnects, all backends, every failure |
| `bp_all` | Is a breakpoint remembered exactly when confirmed, and does the adapter agree? | two files and the functions, two places each, two sessions, every tool and failure; `MaxUnplaced`: one reinitialisation cannot place at most one |

Two handlers suffice for the client: they exclude each other by `ds.mu`, and
the second stands for all that come later; two calls let one request outlive a
connection while the next is made. The two connections of `client_safety` are the
one lost and the one that replaces it; the proofs have any number. In `client_live` one call
is enough, since what it waits for is any of two losses during it or before it.
`MaxGen` is the only bound that would stop the code (a redial is not attempted
past it): in `client_live` it exceeds the number of losses by one, which is a connection
for each loss, and a recovery that it cut short would be a violation of `Recovers`. Capacities of one and two stand for
the 64 of the code: what happens at a full buffer happens there. Three events in
a ring of two overwrite an entry and wrap the index.
`EventBus` never checks a `since` in the future.

`stops_all` excludes nothing either. A client out of turn, one that used `pause`, or one that
resumed what it saw by `context` while `wait-for-stop` would report it, may be told a stop again
or too late (section 5), so `NotTwice`, `StopIsCurrent` and `FrameIsShown` are about a client in
turns; nine readings are a start, two or three stops with their events and a wait after the
last. `StopIsCurrent` excepts the `stray` stops: one whose event came when the client knew of the
stop already, so that `lastStopAt` was not past it, and the entry that `debug` passed.
`NothingMissed` is about all clients. It names the stops that nobody can know of, each by its
cause: the event came before `debug` had set `lastStopAt` (`early`), or was lost with the
connection (`lost`); a handler consumed the event and then could not read the context, of
which the client has an error (`unread`); a pause ended without a result at an adapter that told no
stop (`pause`).

In `session` two calls are enough for each to run beside `stop` or `debug`, and
`reconnectLoop` is a third holder of `ds.mu`. Two sessions let a client, its
hook and its process meet those of the next one; two losses let a reconnect follow another,
or one happen in each session. Capabilities are empty there,
because the tools that depend on them are what `session_gated` is about. `ToolsFit` holds in the
windows between the calls of the MCP server too: the two kinds of tool are never there
together, and at least one is except in those windows. A `debug`
past `MaxSessions` is refused.

`bp_all` excludes nothing. Instead, the history variable `disturbed` holds the lists
in which adapter and record may differ, each for a reason in the code: a
`continue` with `to`, a request that was applied and not answered, a new line that was not verified
and stays pending, a `clear-breakpoints`
that stopped half-way, initial breakpoints, a fresh adapter not yet
reinitialised. On the other lists the adapter has the record less what it could not place when
it answered (`unplaced`), which `clear-breakpoints`, `reinitialize`, and `breakpoint` of functions and of the
other lines of the file, take for success. `AgreesUnlessDisturbed` says that there is no other
reason, and that the next answered request of a list or the next
reinitialisation makes up for it.

## 4. Fairness

`client_live` and `client_spawn` assume that every goroutine that can run does
(the Go scheduler), that the adapter answers and sends its InitializedEvent while its connection
is up, that gdb ends at the end of its input, and
that a dial succeeds in the end: `doReconnect` retries without a limit. Nothing
is assumed of losses, undecodable messages, cancellations, forced reconnects, stop or new calls. The fairness
of a request is one condition on the disjunction of its steps, since its steps
follow each other. `bus_replay` assumes that bridges run and that a `cancel`
that has begun ends; the caller need not read on, and `BridgeEnds` allows the
bridge to be blocked as long as it does not.

`session` assumes strong fairness of each handler and of each client's goroutines,
since both may find `ds.mu` taken again and again: Go's mutex hands itself to a
waiter that has starved for a millisecond. It says besides that timeouts pass, that an adapter answers or its
connection is lost, which ends every request (the registry is drained), that a debuggee on which `step` or `debug` waits stops or the caller gives
up, and that gdb ends when its input does. A loss, a new call and the exit of a TCP adapter are not
assumed. `readLoop` is taken to end after `Close`; `client_spawn` is
where that is checked, and section 5 has the exception with a Redialer.

`client_live` has no forced reconnect and no stop, and writes to a dead
connection fail. With silent losses `CallsReturn` is false (section 5):
without a write error only the kernel's keepalive could help.
`Recovers` is about the flag: a client may become healthy
without an initialised session (`failed_reinit`).

The hook's wait for InitializedEvent is no request: nothing drains it, it has no timeout, and its
context is the client's, which `Close` would end, whose caller needs the `ds.mu` that the hook
holds. If the event fell into the gap of `Subscribe`, or the loss was told before the
subscription to losses was there, the hook keeps `ds.mu` for ever (`HookDeaf`). `Recovers`
and the `CallsReturn` of `Session` have this as their one exception, in the form that the
hook *stays* deaf (`[]`); `HookDeaf` and `HookTold` of `Session` are under no fairness.
In `DAPClient` the calls that have `ds.mu` return all the same: no call is let in while the hook has
it, so one that waits for `ds.mu` is not a call there but in `Session`.

## 5. Where code and documents disagree

Four runs are expected to fail; each checks what a comment or a document says.

| Run | What it shows |
|---|---|
| `fast_response` | a response delivered before its caller looks it up is reported as a lost connection |
| `failed_reinit` | a failed handshake is not retried, and the client is taken for healthy |
| `session_nil` | a `stop` while `wait-for-stop` with `pauseIfTimeout` is between its two locks makes it dereference nil |
| `session_gated` | `restart`, `set-variable` and `disassemble` stay registered after `stop` |

The models show more of the kind. They are no runs of the project, to keep it
small; the third column says how to see them.

| Code | What happens | Seen in |
|---|---|---|
| `dap.go:1309` | a loss during the hook is not acted on: `readLoop` is parked, nobody reconnects until a write fails | `client_safety` with `ParkedIsResumed` |
| `tools.go:1753` | an InitializedEvent dispatched between the snapshot and the registration of the hook's `Subscribe` is not seen, although the comment at `tools.go:1730` says that the ring covers it: the hook waits with `ds.mu`, and so does every tool | `client_safety` with `InitializedIsSeen` |
| `dap.go:1311` | a loss told before the hook's subscription to losses is registered: the hook waits with `ds.mu`, and so does every tool | `client_live` with `Recovers` without `HookDeaf` |
| `dap.go:582` | a stop between this check and `replaceConn` leaves a connection open | `client_safety` with `ClosedLeavesNothing` |
| `dap.go:172` | the same, and `readLoop` reads the new connection: `Close` waits for ever | `client_live` with `AllowClose` and `CloseReturns` |
| `dap.go:325` | a request registered after the drain and swallowed by the network never returns; it holds `ds.mu`, so the hook never runs | `client_live` with `SilentLoss` |
| `dap.go:1248` | a bridge goroutine blocked on a full `out` survives `cancel` | `bus_replay` with `BridgeEnds` without its exception |
| `dap.go:1194` | an event dispatched between the snapshot and the registration of `Subscribe` is missed, although the comment at `dap.go:1187` says there is no gap | `bus_replay` with `ExactWhenQuiet` without its `overlap` exception |
| `tools.go:1288` | a breakpoint hit while `debug` attaches is never reported, although the comment at `tools.go:619` says the first `wait-for-stop` catches it; so is one of a `debug` given up while it waits | `stops_all` with `NothingMissed` without `"early"` |
| `tools.go:1288` | the event of the entry comes after `debug` has set `lastStopAt`, and a later `wait-for-stop` reports it of a debuggee that runs, although the comment at `tools.go:1284` says that it is not replayed | `stops_all` with `EntryIsNotReplayed` |
| `tools.go:636` | a stop whose context cannot be read is consumed: the client has an error, and no `wait-for-stop` reports it | `stops_all` with `NothingMissed` without `"unread"` |
| `tools.go:725` | an event that comes when `pauseIfTimeout` has stopped waiting for it is reported after the client has continued | `stops_all` with `StopIsCurrent` without `stray` |
| `tools.go:1637` | a function that the adapter cannot place is confirmed and remembered | `bp_all` with `RecordedIsInstalled`, every switch off and `MaxUnplaced = 0` |
| `tools.go:1799` | an old stop is reported again after a reconnect | `stops_all` with `NotTwice` and `TakesTurn(TRUE)` in `Lost` |
| `tools.go:1407` | a stop shown by `context` and resumed from is reported by a later `wait-for-stop` | `stops_all` with `StopIsCurrent` and `TakesTurn(TRUE)` in `Context` |
| `tools.go:749` | the same of a stop by `pause`; and `evaluate` after it works in the frame of an earlier stop | `stops_all` with `TakesTurn(TRUE)` in `Pause` and `FrameIsShown`, or `StopIsCurrent` without `stray` |
| `tools.go:1169` | the hook of a closed client that waited for `ds.mu` sends its handshake to the next session's client | `session` with `HookIsOwn` without `n \in closed` |
| `main.go:120` | a server that fails leaves its adapter process behind | `session` with `OneAdapter` for `"fatal"` |
| `tools.go:553` | `continue` with `to` erases the other breakpoints of the file | `bp_all` with `RecordedIsInstalled` |
| `tools.go:1041` | the next session remembers the breakpoints of the last | `bp_all` with `KeepsBreakpoints` and every switch but `AllowRestart` off, with `RecordedIsInstalled` |
| `tools.go:1260` | of several initial breakpoints of a file only the last stays | `DebugInitial` of `Breakpoints` |

## 6. Proofs

Every safety property that a passing run checks is also proved. The proofs hold for any
number of handlers, calls, connections, losses, sessions, breakpoints, subscriptions, events
and readings of the clock, and for any capacity of the ring and the channels, under the
ASSUMEs on the constants of the module (bounds are naturals, capacities positive, switches
are Booleans, the handlers, the hook and the closer are distinct), which TLC evaluates in
every run.

| Module | Theorems |
|---|---|
| `EventRingProofs` | `RingTyping`, `RingImplementsLog` |
| `DAPClientProofs` | `Typing`, `WaitersAreReachable`, `DeliveryIsSafe`, `StaleIsAlwaysPursued`, `ConnectionsDoNotPileUp`, `ResponsesMatchConnection` |
| `ClientLifeProofs` | `ImplementsClientLife` |
| `EventBusProofs` | `Typing`, `LossReachesSubscribers`, `LiveOrder`, `TwoCopiesAtMost`, `QuietIsExact`, `BusKeepsLog` |
| `StopTrackingProofs` | `Typing`, `NoStopIsMissed`, `EventsAreReturnedOnce`, `ReportedStopIsCurrent`, `FrameOfShownStop` |
| `SessionProofs` | `Typing`, `AdapterIsOwned`, `ClientIsOwned`, `ToolsFitSession`, `FrameOfConnection`, `HookOfOwnClient` |
| `BreakpointsProofs` | `RecordIsConfirmed`, `AdapterAgrees` |

None of the interleaved properties is inductive by itself. Each module's invariant was
checked by TLC on the instance of the module's run before it was proved.

**EventRing.** The initial ring maps to the empty log, and a push to `Add`. The argument is
modular arithmetic on the position of the i-th entry before and after the push, with one case
for a ring that is filling and one for a full ring.

**DAPClient.** The invariant has five parts, each proved on top of the ones before:

1. `TypeInv`: types, and that no seq is allocated beyond `Seqs`: one per call and
   one per connection after the first (`SeqBound` counts the hook not begun yet).
2. `RegInv`: a number not allocated yet is untouched, two processes never hold
   the same number, what is in the registry is open and empty, and what
   `readLoop` is about to deliver is no longer there. `NoLostWaiter` and
   `DeliverIsSafe` follow from the two places that remove an entry: one closes
   the channel in the same section, the other delivers.
3. `WakeInv`: `reconnectLoop` does not end while a client with a Redialer is
   open, and every time `stale` is set, a token is sent or the loop is at work.
4. `LinkInv`: the order of the installation (the old connection is older, and closed
   after `CloseOld`), and that the hook's request lies inside the hook.
5. `OriginInv`: whatever is in transit on a connection was written to it, so what is
   delivered was written to the connection it is read from.

**DAPClient implements ClientLife.** Four more parts (`LifeInv`) say what the mapping needs:
who holds `ds.mu` in each phase of a request, of `Close` and of the hook (`MutexInv`); that
the context ends with the first step of `Close` and `readLoop` before its last (`EndInv`); that
the client is stale, with no token pending, throughout a reconnect (`StaleInv`); and that
connections are installed in the order in which they were dialled (`OrderInv`). Most steps
change nothing that the session sees (`Quiet`) and are stutters; each of the others is one
move. `StaleInv` is the part with content: a second token sent during a reconnect would have started
another one that a client no longer stale has no use for.

**EventBus.** Besides types, the ring being the recent past in order (`LogInv`) and
the event under way being the newest (`PumpInv`), the invariant is a conjunction over the
subscriptions. For subscription k it says who is a target of the dispatch under way
(`TargetInv`), what each phase of `Subscribe` has put into the line of channels, from
`got` over `out` and the bridge's hand to `ch` (`PhaseInv`, `KindInv`, `EntriesInv`), that
nothing in it is newer than the clock, nor what is still to be served in it yet
(`BoundInv`), that the two paths are each in order (`OrderInv`), that a loss broadcast to k
is in the line or coming (`LostInv`), and for a quiet
subscription what the replay and the live path share out between them
(`QuietInv`, `SplitInv`, `CoverInv`). Every action leaves the line of k as it is, appends one
item, or cuts its end, where the bridge's drain drops (`Same`, `Added`, `Cut`). A step is reduced to what k sees of
it (`Views`), and each part of the invariant is shown to survive each view,
not each action. That a loss is told however small the buffers are rests on a subscription
to losses having nothing else in its line.

**StopTracking.** `NothingMissed` needs `StartInv` (a `debug` is alone until it has
set `lastStopAt`, and the event of a stop meanwhile is still to come or is `early`), `EndInv` and
`MissInv`, which adds the two moments when a stop is neither findable nor shown: a call has
received it and is about to consume it, and a pause is under way at an adapter that told no
stop. A loss takes an event from `sent` into `missed`, a failed context one from the ring. For a
client in turns `AloneInv` says that its calls do not overlap and its connection stands,
`OnceInv` that what was returned lies before `lastStopAt` and before the time from which the call
under way looks. `StopIsCurrent` rests on three parts: `PastRing`, that `lastStopAt` is past every
event in the ring but those of stray stops and of a present stop not shown yet; `PastWay`, that
what is on its way is of a stop already known (so it becomes stray when it arrives), stray, or
present; and `LooksAhead`, that a wait looks no further back than `lastStopAt`. `Leaves` is the step
condition behind them: a client in turns goes on from a stop only if it was shown it, or
the stop is stray. `FrameIsShown` is inductive with these.

**Session.** The invariant joins six parts that need each other:

1. `TypeInv`, with the order of the numbers of sessions and connections.
2. `MutexInv`: `ds.mu` is held by exactly the call or hook that is inside. It is why a step
   inside has no other to reckon with (`Alone`), and the steps outside need only
   one lemma (`UnlockedStep`), since they change nothing that another call relies on.
3. `StartInv`: what `debug` has found or made by each point of its way; that `Spawn`
   meets no process and `Dial` no client is what `OneAdapter` and `OneClient` need.
4. `ForceInv`: the client that `reconnect` remembers without `ds.mu` is one there was.
5. `LifeInv`: there is a connection exactly while there is a client; whoever is no longer
   the client of the session was closed; cleanup is past `Close` when it waits for `readLoop`.
6. `FrameInv`: a context that is being read while the connection is the initialised one was
   asked for on that connection, because the hook that initialises a later one needs
   `ds.mu`, which the reader holds.

`TypeOK` bounds the connections of a client by the losses. That needs a count on top
(`CountInv`): the `reconnect` calls that have not marked their client stale yet, the redial
that a stale client has before it, and those it has behind it are together no more than the losses.

**Breakpoints.** The invariant is types, `RecordedIsConfirmed` and agreement outside
`disturbed`, with `unplaced`, in every state of the connection, where `AgreesUnlessDisturbed`
speaks only of a healthy one: what a lost connection leaves is found again by the next.

Only model-checked: the liveness properties (`Recovers`, `CallsReturn`, `CloseReturns`,
`BridgeEnds`), because fairness and ENABLED are outside the prover's reach, and the four
violations. No operator is recursive, and nothing here needs induction over data. That the
clients of `Session` have the moves of `ClientLife` is by reading, not by proof: several clients share one
`ds.mu` there, and the hook of a closed one may run in the next session.

## 7. Not modelled

- `stoppedThreadID` and threads, and what the tools return: a `wait-for-stop` of an
  ended session that writes its thread and time into the next one, the nil result of
  `tools.go:715`, the texts.
- The tools that depend on capabilities, when a reconnect changes the capabilities.
- `evaluate`, `set-variable`, `info` and `disassemble` beyond the requests they send: they change no
  state of the session.
- `SendRequest` and `readMessage`, which no handler calls.
- The arguments that backends build, TCP keepalive, prompts, logging, `FlexInt`, scripts.

## 8. Plan

1. Done: `EventLog`, `EventRing` and their refinement; `ClientLife` and `DAPClient`, and that
   the second implements the first; `EventBus`; `StopTracking`; `Breakpoints`; `Session`. The
   safety properties of all of them are proved.
2. Next: `Session` against `ClientLife`, one instance per session, which needs the
   connections of former clients as history; action properties of the record of breakpoints
   across sessions; the hazards that no property covers yet (`PROJECT.json` says why for each).
