# RemoteCodex in TLA+

RemoteCodex runs terminal sessions (ConPTY children), project previews and a
window/display stream on a Windows machine and lets paired devices use them from a
browser. This directory holds TLA+ models of the parts of that system where
concurrency, failure and ordering decide correctness, the TLC runs that check them on
small instances, and TLAPS proofs that all their safety properties hold for every
number of devices, sockets, viewers, requests, crashes and retries.

Paths below are relative to the repository (`src/`). `PROJECT.json` gives, for every
definition, the lines it models; for every property, a faulty variant of one definition
that breaks it; and the list of hazards the properties are aimed at. About 31 % of the
implementation's Rust lines are behind some definition; section 6 says what the rest is.

## 1. The system

| Component | State it keeps | Operations | Talks to |
|---|---|---|---|
| Input lease (`rc-core/lease.rs`) | epoch, owner (device, socket), expiry | acquire, takeover, renew, release, revoke by socket / device / all | behind the session's `input` mutex |
| Replay ledger (`rc-core/input.rs`) | highest sequence of the last (socket, epoch), the last 1024 ids and their outcomes | accept, accept_paste, finish, status | same mutex |
| Session input path (`session.rs` enqueue, writer_loop, write_job) | queues of 64 / 8 / 128, stop channel, writer thread | enqueue, paste, interrupt, drain | handlers, PTY, `Principal` |
| Session output (`session.rs` emit, `ring.rs`) | screen model, event ring, sequence, broadcast of 64 | emit, subscribe_snapshot, ring_after | reader thread, stream tasks |
| Terminal stream (`ws.rs` terminal) | cursor, unacked bytes, pending queue | snapshot transfer, send, applied, lag recovery | ring, broadcast, viewer |
| Viewer (`terminal.ts`, `snapshot.ts`) | StreamGuard, RenderBudget, xterm | connect, apply, reconnect | stream socket |
| Session lifecycle (`session.rs` SessionManager, `store.rs`) | the map of sessions, metadata, SQLite rows, one wait thread each | create, rename, close, shutdown, exit, restart | handlers, child, database |
| Resize (`session.rs` resize) | size in the metadata, in the model and of the pseudoconsole | commit, blocking call, roll-back | output lock, master |
| Authentication (`auth.rs`) | devices, pair tickets, challenges, access and socket tickets, block flag | pair, challenge, login, refresh, revoke, block, resume | store, sockets, sessions, previews, media |
| Control socket (`ws.rs` control) | principal, bounded reply channel | lease, input, paste acks, refresh, revocation at the end | sessions, auth |
| HTTP API (`http.rs`), local pipe (`local.rs`), tray | none of their own | routes to the above | all managers |
| Previews (`preview.rs`) | entries, launch and browser grants, gateways | register, launch, proxy, remove, block | auth, port table |
| Media (`media.rs`, `rc-core/media*.rs`) | approved sources, the one active stream, the GUI lease | approve, begin, cancel, control, finish | helper process, GUI safety thread |
| Media helper (`rc-media`) | latest capture, freshness proofs, pipeline, event channel, quality | capture, push, encode, negotiate, adapt, stop | the agent over stdin and stdout |
| GUI safety (`gui_session.rs`, `gui_input.rs`) | closed, armed, revision; command queue; injected keys | arm, action, disarm, revoke on local input | media |
| VT fence (`vt_fence.rs`) | parser state, bytes held back | push | emit |
| Web client (`controller.ts`, `policy.ts`, `paste.ts`) | connection attempt, session list, pending inputs, paste gate | connect, reload, send, settle | control socket, API |
| Desktop settings (`main.rs`, `tailscale.rs`, `transaction.rs`) | Serve rule, receipt, journal, `agent.toml`, named mutex | enable, disable, status and recovery, uninstall, media settings | Tailscale daemon, files, agent |
| Desktop lifecycle (`lifecycle.rs`, `autostart.rs`, tray) | agent process | start, stop | operating system |
| Encodings, configuration, performance counters, emulator adapter | - | - | - |

How they interact. A request reaches a handler, which checks its `Principal`, takes a
session's `Arc` from the manager and works under that session's mutexes; the order
sessions > resize_guard > master > output > meta > store is followed everywhere, with
`input` a leaf, so the locks themselves cannot deadlock. Three threads per
session (read, write, wait) hold only weak references. Output flows from the read thread
through ring and broadcast to any number of stream tasks; input flows from handlers
through two queues to the write thread. Revocation works by cancellation tokens and by
clearing leases, not by waiting for the threads.

What is hard about it, and what correctness means:

* **Input** - one writer at a time, no replay, no write after the right to write was lost,
  Ctrl+C that really overtakes, pastes that are never left open, and an honest answer for
  every input, although lease, device, socket, session and PTY can each fail between any
  two steps.
* **Output** - a viewer shows a prefix of the output at all times, catches up through lag,
  eviction and reconnection, and is never overrun.
* **Lifecycle** - the session limit, a database row that agrees with the session, and an
  end that is recorded, although close, exit, creation and restart overlap.
* **Authorization** - a revoked or blocked device loses everything it holds, at once and
  across restarts.
* **Previews** - no gateway survives its removal, no cookie the device or preview it was
  granted for, and nothing keeps flowing after either is gone.
* **GUI control** - remote input stops at the first local touch although an action may be
  anywhere between its test and `SendInput`; no key stays down.
* **Media** - one viewer on the host; a freshness proof never vouches for a picture that was
  not encoded; whatever fails, the slot comes back.
* **Settings** - a rule the program made is never forgotten, through crashes, failing files and
  a daemon that others use too.
* **Client** - overlapping connection attempts leave no socket nobody owns, a stopped page waits
  for nothing, and a lost connection is always retried.

## 2. Modules

| Module | Models | Uses |
|---|---|---|
| `Lease` | the lease as a value and its operations | - |
| `InputLedger` | the ledger as a value and its operations | - |
| `InputState` | the `input` mutex: lease and ledger under arbitrary callers | Lease, InputLedger |
| `InputWriter` | enqueue, queues, writer thread, interrupts, the session's end | InputState (instance) |
| `TerminalFeed` | abstract: what a terminal view promises | - |
| `TerminalStream` | ring, broadcast, stream task, sockets, viewer | TerminalFeed (refined) |
| `SessionLifecycle` | manager, wait threads, rows, restart | - |
| `Access` | authentication, the control socket and its lease, block, resume, revoke, restart | - |
| `GuiControl` | media loop, safety thread, atomics, command queue, injected keys | - |
| `MediaSession` | the stream slot, stream tasks, the capture helper | - |
| `ServeSettings` | the desktop's settings transactions and their recovery | - |
| `Preview` | registrations, gateways, grants, proxied requests | - |
| `ControlClient` | the browser's controller | - |
| `InputStateProofs`, `InputWriterProofs`, `AccessProofs`, `GuiControlProofs`, `MediaSessionProofs`, `TerminalStreamProofs` | inductive invariants, theorems and proofs (section 4) | the module named |
| `DurableProofs` | the same for what survives a restart: sessions and settings | SessionLifecycle, ServeSettings |
| `BrowserProofs` | the same for what a browser meets: previews and the page | Preview, ControlClient |
| `MC*` | TLC instances | the module named |

### Lease, InputLedger, InputState
The code compares `Instant`s; the model keeps the lifetime an owner has `left` and a
`Tick` that takes from it, which is the same thing for `until > now`. `InputState` has one
action per critical section of the mutex. Its callers are arbitrary: any device may present
any socket, epoch, id and sequence, so what holds here holds for every client. `accepted`
is a history variable. An accepted input whose queue turns out to be full is rejected in
the same critical section, as in `enqueue`.

### InputWriter
State: InputState's, the two job queues, the number of pending query answers, the stop slot,
the writer's program counter and locals (`w`), the `running` flag, whether the last `Arc`
is gone, the progress of `close` and of the wait thread, and the valid principals. Every
point at which `write_job` reads shared state or writes the PTY is a step, so a lease, a
principal or the session can be lost between a check and its write. `select_biased!` is the
chain of polls `PollStop`, `PollInterrupt`, then query or normal: a signal arriving during
the chain is seen only by the next one. The three reads of `permitted()` are one step, which
loses nothing, since none of them ever turns back to true for the same job. A paste of
several chunks yields to an interrupt between chunks; the interrupt it yielded to is
`w.urgent` until the recursive call. `pty` is the history of writes, each marked with
whether it failed and whether it came late.

Every step on lease and ledger is an action of InputState (`IS!Acquire`, `IS!Accept`, ...), and
the module is proved to implement InputState. `Shape` gives every id the input it stands for:
sequence, number of chunks, delimiters, Enter, priority. `OutcomeHonest` compares what a client
is told with `pty`: a job answered written has each of its parts (`PartAt`) once and in order.

### TerminalStream and TerminalFeed
An event is its number, its cost is in abstract units, the screen is the number of events it
shows. The code's byte counters (`bytes` of the ring, `unacked`, `RenderBudget`) are differences of
positions: `output[n]` is where event n ends when all events are laid end to end, and a frame knows
where it ends among the bytes of its connection. The queue `inflight` needs no variable: it holds
the frames after the last one reported. The ring is an interval of events, the broadcast channel a cursor that lags when it
is more than `BroadcastCap` behind. `ring_bytes` is any of `RingLimits`; an event larger than the ring
leaves it at once. The stream
task subscribes and takes its snapshot under the output lock (one step) and ends if the snapshot is
too large to be sent (`oversized`, which any event may change); it sends meta, chunk and end frames,
then loops: fill, send while credit lasts, wait for an applied report or an event. Losing the authorization, the 20 s
deadline of a send and a broken socket all end the task and are `Drop`. The viewer is
`StreamGuard` (phase, sequence), `RenderBudget` and the reconnection: after `onclose` the render
queue goes on until the timer (`retry`) connects anew. A resize emits an event
under the output lock and calls the pseudoconsole after releasing it (`Resize`); if that fails a
second event takes the size back (`ResizeEnds`), and output may come between the two.

`TerminalFeed` is the promise: the screen is a prefix of the output, advances one event at a
time, and a restoration never takes it back. `TerminalStream` is checked to implement it with
`seq <- Len(output)`, `view <- shown`.

### SessionLifecycle
The `sessions` mutex is held by `create` from the limit check to the insertion, so the part
of it no other thread can observe is one step (`Create`), followed by `CreateInfo` (the
metadata is read) and `CreateSave` (the row is written and the session listed, or it is closed
again under the lock). `close` is `Swap` and `Mark`, because the wait thread can come between.
`rename_label` keeps the metadata mutex over the database write (`metaLock`). The wait thread
is `WaitReturns` (upgrade, flag), `WaitState`, `WaitInfo`, `WaitSave`; exited and lost are told
apart by no property and merged. `Restart` ends the process at any point and lets `Store::open`
mark unfinished rows lost. A database write may fail.

### Access
A principal is a device with the number of its cancellation token, `<<d, g>>`: `resume_local`
gives a device its next token, so an old and a new principal of one device are told apart.
Requests read the block flag before they take the lock (`Ask`), then do their work under it in
one step; the device list, the flag and the database are written in the order of the code, one
step each, because `block_all` (HTTP, pipe, tray), `resume_local` (pipe, tray) and
`revoke_device` (HTTP) may overlap. A socket reads and replaces its principal, passes the check
of `acquire` in one step and takes the lease in the next. What expires may vanish at any time
(`Lapse`, `Hangup`). Of the actions that follow a block or a revocation the one on the leases
is modelled here, the one on previews in `Preview`, the one on media in `MediaSession`
(`CancelActive`).

Two history variables mark what the code does not promise. `orphans` are tokens that a resume
replaced while they were good: nothing cancels them any more, and `RevokedLetsGo` and
`BlockedLetsGo` except them (see the limits below). `clash` says a block and
a resume overlapped, after which an open host may be left with canceled tokens until the next
resume.

### GuiControl
The media loop and the native safety thread share three atomics and a bounded queue, and every
step of the model touches that shared state once: a revoke is `armed` then `revision`, an arm is
`ArmCas`, `ArmStore`, `ArmRecheck`, `ArmReply`, and an action is tested by the agent (`Act`),
again when it is taken from the queue (`ApplyCheck`) and again in `allowed()` before each
`SendInput`. Low-level hooks run on the safety thread only while it looks for messages, so a
local touch falls where `GetMessage` or `PeekMessage` is called. `held` are the injected keys
and buttons, each with the epoch that pressed it. History variables are the revision after the
last local touch (`touch`) and after the last revoke of any kind (`fence`), and the number of
inputs that landed after a revoke (`late`).

### MediaSession
Agent and helper are one state machine over a pipe. `begin` is `Get` (approval read, lock
released) and `Begin` (slot taken). The helper's main loop is select, push, status; captures,
the pad probe, negotiation and the bus run beside it. A frame is its capture serial and a buffer
its PTS, so an unchanged screen repeats a serial under a new PTS. The leaky queue drops its own
oldest buffer when a push finds it full; what the encoder has taken from it (`encoder`, a set) it may
hold for any time, drop, and hand on in any order. `honest` records whether every Frame message told
what was encoded. Three places of a stream task are sends that no timeout bounds (`Sending`): the
pong of a ping, the error of a start that failed, and the closing handshake.

### ServeSettings
Each durable step of `set_tailscale_serve`, `tailscale_status`, `uninstall_cleanup` and
`set_media_config` (journal, command, journal with receipt, receipt, configuration, removal of
the journal) is an action, in the order of the code; any of them may fail (`Fail`) and any
process may die between two (`Crash`), which abandons the named mutex. A Tailscale command may
take effect and still be reported as late. Others may change the rule (`Foreign`) and the node
may be renamed (`Rename`) at any time. `made` is the history of who put the rule there.

### Preview
A registration is identified, bound, listed, reserved and serving; its handler may be dropped at
either await. A request is `found` (cookie), `held` (device), then `sent` or, for a WebSocket,
`connecting` (identity), and `flowing`, from where each chunk takes it to `sending` and back.
Revocation and block first cancel the tokens that requests hold, then purge the grants in a later
step, as the handlers do; a revocation that could not be saved (`unsaved`) stops before the purge. A
resume, of a blocked host or an open one, gives devices new tokens, and a request that holds a good
old one is an `orphan` from then on. All registrations of the instance use one gateway port: that is where they meet.

### ControlClient
A `connect()` call is the attempt number it took, and so is the socket it makes; the awaits of
`connect()` are the places `auth`, `host`, `list`, `ticket`, `made`. Timers that `retryTimer` no
longer names are counted (`strays`), because `disconnected()` does not clear one that runs. The
agent is whatever it may be: it greets, gives and takes the lease, settles, or breaks.

## 3. Runs

| Run | What it asks | Distinct states |
|---|---|---|
| `input_state` | no replay, one writer per epoch, ids unique within the window, a lost grant stays lost | 36 117 |
| `input_writer` | at most one late write per job, the interrupt barrier, pastes closed and unbroken, honest outcomes, every job in one place | 747 013 |
| `input_end` | every job is settled eventually, while the session ends | 180 520 |
| `terminal_stream` | refinement of TerminalFeed, no refused frame, credit, catching up, with resizes, refused snapshots and events larger than the ring | 639 451 |
| `session_lifecycle` | the limit on running sessions holds, a listed session has its row, labels are kept, exits are recorded | 458 695 |
| `access` | a revoked or blocked device can do nothing, a block survives a restart, an open host is usable | 1 943 654 |
| `access_lease` | a socket that is gone or not authorized does not keep the lease | 58 637 |
| `gui_control` | a revoke stops remote input, an arm survives no revoke and inherits no key, keys come up | 314 000 |
| `media_session` | one owner, honest and lasting proofs, a canceled stream ends | 1 516 266 |
| `serve_settings` | a rule made is a rule recorded, the configuration agrees with the receipt, recovery ends | 102 344 |
| `preview` | cookies die with their grant, an unlisted gateway stops, what flows is cut | 162 636 |
| `client` | no leftovers of overlapping attempts, a lost connection is retried | 176 457 |

All hold. Every module also has a type invariant, which is part of its inductive invariant and
proved (section 4); TLC evaluated each of them on the instances above.

### Known limits of the code
What the properties above do not say, because the code does not do it. Each was met while
modelling and is visible in the model.

*Input and output.*
* An input id is forgotten after 1024 newer ones (`input.rs:73`) and is then accepted again under
  a fresh sequence; SPEC.md:456 promises this for the agent's life. `IdWindow` states the window. The ledger's record of such an
  id is that of its last use, so `OutcomeHonest` reads the ledger only for ids used once.
* A paste that yields to Ctrl+C after its first chunk is answered INPUT_CANCELED (`session.rs:679`)
  though `error.rs:28` describes that as "canceled before PTY write"; the ledger records
  delivery_unknown.
* `ring_bytes` may be 32768 (`config.rs:64`), 40 less than a full frame costs: such a frame evicts
  itself, `after` finds an empty ring, and a viewer that lagged waits until there is more output
  (SPEC.md:491). The model has such events, and `CatchesUp` excepts the ring they leave empty (`OutOfReach`).
* A snapshot over 4 MiB is refused when a viewer subscribes (`session.rs:540`, `ws.rs:259`): the
  viewer reconnects, in vain, until the screen and its history shrink. `CatchesUp` excepts such a
  screen (`oversized`).
* After `onclose` the render queue of the dead connection may still finish a snapshot and make the
  view ready again, until the timer reconnects (`terminal.ts:81`).

*Lifecycle and access.*
* A session's row may stay running or closing until the next start: `close` marks Closing after
  the wait thread marked Exited; `create` writes the row of a child that already died; the next
  `create` drops a closed session before its wait thread upgrades (`session.rs:134`, `246`,
  SPEC.md:360-363). `ExitArchived` is about exits that no close overlaps.
* A resume of a host that is open (pipe command) replaces tokens in use; a later revocation does
  not reach sockets and preview requests that hold the old ones until they expire (`auth.rs:156`,
  SPEC.md:300). `RevokedLetsGo`, `BlockedLetsGo`, `TokensCut` and `CutEnds` except them.
* A revocation that cannot be saved has canceled the device's token but returns an error before
  leases, previews and media are told (`auth.rs:383`, `http.rs:398`). The preview cookie then stays in
  the table until the revocation is repeated or the cookie expires; it opens nothing, since the
  device is refused. `GrantsDie` excepts it (`unsaved`).

*GUI control and media.*
* `ArmStartsClean` needs the batch of a WAKE to be no larger than the queue (both are 64): with a
  larger batch one pass handles a new Arm before the top of the loop released the old keys.
* `clear_sources` between `get` and `begin` leaves a stream of a source that is no longer approved.
* Three sends of a stream task have no timeout while the slot is held, and poll no cancellation: the
  pong of a ping (`media.rs:563`), the error of a failed start (487) and the closing handshake (614).
  A client that keeps its connection open and does not read keeps a canceled stream there, and delays
  the next viewer. `CanceledEnds` is about clients that read at last.
* A buffer that the encoder still holds when 128 newer captures have been pushed has lost its proof
  (`native.rs:282`) and is encoded without a Frame message. `ProofKept` says so.

*Settings.*
* A journal of an enable whose rule never appeared is not resolved by `tailscale_status`, and
  blocks later changes and the uninstaller; `Resolvable` leaves it out.
* The uninstaller removes the receipt before the origin, without a journal, when the rule is
  already absent. Nothing excludes another user of Tailscale between inspection and command.

*Previews.*
* A changed upstream stops the gateway and leaves its entry listed; a refused reservation leaves
  the tickets issued meanwhile, and a register call dropped at its await leaves an entry without
  a gateway. All three end with `remove`.
* While a WebSocket or a body hands a chunk on it polls neither its stop nor its revocation token
  (`preview.rs:601-611`): one side that does not read keeps the other's connection after a
  revocation, though nothing passes. `CutEnds` is about chunks that are taken at last.

*Client.*
* A retry that fails late calls `disconnected()` whatever happened since and takes a healthy
  connection down (it reconnects). A timer that is no longer named can connect a page that was
  stopped, or supersede a live socket, whose pending inputs then wait for answers nobody hears.
* A first connect, or one on becoming visible, that fails is shown and not retried: `Reconnects`
  is about a client that was connected.
* The list of sessions is not ordered with lease messages of the same connection: an old list may
  show a lease just lost. The end of an upload clears a later paste's gate.

### Bounds
* `input_state`: two devices, two sockets, three ids, three epochs, two sequences, four
  accepted inputs, a ledger of two, lifetime two. Enough for a window to overflow, an epoch to
  be taken over and return to its first device, and an expiry between check and renewal.
  Devices, sockets and ids are symmetric.
* `input_writer`: a bracketed paste of two chunks with Enter, a key and Ctrl+C; queues of one;
  two epochs; one failed PTY write; one socket. A takeover by another device is, to these
  jobs, the loss of the lease and a new epoch, and both happen. A full queue, an interrupt
  between chunks and a failure at each of the five kinds of write all occur.
* `input_end`: a paste and an interrupt, both enders, the last drop, one pending query. No
  symmetry, since liveness is checked.
* `terminal_stream`: four events of cost one or four, a ring of two events and of three units (large
  events evict themselves, and output refills a ring that was left empty) or of five (what is in it
  overflows the pending queue of four), a broadcast of one slot, a window of two, one cut. Lag,
  eviction of needed events, a resize that is rolled back with output in between, a refused snapshot
  and reconnection all occur. `RenderLimit` is exactly what the credit rule allows. Deadlock is not checked: a program may stop printing.
* `session_lifecycle`: two sessions, two handlers, a limit of one, one failed write, one
  restart. Deadlock is not checked: with all sessions created and finished nothing is left.
* `access`: one device, one socket, two requests at a time (symmetric), one resume's worth of
  tokens, one failed write, one restart, one ticket of each kind. Devices do not interact but
  through the flag. A second generation of tokens (`MaxGen = 2`) passes too, in about four times
  the states. `access_lease`: two sockets that compete for the lease, one request at a time, no
  symmetry. Deadlock is not checked: an agent nobody asks for anything is idle.
* `gui_control`: a queue and a batch of two, revokes until revision two (steps under way go on
  beyond it). A full queue drops a Disarm, an arm times out, and every interleaving of one arm
  with revokes of both sides occurs. A third revision adds repetitions; the proofs have no bound on
  revisions. `NoArm` is a value that is no revision.
* `media_session`: two viewers, three captures and pushes, a queue of one, an encoder and a proof map
  of two, event and pipe channels of one. The leaky queue overflows, the map evicts the proof of a
  buffer that the encoder holds, the channel is full. `QueueCap <= MaxProofs` is an assumption the
  code meets: the map holds 128, the queue two. Nothing is assumed of the encoder's size.
* `serve_settings`: two processes, two names, two media settings, two faults. Two faults allow a
  failure of the recovery from a failure.
* `preview`: two registrations of different projects that meet at one port, one device, one request
  at a time, two upstream processes, one cookie (so that its limit is met). Devices do not interact,
  and requests only through grants and stop tokens, which other actions change as well. Two requests
  with one registration pass too, and so do the two invariants with two of each (2 073 796 states).
* `client`: three faults, one hiding, two pastes at a time, one extra list. Three faults are a
  broken socket, a failed retry and a failure of the retry's retry.
  Deadlock is not checked in these but for `serve_settings`: users may stop, and the model's
  bounds end.

### Fairness
* Writer thread: weakly fair. It is an OS thread and a PTY write is assumed to return.
  `InputSettled` is conditional on the queries drying up, because the loop polls queries
  before the normal queue; `InterruptSettled` is not.
* A thread that began to end a session continues (weakly fair).
* Stream task and viewer: weakly fair (tokio task, browser event loop). Nothing forces output
  or a network failure.
* Control sockets: a step that only needs the task to run (`SocketStep`) is weakly fair; the
  loop polls the cancellation first. Nobody need ask for a lease or a refresh.
* GUI: the safety thread runs and gets its timer every 100 ms, the media loop finishes what it
  began and ticks; local input and clients need do nothing. A text of many characters ends.
* Media: a stream task starts within the three seconds of the safety thread, leaves its loop when it
  is canceled (the select is biased, and polls the tokens first; the sends of the loop are bounded by
  500 ms) and reaps its helper, which is killed after two seconds. The helper need do nothing, and
  nothing is assumed of the three sends without a timeout: `CanceledEnds` has their end as a premise.
* Settings: a command that holds the mutex runs on, and the status page asks again (strongly fair,
  because another process may hold the mutex whenever it asks).
* Previews: the select of a request sees a canceled token. It is unbiased and may serve a chunk
  first, so that the token is polled again and again: it is chosen at last (strong fairness). A chunk
  need never be taken, which is a premise of `CutEnds`. A stopped gateway closes.
* Client: requests end (a timeout of 15 s), timers fire, close events are delivered, and an agent
  that accepted a socket greets it.
* Handlers that began, and wait threads: weakly fair. Children need never exit, and nobody need
  ask for anything.

## 4. Proofs

Every invariant and action property that a run checks, of all ten components, is also a theorem.
Eight modules hold the proofs, two of them for two components. For each component one states an
inductive invariant (`IInv`; `SettingsInv` and `PageInv` for the second component of a module) as a
conjunction of named parts, proves that `Init` establishes it and every action keeps it
(`Invariance`), and draws the properties of the runs from it. TLC evaluated every `IInv` on the instances of the runs before it
was proved. What is proved holds for every value of the constants that meets the named assumption;
the bounds of section 3 (`MaxEpoch`, `MaxGen`, `MaxFaults`, ...) are arbitrary naturals there.

| Module | Theorem | Statement |
|---|---|---|
| `InputStateProofs` | `TypeCorrect` | `Spec => []TypeOK`, which bounds the id queue and ties the outcome map to it |
| | `ReplayFree`, `SingleWriter`, `IdsWithinWindow` | `Spec => []NoReplay`, `[]OneWriterPerEpoch`, `[]IdWindow` |
| | `LostForGood` | `Spec => LostLeaseStaysLost`, an action property |
| `InputWriterProofs` | `Implements` | `Spec => IS!Spec`: the input path implements InputState |
| | `OneLate`, `Barrier`, `PasteWhole`, `Honest`, `OnePlace` | `AtMostOneLateWrite`, `InterruptBarrier`, `PasteUnbroken`, `OutcomeHonest`, `ExactlyOnce` |
| | `WriterTyped` | `WriterTypeOK` |
| `AccessProofs` | `RevokedIsOut`, `BlockedIsOut` | `RevokedLetsGo`, `BlockedLetsGo` |
| | `BlockIsStored`, `OpenIsOpen`, `TypeCorrect` | `BlockSurvives`, `OpenIsUsable`, `TypeOK` |
| `GuiControlProofs` | `InputStops`, `KeysClean`, `LeaseHolds`, `TypeCorrect` | `RevokeStopsInput`, `ArmStartsClean`, `ArmedIsLeased`, `TypeOK` |
| `MediaSessionProofs` | `SlotOwned`, `FramesHonest`, `ProofsKept`, `TypeCorrect` | `OneOwner`, `ProofHonest`, `ProofKept`, `TypeOK` |
| `DurableProofs`, sessions | `LimitHolds`, `ListedHasRow`, `LabelsAgree`, `TypeCorrect` | `WithinLimit`, `ListedIsStored`, `RenameKept`, `TypeOK` |
| settings | `RuleRecorded`, `ConfigAgrees`, `SettingsTypeCorrect` | `SettingsSpec => []OwnedIsRecorded`, `[]ConfigCommitted`, `[]SettingsTypeOK` |
| `BrowserProofs`, previews | `CookiesDieWithGrant`, `UnlistedIsStopped`, `TypeCorrect` | `CookiesDie`, `UnlistedStops`, `TypeOK` |
| page | `NothingLeft`, `PageTypeCorrect` | `PageSpec => []NoLeftovers`, `[]PageTypeOK` |
| `TerminalStreamProofs` | `Implements` | `Spec => FeedSpec`: the stream implements TerminalFeed |
| | `NothingRefused`, `WithinCredit`, `TypeCorrect` | `NeverRefused`, `CreditBound`, `TypeOK` |

Every component also has its invariance theorem, `Spec => []IInv`. So that the two modules of a pair
can be extended together, ServeSettings and ControlClient name their specifications `SettingsSpec`
and `PageSpec` (likewise `SettingsInit`, `PageTypeOK` and so on). Neither module of a pair uses
anything of the other.

### The arguments

*InputState.* `NoReplay` is not inductive: the ledger forgets all but the last (socket, epoch), so
the proof must know that a forgotten pair can never be current again. `IInv` adds `IssuedEpochs`
(no input carries an epoch not yet issued), `OwnerCovered` (while the epoch has an owner, its
inputs are the owner's and lie below the ledger's entry for that pair) and `IdsAreRecent` (the
ledger's id queue is the end of the history). Acceptance is the one hard step: a verified lease
means the current epoch; `OwnerCovered` then says that either the ledger still has the pair, and
the sequence test decides, or no input of this epoch was accepted yet. Lease steps either keep the
epoch or start a new one, for which `IssuedEpochs` makes `OwnerCovered` vacuous.

*InputWriter.* No property of the write history is inductive by itself: each needs to know what is
still to come. `Placed` says where a waiting job is (`Queued`, `Held`, `Somewhere`), how far the
writer is with the job in its hands (`Progress`: which parts of it are in `pty`, from its place in
`write_job`) and that both queues are ordered (`Ahead`). `History` relates `pty` to those jobs:
nothing younger than a waiting job was written, but text before an interrupt that still waits
(`Behind`), what was written is settled or in hand (`Unwritten`), after a late write the right is
gone and the writer knows or will ask (`Late`; lease, device and session only get worse for a job,
the argument of `LostForGood` again), an open delimiter is closed unless it is the writer's current
paste (`Closing`), a settled job has all the parts its answer claims (`Counted`), and the ledger's
rejections are of jobs without a write (`Rejections`). `Implements` needs little of `IInv`: that the
requests are typed and that what the writer finishes is an accepted job.

*Access.* `RevokedLetsGo` speaks of principals in use, but a token is checked when it is issued and
used later, so the invariant follows tokens: those before a device's current one are canceled or
orphans (`Replaced`), a revoked device's current one is canceled (`Withheld`), a device that never
paired holds nothing (`Strangers`), and while the host is blocked with no block or resume pending
a device with a good token has neither a log-in nor a principal in use (`Shut`). `Stored`, `Apart`
and `Usable` follow the flag, its stored copy and the tokens through overlapping blocks and resumes.

*GuiControl.* `Epochs` orders lease, answer, queued commands and the revision; `Grants` and `Leases`
say which of them an armed session may stem from at each step of the arm; `Lates` that after a
revoke only the command past `allowed()` can send; `Keys` which epochs the held keys may
have. That an arm never finds old keys rests on the queue: while keys of a revoked lease may be down,
an Arm that could still succeed is behind a Disarm or beyond the end of the current batch
(`Guarded`), and so is the next one posted (`Cleaner`): a Disarm is dropped only by a full queue,
and a batch is no larger than the queue.

*MediaSession.* `Recent` says that the queue holds the last timestamps pushed, one after the other, and
the encoder older ones; `ProofsMatch` that proofs and buffers of one timestamp have one serial. `Kept`
counts pushes: the map evicts its oldest entry, and a full map has `MaxProofs` different timestamps
below the next one, so the oldest is at least `MaxProofs` pushes old (`OldestIsOld`). A buffer in the
queue is at most `QueueCap` pushes old, so it keeps its proof; one in the encoder does while it is
young enough.

*SessionLifecycle.* A session passes through many hands: the handler that creates it, the wait thread,
handlers that rename or close it, a shutdown. `Traces` says that one never started has left nothing
and that whoever refers to a session finds its metadata; `Tasks` what a handler has at each place.
`Creation` says that until it is listed only its creator refers to a session besides its wait thread,
and that the row about to be saved has the label of the metadata. So no rename falls between the copy
and the save of a first row. A rename keeps the metadata mutex from its check to its end (`Locked`),
so while the wait thread has a copy of the metadata to save, no rename is between its two writes and
the copy's label is still the session's (`Ended`). Together they give `Labels`: row and metadata
differ only between the two writes of a rename, which already has the row's label. `Room` is the limit:
while a session is created the map stays locked and has room, and every other step only lets
sessions stop (`Fewer`).

*ServeSettings.* `Where(p)` gives, for each place of each process, what journal, receipt, rule,
configuration and the process's own copies are. A failure or a crash may come at any place, so
`Base`, the properties without their proviso that the mutex is free, holds at every step of a
transaction and not only between two; `Where(p)` is what its next step relies on.

*Preview.* A preview may leave the list before its gateway starts, so `UnlistedTold` speaks of the
registrations that may still start one. A consume call under way turns a ticket into a cookie:
`RequestsServed`, `TicketsListed` and `CookiesServed` say that it does so only for a listed preview
whose gateway was started, and that a preview that leaves the list takes both with it. `TokensCut`
is inductive: a device loses its access only in a step that cancels the tokens its requests hold,
and a request gets one only from a device that has access.

*ControlClient.* `NoLeftovers` is nearly inductive: `Sockets` adds that a call made its socket before
it was over and that one not begun has none, so that the next `connect()` finds none of its own. The
rest is about the bound: `Paced` shows that every `connect()` that has run or that a timer, a dying
socket or a hidden page has in store was paid for by a fault or by the page. It makes `attempt` stay
within `MaxAttempt` for any number of faults and hides, so that the model's bound on calls cuts off
nothing.

*TerminalStream.* `NeverRefused` is about the frame the viewer handles next and the report the agent
reads next; the invariant is about all of them. `Chain` says that the frames on the socket are, one
after the other, what the viewer's guard expects, `Tip` that what the task sends next continues them.
`Between` and `Reports` give the order applied <= reports <= viewer <= frames <= sent, `Credit` the
window. `Budget` turns the byte counters into distances: a live frame is as far from the end of the
connection's bytes as its event is from the last one sent (`Level`), so the backlog is at most what
was sent and not reported, plus the snapshot while the viewer restores (`Holds`). No step needs a
sum over an interval; `Growing`, that later events end later, is enough. For the refinement `Ahead` adds that a snapshot under way is not
older than the screen, since it was taken after the last event of the previous connection was sent.

### Assumptions

All are named, weak, and evaluated by TLC on the runs. Limits are naturals, non-zero where the code
has a positive constant, and the values that stand for "nobody", "no file" or "no row" are no
members of the sets they complete. Five say more: `MaxInput <= MaxPaste` (8 KiB and 256 KiB in
the code), `Batch <= QueueCap` (both 64), `QueueCap <= MaxProofs` (2 and 128),
`SnapshotCost + (Window - 1) + n <= RenderLimit` for every cost `n` (4 MiB, 256 KiB and a frame,
against 5 MiB), and `Handles`, `Shape` and `ClientOf` in InputWriter are functions of the right
types. The second, third and fourth are needed: with a larger batch, queue or window the property
is false.

### Only model-checked

* The liveness properties `InterruptSettled`, `InputSettled`, `CatchesUp`, `ExitArchived`,
  `LeaseReturned`, `KeysReleased`, `CanceledEnds`, `RecoveryEnds`, `CutEnds` and `Reconnects`:
  fairness and ENABLED are out of the prover's reach.

## 5. Plan

The models are complete as far as section 6 says, and their safety properties are proved. The
extension most worth having is the bounded reply channel of the control socket (`ws.rs`: a request
may be answered rejected although its input is queued), which would join `Access` and `InputWriter`
in one model.

## 6. Not modelled

* The emulator's screen, byte layouts, the VT fence's scanner, header and cookie rewriting,
  formatting, HTTP routing, configuration parsing, profiles, performance counters: data or plumbing
  no property tells apart.
* The browser's media client and quality adaptation: their messages are arbitrary inputs here.
* The capabilities probe of the media helper and its cache.
* The bounded reply channel of the control socket, and heartbeats.
* xterm's internal write buffer across a reset, and messages of more than one frame.
* GStreamer and Windows capture, Windows calls, the Tauri shell, starting and stopping the agent
  process, autostart and tray: external I/O. The Tailscale daemon is the environment of
  `ServeSettings`.
* `vendor/alacritty_terminal`: third-party.
* Scopes (who may ask for what is a fixed set per device), signatures and secrets (taken to be
  unforgeable), rate limits other than as a refusal.
