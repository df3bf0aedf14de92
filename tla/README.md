# AYLink in TLA+

AYLink casts and controls Android devices. An agent written in Go talks to the
devices over ADB, runs a scrcpy server on them, and serves browsers (a Vue
application) and an Android app over HTTP, WebSockets and WebRTC. This project
models the parts of it in which goroutines, callbacks, promises, timers and remote
parties share state, checks the models with TLC, and proves what matters most of
the agent's core with TLAPS.

Paths below are relative to the repository; `webrtc.go` alone is
`AYLink.Agent/internal/transport/http/handler/webrtc.go`, `runtime.go` is
`AYLink.Agent/internal/infra/scrcpy/runtime.go`, and a `.ts` or `.vue` file is under
`AYLink.Web/src/`.

## 1. The system

### The agent

| Part | State | Operations | What makes it correct |
|---|---|---|---|
| Runtime pool (`webrtc.go`) | one entry per device: runtime, signature, reference counts in total and per session, sessions seen, `starting`/`ready` | acquire (join, replace, start), release, borrow for the clipboard, release of a session, sweep of idle entries | counts equal the references held; nobody loses a runtime he uses; idle runtimes go away; waiters wake |
| Signalling (`service/webrtc/signaling*.go`, `service.go`) | tickets, session leases; per session an object with peer connection, socket, monitor | ticket, heartbeat, release, connect, replace, attach, detach, monitor, close | one live object per session; displaced sockets end; a failed peer closes its session |
| Scrcpy runtime: video (`runtime.go`) | subscribers' channels, cached configuration and key frame, shared packet buffers | subscribe, offer, replay, unsubscribe, close | each buffer returned once and not early; no send on a closed channel; a slow viewer holds up nobody |
| Scrcpy runtime: control (`runtime.go`) | a bounded queue, the pointers that are down | send, coalesce under congestion, write, close | nothing that matters is lost or repeated; no call blocks for ever |
| Scrcpy runtime: clipboard (`runtime.go`) | waiters of two kinds, a cached text | read, write, dispatch of device messages, close | channels closed once; calls return |
| Source health and video refresh, media bridges | time stamps of the last packets, confirmation count, debounce; bridge states | classify, ask for refresh, replay | a bridge without a decodable frame gets one |
| RTC data streams (`transport/rtc`, `RtcByteStream.kt`, `channel.ts`) | credit windows, frames in transit, end and error flags at both ends | request, body frames, credit, end, failure, cancellation | the ends agree; buffers are bounded; no truncated body is taken for a whole one |
| Data sessions (`handler/data_transport.go`) | up to 16 request channels, idle timers | ready handshake, accept, idle close | no request is cut by an idle timer |
| Device preview (`service/devicepreview`) | cache entries with a capture in flight | get | one capture at a time |
| Authentication (`service/auth`, `infra/sqlite/auth_repository.go`) | users, roles, access and refresh tokens | login, refresh, logout, lock, password and role changes | a refresh token is spent once; a system owner remains |
| Devices, groups, settings, files, apps, terminal, ADB client, storage, HTTP server | SQLite rows, JSON files | requests passed through | left to unit tests |

### The web client

| Part | State | Operations | What makes it correct |
|---|---|---|---|
| Sessions and requests (`services/auth.ts`, `core/http/client.ts`, `router/index.ts`) | the stored session, each tab's copy, one shared refresh and one shared restore | commands, retry after 401, refresh, restore, sign-in and -out, guarded navigation | every call is answered; a refused request is not repeated with what was refused |
| Data transport (`features/deviceTransport`, `lib/http/transfer.ts`, `services/tasks.ts`) | a connection per device and account, transfers, the task list | acquire, account change, request, upload, download, cancel | no connection outlives its account; a task says what its transfer does |
| Files, apps, terminal (three views with their tabs) | tabs in the session storage, listings, spinners, terminals | open, switch, close, list, act, leave | what is shown is of the active tab; no flag stays |
| Devices (`useHomeDevices.ts`) | list, selection, pictures with a bounded number of loads | load, group, preview, add, rename, delete, USB, encoders | what is selected is listed; what is gone is gone |
| Screencast session (`ScreenCastView.ts`, `useScreencastSession.ts`, ...) | tabs, the connection shown, connections kept in the background, timers | start, stop, keep, take up, reconnect, leave, reload | what is shown belongs to the active tab |
| Video health (`useVideoStreamHealth.ts`, `videoStreamStateMachine.ts`) | watchdog, frame callbacks, cooldowns, detach timer | check, confirm, recover, detach the signalling socket | no false alarm, no unnoticed stall |
| Touch, keyboard and mapping (`features/screencast`, `features/inputMapping`, `lib/input`) | pointers, queues, channels, delayed touches, HID keyboard and mouse | press, move, release, map, pause, block, reconnect | every press on the device is let go of |
| Display size, clipboard window | the last size asked for, a heartbeat; the latest request, the window's place | resize, reconnect, switch tabs; read, write, drag | the device has the page's size; a message tells of the last write |
| Administration (`SettingsView.ts`, `AccountManagementView.ts`) | lists of two views that stay alive, a dialog | load, edit, save with several requests, delete | what is told as saved is saved |
| Profiles of key mappings (`ScreenCastView.ts`, `InputMappingProfilesView.ts`, the profile store) | the store, each tab's choice, the profile shown and the one compiled, the editor's drags, capture and timer | edit, save, discard, switch, list, import, delete | what is shown is what runs and what is stored |
| Other views, forms, layout | form fields | edit | left to unit tests |

The Android app speaks the same protocols; of it only `RtcByteStream.kt` is here.

### How they interact

A browser signs in, keeps its tokens fresh (`WebSession`), and sends its other
requests over HTTP or through the data channels of a peer connection of its own
(`Transfers`), where `transport/rtc` turns each channel into a byte stream
(`RtcStream`). For the screen it gets a ticket over HTTP and opens the signalling
WebSocket (`Screencast`). `ServeSignalWS` consumes the ticket, marks the session's
lease, acquires the device's runtime from the pool (`RuntimePool`) and serves the
socket with `HandleSignalWebSocket`, which finds or makes the session's peer
connection (`Signaling`), attaches the bridges to the runtime's fan-out
(`VideoFanout`), and the data channels to its control queue (`ControlQueue`), which
the page fills (`ScreenInput`). HTTP handlers renew leases, release sessions and
borrow the runtime for the clipboard (`ClipboardRpc`, `RemoteClipboard`). The pool asks
the signalling service for leases before it closes a runtime, each under a lock of
its own.

### What is hard

* Checks and the acts they guard stand in different critical sections
  (`webrtc.go:254`, `signaling_session.go:130`, `service/auth/service.go:138`).
* Channels are shared with goroutines that do not take the lock of the others
  (`runtime.go:676`, `runtime.go:412`).
* The same thing is closed by several paths (peer connections, waiters, buffers).
* Two implementations of one protocol count in different places (`stream.go`,
  `RtcByteStream.kt`).
* The page reads state, awaits, and goes on with what it read: after a tab was
  switched, a view left, an account changed, a newer request begun.
* An abort does not reach an answer whose headers are there (`client.ts`).
* A flag set by one call is taken back by another, or by nobody.
* Timers are armed in one state and fire in another.

`PROJECT.json` lists the hazards line by line with the properties for each.

## 2. Modules

### The agent

| Module | Models | State and steps |
|---|---|---|
| `RuntimePool` | the pool in `webrtc.go` with `Mark/Has...Lease` and `ReleaseSession` of the service | an entry is a record; an id stands for a `*managedRuntime` and its runtime; one action per critical section of `runtimeMu` or call outside it (`AcquireJoin`, `AcquireCreate`, `StartFails`, `Release...`, `Sweep...`) |
| `Signaling` | tickets, the lease, session objects, sockets, monitors, callbacks of one session | `pc[w]` is where a socket's goroutine is in `ServeSignalWS`/`HandleSignalWebSocket`, `monitor[o][n]` where monitor `n` of object `o` is |
| `VideoFanout` | `SubscribeVideoPackets`, `offerLatestVideoPacket`, `ReplayLatestVideoKeyFrame`, `closeAllSubscribers`, `sharedReleaseFunc` | the holder of `videoMu` works through batch and subscribers while they receive between any two of its looks at a channel |
| `ControlQueue` | `SendControl` down to `writeControlLoop` | one sender (all hold `controlEnqueueMu`), one writer that takes no lock; the drain is one step per receive |
| `ClipboardRpc` | `GetClipboard`, `SetClipboard`, the dispatch of device messages, close, the HTTP handler's use of the cache | `pc[c]` per call; reader, closer and device as actors; a channel is one slot and a count of closes |
| `BytePipe` | what one direction of a stream promises: bytes in order, a bounded window of them under way, no early "complete" | abstract |
| `RtcStream` | `stream.go`, `http.go`, `RtcByteStream.kt` and `channel.ts` for one request | counters per side, a frame is the range of the body it carries; writer and reader of each side as labels; implements two `BytePipe`s |

### The web client

JavaScript runs a handler to its first `await`. An action is therefore an event, a
timer, an answer, or what a settled promise resumes, and everything that is done
before control is given back is part of it.

| Module | Models | State and steps |
|---|---|---|
| `WebSession` | `auth.ts`, the retry of `client.ts`, the guards of `router/index.ts`, against an agent that issues, rotates and refuses | tokens are numbered pairs; a fiber per command and per restore, with the promises they share; tabs share the storage and hear of changes by events |
| `Transfers` | `connection.ts`, `requests.ts`, `transfer.ts`, `tasks.ts` | the pool of connections; an operation is a record with its task |
| `WorkspaceTabs`, `FileManager`, `AppManager`, `Terminals` | the three views with their tabs | a record per view; requests as a set of outstanding calls, marked latest or superseded |
| `Workspace` | the three views and the task list over one pool | composes the modules above; views stay alive |
| `Home` | `useHomeDevices.ts` | what the page holds, loads of pictures, calls |
| `Screencast` | `ScreenCastView.ts` and its composables: attempts, sockets, peer connections, kept connections, timers | the page is a record and `stop`, `persist`, `scheduleReconnect` map a page to a page; attempt `n` makes socket `n` and peer `n`; what an `await` continues is a job |
| `VideoHealth` | `useVideoStreamHealth.ts`, `videoStreamStateMachine.ts`, `videoRecoveryDecision.ts` | time in ticks; ages count up, timers down; awaited answers come within the tick |
| `HidInput`, `TouchInput`, `InputMapping` | keyboard and mouse reports; pointers, their queue and releases; the mapping's runtime, bridge and timers | functions on one record, as the handlers call one another without awaiting |
| `ScreenInput` | what the user, the network and the view do to that record | composes the three |
| `Administration` | groups and accounts in two views | lists loaded by several requests, a save that is one request per member |
| `DisplayResize` | the size of a virtual display in `ScreenCastView.ts` | stage, connection, delay, heartbeat, the connection put aside |
| `RemoteClipboard` | `useRemoteClipboard.ts` | requests with numbers, the window on one axis |
| `MappingProfiles` | the profiles of key mappings in the store, the tabs, the editor and the list | a profile's content is two stamps, of what is compiled and of the rest; a change of route is one step with the load it causes |

`MCScrcpyRuntime` runs the three parts of a scrcpy runtime, which share no variable,
one in each tour, and `Views` does the same with the last four modules (it extends
`RemoteClipboard` and has instances of the other three); the other `MC` modules give values
to constants. The theorems about a module are in the module of
its name with `Proofs` at the end; those about `ClipboardRpc`, `ControlQueue`,
`VideoFanout` and `MCScrcpyRuntime` are together in `ScrcpyRuntimeProofs`, where the queue
and the fan-out are the instances `Queue` and `Fanout` of `MCScrcpyRuntime`, and those about
the modules that `Workspace` composes are in `WorkspaceProofs`; those about the four modules of `Views` are in `ViewsProofs`.

A value read under a lock, or before an `await`, and used after it is kept in a
variable, so that whatever can happen in between does. Operators whose name ends in a
word after an underscore, commented "Mutated", are faulty forms of the code; a
property is worth its run only if such a form refutes it.

What the models abstract: texts, packets, pictures and key codes are members of small
sets or left out; SDP, ICE, H.264 and HTTP headers are left out; except in
`VideoHealth` time is left out, so that a timeout or the end of a lease may come at
any moment; contents of SQLite are not there.

## 3. Runs

| Run | Instance | Shows |
|---|---|---|
| `pool` | 2 goroutines and the janitor, 2 sessions of one device, a shared and a virtual display, 2 entry ids, fair | `RefsMatchHolders`, `IdleCloseUnused`, `ExclusiveDisplay`, `IdleRuntimeSwept` |
| `pool_release_race` | 3 entry ids, one signature | counterexample to `ReleaseClosesUnreferenced` |
| `stream` | window 3, chunks of 2, an upload, a download and an exchange, fair | `Pipes` (the refinement of `BytePipe` by request and response), `RequestEnds` |
| `runtime` | 2 calls and 2 texts; 2 pointers, 2 places and 4 calls; 2 subscribers, 3 packets, 1 replay; fair | `WaitersAccounted`, `QueueKept`, `DownsReleased`, `BuffersCounted`, `ReplayIntact`, `NobodyHangs` |
| `signaling` | 2 sockets, 2 objects, 2 monitors each, fair | `SessionsInOrder`, `NothingLingers` |
| `websession` | 1 tab in full and the others as writers of the storage, 3 token pairs of which 1 ages, fair | `RetryOtherToken`, `CallsEnd` |
| `screencast` | 2 tabs, 3 attempts, 3 moves, a patient user | `ShownIsActive`, `SnapshotOfTab`, `LeftQuiet` |
| `video` | 2 connections, thresholds of 2 ticks, fair | `DetachedWhenStable`, `NoFalseAlarm`, `StallActedOn` |
| `home` | 2 devices of which one is grouped, 1 slot, 4 moves, 2 calls | `SelectionListed`, `GoneIsGone`, `NothingStuck` |
| `workspace` | 2 devices, 2 accounts, 2 connections, 2 directories, 4 moves | `ConnectionsOwned`, `TaskTruthful`, `ListingOfTab`, `FlagsEnd`, `TerminalsOwned` |
| `input` | a finger, the mouse, 2 mapped keys, a queue of 3, 4 moves | `PressedKnown`, `ReleasesScheduled`, `QuietWhenIdle`, `CommandsReachable`, `HidInSync` |
| `views` | a device, a role, a user and 3 groups; 3 sizes of the stage; 3 widths; 3 profiles, 2 tabs and 6 moves | `SavedAsShown`, `AccountsCurrent`, `SizeReaches`, `ClipboardHonest` (`WrittenIsLatest` and `WindowReachable`), `MappingAsShown` |

### The bounds, and why they are enough to be interesting

* Pool: two goroutines can race, and the janitor is a third. Two ids allow an entry
  that was replaced while it is used, and its replacement; the counterexample needs
  a third, for the entry its victim starts. Sessions reuse ids that nobody remembers,
  so behaviours are not bounded in length. The theorems cover every size.
* Stream: a window that is no multiple of the chunk makes both limits bite; bodies
  of more than one window make the writer wait for credit.
* Runtime: two clipboard calls cover read against read, read against write and write
  against write. Two places of the control queue are filled by a droppable and another
  message, which is the congestion the drain is for; four calls are needed for down, a
  lost up, and a second down. A subscriber's channel of two is the least a replay
  needs; with three packets (a configuration, a key frame, one more) it overflows.
* Signaling: each socket starts at most one monitor, so `MaxMonitors` is the number
  of sockets; two objects are what two sockets can make.
* Sessions: three pairs are a sign-in, its refresh, and a refresh or sign-in of
  another tab that overtakes it; the tokens of the first get old. The tabs beside the
  one in full write to the storage: they sign in, renew, sign out, and put back the
  session they remember.
* Screencast: three attempts are a connection that is kept, one that is shown, and a
  reconnect of either; three moves are two switches or a switch, a leave and a return.
* Video: each threshold is the least that allows "not yet" and "long enough".
* Home, workspace, input: moves bound what the user, the agent and the network begin;
  what follows from a move is not bounded. Four allow, for instance, a request, one
  that supersedes it, a change of tab and a return.
* Input: three profiles, one a behaviour: a key of the device, a held button and the
  look; two keys on the joystick; repeated taps and a burst. A tap is half a burst, and a
  swipe a tap with a move, so neither has a profile of its own.
* Views: a group that exists, one to be created and the group of all; three stages, of
  which one exceeds the largest display; three widths, with no, some and plenty of room.

Deadlock is checked in the pool's runs. In the others the system may really stop:
a finished request, a closed runtime, a user who has made his moves.

### Assumptions that a run makes about its surroundings

* `screencast` has `Patient = TRUE`: the user does nothing else while `start()` waits
  for its ticket and its configuration or a handler for the route. The code does not
  ask after these waits whether another start, a switch or a leave came between
  (`useScreencastSession.ts:448`), and with `FALSE` all three properties fail: two
  attempts run at a time and the late one takes over. Everything else, the network
  and the timers included, happens at any time.
* `SavedAsShown` and `AccountsCurrent` stop being asked once something happened the
  views do not allow for (`calm`, `acc.current`); section 5 lists what that is.
* `SizeReaches` allows for a request that a full channel dropped (`dropped`), which
  the code counts as sent.
* `CommandsReachable` is not asked once a stage of unknown size swallowed a release
  (`spoiled`); `PressedKnown` leaves out what a disconnect cut off (`left`).
* Restored tabs are alike in the three views, and none or two (`Workspace!Init`).

### Fairness

* `RuntimePool`: a goroutine that can run does (Go's scheduler), the start of a
  runtime ends with a runtime or an error (probes and dials are bounded; that the
  reads from ADB and the device end is assumed), the janitor's ticker fires. Nothing is
  assumed of clients, leases or devices.
* `RtcStream`: the channel delivers (SCTP, reliable and ordered), goroutines and
  coroutines run, and handler and app go on reading and writing. The last is an
  assumption about the callers, without which no flow control terminates.
* `ControlQueue`: the call under way runs and its timer fires; nothing is
  assumed of the writer, although its writes have a deadline of five seconds.
* `ClipboardRpc`: a call's own steps, of which the end of its context is one (the
  handlers set 1.2 and 5 seconds). The device and the reader may stay silent.
* `VideoFanout`: who holds `videoMu` runs. Subscribers may never receive.
* `Signaling`: goroutines, tickers and callbacks run. Browsers, peers and leases do
  as they like.
* `WebSession`: continuations of settled promises run, the agent answers or the
  request is lost (requests have a timeout), and an answer that keeps being there is
  taken: the event loop serves it although storage events and clicks compete for the
  page, which is the strong fairness on receiving.
* `VideoHealth`: time passes, timers fire, what is awaited comes; the watchdog's
  judgement is strongly fair, as it competes with frames that arrive again and again.

The other runs check safety alone. That a spinner ends (`NothingStuck`, `FlagsEnd`) and
that a press will be released (`ReleasesScheduled`) are there stated as invariants: while
the flag is on, the thing that takes it back is outstanding.

### Where the code does not do what its text says

`pool_release_race`: "释放投屏会话租约，并在没有活动引用时关闭运行时" (`webrtc.go:149`), but
the release checks leases and references, and then closes the runtime a socket
acquired in between (`webrtc.go:254`). It takes a release and a socket in an
unlucky order, three steps of one within two of the other.

Other disagreements of code and purpose that the models reach, and that no
property denies:

* The same path can delete an entry that is still starting; the runtime that the start
  produces is closed by nobody (`webrtc.go:727`).
* The drain that makes room for a pointer move and the writer receive from one channel;
  a message put back ends up behind one the writer could have taken (`runtime.go:676`).
* An acknowledged write puts its text over a newer one in the cache (`runtime.go:359`).
* A monitor acts on a lease it looked up before a new socket and a heartbeat renewed it
  (`signaling_session.go:130`).
* The listener of an abort is taken off when the headers are there, so that a body of a
  superseded request still arrives (`client.ts:143`); the callers compare request numbers
  or not.
* A tab whose `fetchMe` is answered late writes the session it remembers over a newer
  sign-in of another tab (`auth.ts:380`); a request of that tab may then be refused twice
  with one token.
* The places where a run or a property has a condition: section 5.

## 4. Proofs

TLC's instances are small; the following hold for every value of the constants.

* `RuntimePoolProofs`, from `PoolAssumption` (every session has a device, there
  are finitely many goroutines, `None` is nothing else).
  `TypeCorrect`: no counter falls below zero. That is not inductive alone:
  `Typed` adds where each goroutine holds an entry and a request.
  `RefsExact`: `RefsMatchHolders`. The counters change by one when a goroutine
  comes or goes, so the proof needs that entries of different devices are
  different (`Distinct`) and that a goroutine holds an entry of its own device
  (`AtHome`); with `SameSignature` and `OneSession` it gives
  `DisplayExclusive`. `IdleCloseSafe` adds `Closings`: what an idle
  close has taken out is not starting and in no entry any more (`ClosingGone`), and
  while an entry starts only its starter holds it (`StarterAlone`). The invariant is
  `IInv == Typed /\ References /\ Closings`; `TakesRefs` and `GivesRefs` carry the
  counting, and the steps that touch no reference share `CalmStep`.
* `RtcStreamProofs`, from `StreamAssumption`. `TypeCorrect`: windows and counters
  stay natural numbers for every window, chunk size and pair of bodies, so that no
  window is overdrawn. `Typed` adds that the frame being sent was counted and the credit
  owed was read. `PipesImplemented` is the refinement: request and response of
  `RtcStream` implement a `BytePipe` each. A step of the detailed specification is one of
  the pipe only in states where the ranges fit together, which is the invariant `IInv`:
  for each direction, the frames in transit follow one another from what was received to
  what was sent (`Wire`), the credits from what was returned to what was read
  (`Returned`), allowance and bytes under way make up the window (`Counts`), and the head
  comes first and the end last (`Order`); for both, a thread counts what it is about to
  send (`Threads`), and a channel is closed only by a client that is done or an agent
  that failed (`Closing`), without which a cut stream could pass for a complete one.
* `SignalingProofs`, from `SignalingAssumption`: `SessionsAlwaysInOrder`. Attach, close and watch overlap in any
  order, so the argument is about who knows an object. Until it is stored it is private
  to the goroutine that builds it (`Known`); who is going to close one, be it a socket, a
  monitor, a callback or a release, has taken it out of the map before (`LeavingIsGone`);
  a closed one keeps nothing, and `stop` is nothing or the last monitor (`Stoppable`).
* `ScrcpyRuntimeProofs`, from `ClipboardAssumption` of `ClipboardRpc` and
  `FanoutBounded`, which says that the fan-out's `FanoutAssumption` holds of its instance.
  * The clipboard: `TypeCorrect`, and `AllWaitersAccounted`: `WaitersAccounted`, that no
    channel is closed twice and no waiter outlives its call. A call's channel is at any
    time in the hands of the map, the reader or the closer (`ClosedOnce`); to keep that
    one needs that a call that has not registered has a fresh channel (`Fresh`), that a
    channel with a value in it has been closed (`AnsweredClosed`), and that the close of
    the runtime runs once (`ClosesOnce`).
  * The control queue: `QueueAlwaysKept` and `DownsAlwaysReleased`, for any pointers,
    capacity and number of calls. Messages are counted by their occurrences in queue,
    hands and output (`MessagesConserved`); each step moves one occurrence, by lemmas
    about `Append` and `Tail`. The drain drops only messages of the kind of the one it
    makes room for, and puts the others back before it (`Draining`). That no pointer goes
    down twice rests on `DownsRemembered`: one that is down and not yet released is in
    `active`, so the next call for it carries a release (`Calling`).
  * The video: `BuffersAlwaysCounted` and `ReplayAlwaysIntact`. The count of a buffer is
    the number of its places in channels, of receivers that hold it, and of offers still
    to be made (`Counted`); a packet that moves up in its channel keeps the number by a
    bijection of places. The count needs that only known subscribers are served and that
    these have open channels (`Serving`, `Channels`). That the replayed pair stays
    together needs that the two places made for it stay free while subscribers only
    receive (`Replaying`).
  * The whole: every behaviour of `RuntimeSpec` is one of its queue and one of its
    fan-out, as the other parts only share the close with them, so `RuntimeQueueKept`,
    `RuntimeDownsReleased`, `RuntimeBuffersCounted` and `RuntimeReplayIntact` follow from
    the theorems about the parts.
* `ViewsProofs`, from `ClipboardAssumption` of `RemoteClipboard` and `ViewsAssumption` of
  `Views` (the classes of subjects are disjoint, there is a group besides the internal one,
  `None` is none of the records it stands beside), both of which TLC evaluates in
  `MCViews`. Each part has an invariant that its own actions keep; a tour leaves the other
  parts as they are (`Touring`), and TLC had confirmed all of it on the run `views`.
  * Administration: `AlwaysSavedAsShown` and `AccountsAlwaysCurrent`, for any devices,
    roles, users and groups. That success is told truly needs to be known from the click
    on: the lists of the dialog are the server's, or one load is under way that will make
    them so (`Fresh`, whose load may have read the tables in any order); in a save
    every subject behind the current request has the groups it is to have and every one
    ahead still has those of the list (`Progress`), also over the change of class, where the subjects
    that are passed over are those for whom nothing changes (`AssignFacts`); and no other
    request can start meanwhile, or `calm` is lost. The account view's lists are the
    server's while it is neither loading nor saving, and what a load has read so far is
    what the server has (`AccountsKnown`).
  * The size of the display: `SizeAlwaysReaches`. The last request of a connection is the
    one its device was told, unless it was dropped (`LastIsTold`); without it the test
    for a repeated size would leave a device untold. What the handlers do to the
    connection is proved once for all of them (`SendFacts`, `ScheduleFacts`).
  * The clipboard: `ClipboardAlwaysHonest`, for any number of requests and any widths. A
    good answer is one of a request the agent has carried out (`AnswersTrue` in `Asking`),
    and a window that was clamped stays where it is when clamped again (`Placed`).
  * The key mappings: `MappingAlwaysAsShown`. A change is stored only for a profile that
    has a name, so what is shown has one unless it is new (`ShownNamed`); a change of route
    loads what the tab and the query ask for (`LoadFacts`, `GoKeeps`), an edit is saved,
    compiled and shown in one (`SaveKeeps`), and a change of the store from the list leaves
    a view that will load again (`StoreKeeps`).
* `ScreencastProofs`, from `ScreencastAssumption`, for a user who is `Patient`, any tabs and any number of attempts:
  `AlwaysShownIsActive`, `AlwaysSnapshotOfTab` and `AlwaysLeftQuiet`. `Patient` is a
  hypothesis because without it the code has none of the three (section 3). The
  invariant says of the page that whatever it knows of a tab, shown, kept or saved, was made
  for that tab, that a handler knows its tab, and that one kept connection at most is
  alive (`Sound`); of the attempts, that one that waits asks for the active tab
  (`Asking`); and of a view that is away, or coming back without knowing what it will
  show, that nothing is under way (`Away`). Here TLC had confirmed every part on the
  bounds of the run before the proof. The functions of the page
  (`stop`, `persist`, `dispose`, `restore` and what else the handlers are made of) keep
  `Sound` one by one; then there is one lemma for each action.
* `WorkspaceProofs`, from the assumptions of `Transfers` and `FileManager`, for any devices, accounts,
  directories and connections: `OwnedAlways`, `TruthfulAlways`, `ListingAlways`,
  `FlagsAlwaysEnd` and `OwnedTerminals`. None of the five is inductive:
  * the phase of an operation decides whether it can still be cancelled (`Sound`);
  * an entry of the pool was asked for in the scope the pool has now (`EntryOwned`), which
    is why a change of the account has to drop the entries before anything else is asked;
    and an operation that only waits for an attempt has to keep it from being reused for
    another account (`Carries`, which also covers `"waiting"`);
  * what the file view shows is what it loaded last or nothing (`Listing`), only one of its
    requests is the latest (`Spins`), and there is only one upload, in the operations or
    in the listing that follows it (`UploadsAgree`);
  * an app action under way is an operation, a listing or a counter (`AppsKept`), and the
    connection of a terminal that is there is the only one of it (`TermsKept`);
  * tabs are listed once and the active one is among them (`TabsKept`).

  The operations of the three views move by the same rules, so their steps are classified
  once (`Advances`: an operation keeps what it was begun for, takes an attempt of its
  owner, or ends), and each part of the invariant is shown to survive them; numbers for
  new operations are found because finitely many are in use (`NextIdType`). TLC had
  confirmed the invariant on the instance of the run `workspace` before the proof.
* `HomeProofs`, for any devices, slots and number of calls: `SelectionAlwaysListed`,
  `GoneAlwaysGone` and `NothingEverStuck`. Each mark of the page (a spinner, a dialog that
  waits) has among the outstanding calls one that takes it away (`Served`): calls that are
  superseded, aborted or answered serve the same marks or leave them to the new call
  (`Carries`), and one that ends takes its own away. For the pictures these are the loads
  that still write to their device's state; to show that a device that is not listed has
  none, such loads must be of listed devices (`Pictures`). TLC had confirmed this
  invariant on the instance of the run `home`.

The theorems speak of `Spec`; the runs of liveness use `FairSpec`, whose behaviours are
among those of `Spec`. The theorems about `Views` speak of `ViewsSpec`, whose parts begin
in any of their initial states; the run's `MCSpec` is the same with fewer of them.

Only model-checked:

* All liveness (`IdleRuntimeSwept`, `RequestEnds`, `NobodyHangs`, `NothingLingers`,
  `CallsEnd`, `StallActedOn`): the prover has no rule for fairness.
* `HidInSync`, `PressedKnown`, `ReleasesScheduled`, `QuietWhenIdle` and
  `CommandsReachable`: `TouchInput` and `InputMapping`, which the run composes with
  `HidInput`, work by folds over sets and sequences of any length, and what a fold computes takes an induction over data.
* `RetryOtherToken`, and `DetachedWhenStable` and `NoFalseAlarm`, whose modules have no
  inductive invariant written down yet.

## 5. Conditions, and what is not modelled

### What the conditions of properties leave out

The code really does the following. The models reach it, and the property steps aside.

* `SavedAsShown` (`calm`): a click beside the dialog during a save resets the form, the
  remaining members are not sent, and success is told (`SettingsView.vue:728`,
  `SettingsView.ts:828`, `949`); loads that overlap, as after a delete and an edit, may
  leave the older lists; a failed load fills the form from lists of before
  (`SettingsView.ts:821`); a save that failed half way and is tried again creates the
  group again; the dialog for a new group does not reload, so that its save may revert
  what the account view changed (`SettingsView.ts:791`).
* `AccountsCurrent` (`acc.current`): the account view loads its lists once
  (`AccountManagementView.ts:570`) and stays alive while groups are changed elsewhere.
* `SizeReaches` (`dropped`, and while a connection is kept): the heartbeat of the display
  size is started by a watcher only and not after a reconnect; a size that the channel
  dropped counts as sent; a connection that was kept may open while another is shown.
* `WrittenIsLatest`: the message is of the last write; a read overtaken by a write, or one
  that ends in its timeout, leaves the spinner or "reading" on
  (`useRemoteClipboard.ts`).
* `NothingStuck` and `GoneIsGone`: a repeated submit of the dialogs is sent twice, and a
  late answer to adding or renaming closes whatever dialog is open
  (`useHomeDevices.ts:302`, `321`, `376`).
* `CommandsReachable` (`spoiled`): a second release of a pointer is taken for done while
  the first waits in the queue, although the pointer was pressed in between
  (`useTouchPointerInput.ts:306`); a picture without a size swallows a release.
* `MappingAsShown` (`query.new`, `cast.behind`): while a new profile is edited the one
  before it keeps running, also after the editor is left without saving, because the
  route keeps `inputMappingNew` (`ScreenCastView.ts:3119`, `3495`); a page that is opened
  for one tab with another kept loads the mapping of the other (`ScreenCastView.ts:4041`);
  a capture outlives the editor (`ScreenCastView.ts:3703`); the dialog of a profile's
  information stores the copy it was opened with (`InputMappingProfilesView.ts:160`).
* `PressedKnown` (`left`): a disconnect forgets what was pressed. Pausing in the middle of
  a tap cancels the delayed up, which a later command or release makes good for.
* `HidInSync` (`heldOver`): keys held when a connection is put aside stay down on the
  device. `keyup` is not seen while the focus is in an input
  (`ScreenCastView.ts:3685`, `3746`), and Android key events are not lifted on blur;
  settings that arrive after the control channel opened create no device before the
  next connection.
* `screencast`: see `Patient` in section 3.

### What is not modelled

* The contents of media and text: H.264 rewriting, SDP, ICE candidates, JSON,
  the text of the clipboard, the paths of files but for equality.
* Scrcpy's start on the device, ADB, files, apps and terminals on the agent: I/O. A start
  succeeds or fails.
* The agent's token store is an environment of `WebSession`; login, roles and the
  last-owner guard are not there. The source health, the bridges, data sessions and
  previews of the agent are in the plan.
* CRUD over SQLite and settings files, routing, translations, and the other views,
  forms and layout of the web client; of its input, mapped wheels, what a
  binding holds, a full storage for profiles, and drags of the clipboard and the menu, during which the window's
  `pointerup` is ignored (`ScreenCastView.ts:3509`).
* Control leases (`TryAcquireControl`): one critical section that checks and grants.
* The audio fan-out, which offers its packets as the video fan-out offers ordinary ones.
* The Android app but for its byte stream, and its vendored terminal emulator.

## 6. Plan

1. Proofs: `RetryOtherToken` of `WebSession`, then the two action properties of `VideoHealth`.
2. `AuthSessions`: the agent's side of `WebSession`, with the last owner.
3. `DataSession`: request channels and idle timers against `Transfers`.
4. `VideoRefresh`: source health, confirmation and debounce against the fan-out's replay.
5. `DevicePreview`: the single flight of captures; then the app's connections.
