# TLA+ models of the Linux container manager

The repository is an Android app that runs a Linux root file system in a
container and shows its desktop in a window.  Its own core is in
`src/app/src/main/cpp` (C, about 3 200 lines) and
`src/app/src/main/java/com/fauzan/containermanager` (Kotlin, about 670 lines);
the rest of the tree is logs, chat exports, prebuilt binaries and build files.
Paths below are relative to `src/app/src/main/`; `KT/` stands for
`java/com/fauzan/containermanager/`.

## The system

```
 ContainerDisplayActivity / ContainerDisplaySurface      MainActivity
   surfaceCreated, surfaceDestroyed, Back                Start, Stop, Delete
          |  UI thread                                       |  su scripts
   DisplayManager (one native handle)                    ContainerScript
          |  JNI                                             |
   native_consumer.c   render thread, event thread       boot.c (as root)
          |  calls / callbacks      |  libsu shell           | container init
   libdisplay_consumer              v                        v
          |  unix sockets, eventfd,  fd_helper.c  --->  display daemon
          |  shared page, dma-bufs                           |
          +------------------------------------------>  producer (KWin)
```

The daemon and the producer are not in the repository.  They appear only
through what the app sends them and what it does with their answers.

### libdisplay_consumer (`cpp/libdisplay_consumer/display_consumer.c`)

*State.*  `struct display_ctx`: the descriptors of one session (control, data,
fence, audio, eventfd), the shared page that names the current buffer,
`fallback`, `buffer_pending`, the pushed buffers, the registered services with
their `resources[]`, `services_sent_mask` and `data_needs_lock`, and the locks
`state_lock` and `data_lock`.

*Operations.*  `connect_to_deamon*` and `send_hello_fds` offer a set of
descriptors to the daemon; `try_exit_fallback` looks for the daemon's FDS_READY
and sends the buffers (`push_dmabufs_internal`); `select_dmabuf` names a buffer
and signals; `refresh_done` waits for the fence; `poll_output_event` reads the
producer's reports; `handle_resource_request` answers a request for a service
with an event and its descriptors; `push_input_event` sends input;
`enter_fallback` tears the session down and offers the next; `disconnect` ends
it.

*What is hard.*  Three kinds of threads call these functions and any of them may
call `enter_fallback`.  Only the teardown and the up-transition take
`state_lock`: every other function tests `fallback` and reads a descriptor
without it, and `enter_fallback` calls `on_fallback` after releasing it.  Closed
descriptor numbers are used again by the next session.

*What makes it correct.*  One teardown at a time; descriptors are used only
after they were picked up; an FDS_READY belongs to the descriptors it is taken
for; the fence belongs to the frame; a connection that is up does not crash;
whoever tears down, the connection comes up again, and the render thread comes
back.  On the data socket, what is sent in two parts arrives together; a
resource is freed once and none is forgotten; the locks and the full socket
keep nobody for ever.

### the event thread and the library's callbacks (`cpp/native_consumer.c:215-360, 840-960`)

*State.*  `event_running`, `event_thread`, `event_thread_joinable`.
*Operations.*  `start_event_thread` and `stop_event_thread` from the callbacks
`on_exit_fallback` and `on_fallback`, `join_event_thread`, `event_thread_func`.
*What is hard.*  `on_fallback` runs on whichever thread tore the session down,
late; the render thread and `nativeStop` join a thread that may be in `recv_all`;
creating or attaching the thread may fail.
*What makes it correct.*  At most one event thread, its handle never lost; one
that reads whenever a producer is connected, unless it could not start.

### the consumer instance (`cpp/native_consumer.c:1030-1280`, `KT/DisplayManager.kt`, the composable in `KT/MainActivity.kt`)

*State.*  `struct consumer_state`: `running`, `need_reconnect`, `window`,
`ctx`, the duplicated buffers; in Kotlin one `handle` for all windows.
*Operations.*  `surfaceCreated` posts a coroutine that calls `startDisplay`
(`nativeCreate`, `nativeConfigure`, `nativeSetRefreshRate`, `nativeStart`);
`surfaceDestroyed` and Back call `stopDisplay` (`nativeStop`); the render thread
runs `render_thread_func` and `do_connect`.
*What is hard.*  The UI thread, the render thread and the event thread share the
instance without a lock; callbacks of one window are ordered against the posted
start of another; a connect may take 30 s.
*What makes it correct.*  One render thread or none; it draws only into a
surface that exists; nothing is freed under a thread; a stopped instance holds
nothing; each window on screen is served; the UI thread comes back.

### the root helper (`recv_fd_via_root_helper`, `cpp/fd_helper.c`, `runRootCommandAsync`)

*State.*  The bridge socket at one fixed path, the backlog of its listener, the
jobs queued in the one root shell, the configured container.  *Operations.*  listen, enqueue the helper,
wait 30 s, accept, receive; the helper connects to the daemon and then to the
bridge and sends the descriptor.  *What is hard.*  An attempt that timed out
leaves its helper behind, and the next attempt listens at the same path.
*What makes it correct.*  An attempt ends; what it gets is a connection to the
daemon it asked for; no helper keeps the root shell from the scripts; a window
that stays on screen gets connected.

### window buffers (`collect_dmabufs`, `cleanup_dmabufs` in `cpp/native_consumer.c`)

*State.*  `dmabuf_fds`, `buf_anb`, `buf_count` of each instance, and the
process's descriptor table.  *Operations.*  `do_connect` closes the slots of the
attempt before, sizes the window, dequeues until it has seen each buffer and
keeps a dup of each; a collection that falls short closes what it has.  *What is
hard.*  `buf_count` is set before the slots are filled, slots start as 0, which
is a descriptor, and closed numbers are used again by everybody in the process.
*What makes it correct.*  No dup is lost, nobody else's descriptor is closed, and a
context sends the buffers of its window.

### the container life cycle (`cpp/boot.c`, `KT/ContainerScript.kt`, `KT/MainActivity.kt`)

*State.*  The list of containers in memory and in the preferences file, the set of
running containers in memory, root directories with `container.pid` and
`container.log`, the processes.  *Operations.*  Add (extract), Start, Stop and
Delete: a coroutine each, with a script in the one root shell and a callback on
the main thread; `boot enter` from a terminal.  *What is hard.*  Buttons stay
enabled while a script runs; the coroutine dies with the activity and its
script does not; pid files outlive processes; app and device may die at any
time.  *What makes it correct.*  The screen tells the truth about what runs; Stop
ends the container it is for and no other; Delete never takes the root from
under a running container; what was extracted stays listed; every button is
answered.

### the rest

In this build no service is registered (`camera_service_is_ready()` is 0);
top-app scheduling is configured off by `DisplayManager`; `native_audio.h` and
`camera_service.h` are stubs; clipboard and activity objects are passed as
null.  `UEventPatchHook` is a stateless filter inside another process.  The
graphics probe is a one-shot diagnostic.  `PROJECT.json` lists all of them, and
"Not modelled" below says why.

## The modules

| module | what it is |
|---|---|
| `DisplaySession` | what the library promises: generations of descriptors that are offered, granted, used and torn down |
| `EventThreadLife` | what starting, stopping and joining the event thread promise |
| `DisplayInstance` | what an instance promises the activity: one attempt at a time, for what it was last told to show |
| `DisplayConsumer` | the library and the callbacks, one step for each access to shared state |
| `MCDisplayConsumer` | names the fault sets for TLC |
| `DisplayConsumerProofs` | theorems about `DisplayConsumer`, the refinement among them |
| `DisplayFenceProofs` | the theorem about its fences, on top of those |
| `DataChannel` | the writers of the data socket, their lock and its gate, the resources of services |
| `DataChannelProofs` | theorems about `DataChannel` |
| `NativeConsumer` | the instance: UI thread, render thread, event thread, windows, contexts |
| `NativeConsumerProofs` | theorems about `NativeConsumer` |
| `DmabufCollection` | the window's buffers as descriptors, for several instances on one table |
| `MCDmabufCollection` | the symmetry of the instances for TLC |
| `DmabufCollectionProofs` | theorems about `DmabufCollection` |
| `RootHelper` | an attempt to connect, the root shell and the helpers in it |
| `RootHelperProofs` | theorems about `RootHelper` |
| `ContainerLifecycle` | the list, the buttons, their scripts, pid files and processes |
| `ContainerLifecycleProofs` | theorems about `ContainerLifecycle` |

`DisplayConsumer` looks at one context and the threads inside it, without
services; `DataChannel` looks at the writes of the same context with services,
and keeps of the session the teardown, the up-transition and the event
thread's start and stop.  `NativeConsumer` looks at many contexts and reduces
each to whether it is up.  `DmabufCollection` looks inside its steps `Reap` and
`Collect`, and `RootHelper` inside its step `Connect`: `AttemptEnds` is what lets
`NativeConsumer` take that step for granted, it ends, with a connection or not.

Three abstract specifications say that these cuts are of one program.  Each is
implemented by the two modules that share the part, under a refinement mapping
each of its own:

| abstract | `DisplayConsumer` | `DataChannel` | `NativeConsumer` | `RootHelper` |
|---|---|---|---|---|
| `DisplaySession`: sessions are offered, granted, used and torn down | x | x | | |
| `EventThreadLife`: one event thread, told, ended and joined before the next | x | | x | |
| `DisplayInstance`: orders, attempts and what becomes of them | | | x | x |

In `DisplayInstance` an `Order` is what `nativeStart` and `nativeStop` begin with,
clearing `running`, `Obey` what follows their join of the render thread, and
`Attempt` and `Outcome` are `do_connect`.  An outcome may come after the next
order was given, and `Obey` then discards it.  `target` is the window in
`NativeConsumer` and the container on it in `RootHelper`.

`ContainerLifecycle` and `RootHelper` share the root shell; each counts the
other's commands as what the shell may be busy with (the scripts of
`RootHelper`; the fairness of `Begin` in `ContainerLifecycle`).

### DisplayConsumer

Each thread has a program counter `pc[t]`.  A step is one access to what the
threads share, in the order of the C code; an access that commutes with the
steps of the other threads goes with the next one (for example the test of
`fallback` in `select_dmabuf` with the dequeue before it).  Steps begin with
`ef_` in `enter_fallback`, `p_` in `push_input_event`, `r_` and `x_` in the
render thread (`x_`: in `on_exit_fallback`), `e_` in the event thread.

* *Sessions.*  All descriptors and the mapping of one `send_hello_fds` are one
  number, `session`; `open` is FALSE between the closes of `enter_fallback` and
  the next `send_hello_fds`.  `ready`, `peer`, `shm`, `sig`, `fence` and `out`
  are the other side of each session: FDS_READY on the control socket, what
  the producer is doing, the buffer index in the page, the eventfd, the fence
  socket and the data socket.
* *Descriptor numbers.*  A thread that has read a descriptor and makes the system
  call later may find it closed, or reused by the next session, which takes the
  lowest free numbers, those just closed.  `MayReach` is the set of sessions
  such a call may reach: its own (a `poll` that began in time keeps the file
  alive), none, or the current one.  `MaySend` leaves out its own when it was
  closed.  When `fallback` is tested and the descriptor is read again from the
  context, the model does the same (`RecvFence`, `EventFd` before `RecvData`).
* *The page.*  `Load` reads `shm_ptr` and `Store` writes through what was read,
  without a lock.  NULL faults: `crashed`, after which nothing moves.  A page that
  was unmapped in between faults too, unless something mapped since has its
  address, the next session's page or another's.
* *The event thread* attaches to the JVM first (`EventBegin`), which may fail: it ends,
  and `event_running` stays set.  A clipboard message is read in two calls, the
  message and the text, each with its own test of `fallback`, its poll and its
  `data_fd` read anew (`c_` steps).  `recv_all` has no timeout: it may block with
  part of a message (`e_rest`), or of a text (`c_rest`), and what comes first
  from a session that took the number's place is taken for the rest (`TakesForeign`).
  `out` says how a message stands on the data socket: nothing, one or its first bytes, one
  of which the reader has the beginning and the rest is there or not, or no message.
* *Threads.*  The input thread is the UI thread in `nativeSetRefreshRate`, the
  only caller of `push_input_event` besides the render thread that this build's
  Kotlin code reaches.
* *The environment.*  A producer picks up a hello (`Pickup`), answers a signal
  with the fence of the buffer named by the page (`Answer`), reports (`Report`, and
  `Finish` for the rest of what it began) and lets go of an old session
  (`Release`).  `Close`, `Stall` and `Desync` are its faults: it dies, stops
  answering, or sends a message of unknown size.  `"shm"`, `"thread"`, `"attach"`
  and `"memory"` are the app's own: `create_shm`, `pthread_create`,
  `AttachCurrentThread` (in `on_exit_fallback` or in the new thread) and the
  `malloc` for a text fail.
* *The fence timeout.*  `PollFence` takes the timeout only when no answer is on
  its way (`AnswerComing`): the 5 s are longer than a frame of a producer that
  works.  A stalled producer may answer before or after the timeout.

* *Overlap.*  `overlapped` is history: `select_dmabuf` signalled a buffer with `fallback`
  set, that is, another thread had begun to tear its session down since its
  check.

Left out: `data_lock` and the resources, which are `DataChannel`'s subject; the
contents of events and texts, the screen description; the death of
the daemon or a hello that cannot be sent (nothing in the code claims to
recover from it: `need_reconnect` stays FALSE).

### DataChannel

Here the thread's step `pc[t]` is in `enter_fallback` (`ef_`), in
`push_dmabufs_internal` (`b`), in `on_exit_fallback` (`x_`), in
`push_input_event` (`i_`) or in `handle_resource_request` (`h_`).  `fd[t]` is the
generation of the descriptor a thread has read, 0 for -1.  `wire` holds the parts
the socket has not yet given to the producer, `expects` what its parser waits
for, and `split` the continuations it found missing.

* *One send, one part.*  A message in one `send_all` is one part.  `Sends` needs room in
  the socket (`Capacity` parts) and otherwise blocks, lock in hand; a part of a
  descriptor that was closed and reused goes to the session in place.  `SendFails`
  is -1, a closed descriptor or a producer that is gone.
* *Handles.*  `allocate_resource` returns a handle not in use, or fails.  `live` are
  those allocated and not freed; `misuse` records a second free or a send after
  a free.  `mine` is the handle of the request under way, `sending` the one whose
  descriptors it passes on.
* *A request* is polled for, received from the `data_fd` of that moment, which may
  be the next session's (`PollRequest`, `TakeRequest`), allocated, the previous
  resource freed, the new one set, and read back from `resources[]` for the
  number and for the descriptors (`ReadNumber`, `PushResource`): each a step
  without a lock, so that a teardown may come between any two.
* *The teardown* is `EfLock` (the flag), `EfFree` and `EfClear` (`free_resources`,
  which frees and then clears what is on record by then, before `data_lock`), `EfClose`,
  `EfNew` (the next descriptors, or none when they cannot be had, and
  `arm_data_lock`), `EfCallback` (`stop_event_thread`, after the locks).
* *`calm`* is history: no call overlapped a new session and no service was asked for
  twice.  It becomes FALSE when a teardown or an up-transition finds another
  thread in a call (unless that thread is entering the teardown too), when the
  event thread was left running in fallback, and when a producer asks again.  A
  second request of a service is supported by the code (`display_consumer.c:98-101`), and
  once the gate is open its two parts may be split like the buffers': the
  properties of the stream leave it out, those of the locks and of the record do not.
  The parts on the wire are told apart while it is calm only.
* *`overtaken`* is history: a handle was stored between the free and the clear of its
  record.

Left out: what the fence and the buffer index do (`DisplayConsumer`), partial
sends inside a part, and events of other lengths, which are written like input
events; the reads and writes inside one struct copy.  `free_resources` is taken as
one free and one clear of all the services that have something.

### NativeConsumer

`ui` is where the UI thread is inside `nativeStart` or `nativeStop`
(`start_join` = joining the render thread, `stop_reap` = joining the event
thread and freeing), `render` where the render thread is, `event` and `eventCtx`
the event thread and the context it passed to `poll_output_event`.  `heap` is
the set of contexts that are allocated; contexts are numbered in the order they
were allocated.  `posted` is the queue of start coroutines.  `finishing` are the
windows that were finished (Back, or removed from the recents) but whose
surface is still there.

* A new window appears only when every other one is finished: the launch
  intent carries no data URI, so the document launch mode finds and reuses the
  task that is there.
* A callback of the surface may run before a coroutine that was posted earlier: it
  can after a slow frame.  `orderly` is history: no callback overtook a posted
  start, and no window appeared while another still had a surface.  `late` is
  history: the callback of a teardown came when the next connection was up.
* What `DisplayConsumer` has step by step is atomic here: `Frame` is a whole frame
  with or without an up-transition or a teardown, `StartDisplay` includes the
  push of the refresh rate.  `EventFallback`, the callback of a teardown made by
  the event thread, is a step of its own because it can be late.
* The event thread may be in a poll, which ends, or in a `recv_all`, which need
  not (`recv`).  `mute` is history: the last event thread that was to start was
  not asked for (no JVM environment in `on_exit_fallback`), not created, or not attached.
* Left out: `nativeDestroy`, which the Kotlin code never calls; `nativeStart`'s return when
  the hidden window API cannot be loaded (`native_consumer.c:1194-1200`), which leaves
  an instance stopped; and `pthread_create` of the render thread, whose result
  the code does not look at (1250): a failure would have `nativeStop` join
  nothing.

### DmabufCollection

`owner` and `image` are the descriptor table: whose each number is and which
buffer it is a dup of; `dup` and `open` take the lowest free number, as the
kernel does.  `at[w]` is the step of an instance's thread: `empty` and `undo`
are the loops that close, one slot at a time, `collect` the loop that dequeues.
`idle` stands for a stopped instance and for the point between the cleanup and
the resize of `do_connect`; the second cleanup of an attempt that follows a
start finds no slots.  The render thread is joined between attempts and frames
only (`nativeStop` clears `running`, which `render_thread_func` tests there), so
that `Leave` begins from `wait` and `up`.  `AppStep` is every other `open` and
`close` of the process.

`short` is history: a collection fell short, so that a slot below `buf_count`
may never have been filled.  `calloc` made it 0, and the next cleanup closes
descriptor 0, once for each such slot, whoever has it then.

### RootHelper

`attempt` is where the render thread is: `try` (past the loop's test of
`running`), `poll` and `recv` in `recv_fd_via_root_helper`, `none` elsewhere.
`joining` is the UI thread in the `pthread_join` of `nativeStart` or
`nativeStop`; `Joined` is its end and the `disconnect` after it.  `shown` is the
container of the window on screen and `configured` the one in
`cfg_socket_path`, which a stop leaves alone: an attempt that began before the
UI thread's order and goes on after it takes its snapshot from there (`Begin`).

* *The bridge.*  `bridge` is the file at the one path: `listening`, or `stale` when
  the app was killed and nobody listens.  `backlog` are the connections not
  accepted; `listen(lfd, 1)` admits one more than it says on Linux, and a
  helper that finds it full waits, in the shell.
* *The root shell.*  Every `Shell.cmd(..).exec()` of the app runs in one shell, one
  after the other: `shell` is the step of the command it is at.  The threads
  that wait for it are counted per container (`waiting`), and the order among
  them is not relied on, since each helper has a thread of its own.
* *Time.*  The 30 s pass when no connection is in the backlog.  If a helper is on
  its way (`HelperComing`), that takes a fault: a root prompt nobody answers, a
  slow device.  Behind a script, or after the helper has given up, it takes none.
* *Faults* are counted: scripts taken, delays, buffers or sockets that cannot be
  had (`GiveUp`), deaths of a daemon, deaths of the app, which leave the file
  and nothing else.
* *A failed hello.*  `Receive` keeps no connection to a daemon that died in
  between; an instance whose daemon dies later stays in fallback, which is
  `DisplayConsumer`'s subject.

Left out: the probe mode of the helper, which nothing starts; a root shell that
dies alone; a helper that survives the app.

### ContainerLifecycle

A button starts a job: `op`, its container `target`, the step `at` of its script.
`Begin` gives it the shell, the steps of the scripts follow (`Unpack`; `Boot` and
`ReadLog`; `Kill` and `Unlink`; `Remove`), and a `Finish` action is the rest of
the coroutine on the main thread.  `containers` and the preferences in memory are
always assigned together and are one variable, `list`; `disk` is the file that
`apply()` writes later (`Flush`).  `isExtracting` is derived from the jobs, and
the picker, which covers the other buttons, is one step with the coroutine it
starts.

* *Processes.*  `of[p]` is the container of a process and `ready[p]` whether it has
  executed init: before that its setup may fail (`SetupFails`) and `pkill -f
  /sbin/init` does not see it.  Numbers are used again.  The SIGTERM of `pkill` may
  be ignored.
* *Output.*  A script failed when its output holds "ERROR".  Whether libsu hands over
  stderr is nondeterministic for tar; for boot, an error nobody hears of is a
  fault.
* *Rotation, death, reboot.*  `Recreate` forgets `runningContainers` and cancels
  coroutines, whose scripts go on (`owner` "app"); `AppDies` also drops what had
  not begun and loses what was not flushed, and the running script may be cut
  anywhere (`Cut`); `Reboot` ends every process and keeps the files.
* *`orderly`* is history since the last boot.  It becomes FALSE with a button pressed
  while a job of its container is under way, a pid file that cannot be
  written, a boot error nobody hears of, a setup slower than the script's three
  seconds, "[ERROR]" in the log of a container that runs, an init that ends by
  itself, and an activity or app that ends with something running or under
  way.  Each of them makes the screen wrong, and nothing in the code repairs it.

Left out: names, paths and messages; the deployed binaries; the mounts of the setup
one by one; an interactive start of boot from a terminal.

## Runs

Twelve runs; `PROJECT.json` names their properties and the mutant that each
property of a passing run catches.

| run | instance | shows |
|---|---|---|
| `DC_safety` | render, event, 1 input thread; 2 sessions; any two faults | typing; teardowns exclude one another; no stale FDS_READY; no crash of a connection that is up; `DisplaySession` and `EventThreadLife` implemented |
| `DC_live` | 2 buffers, no input thread; 3 sessions; one of close, stall, desync; `FairSpec` | without an overlap every fence is its frame's; the render thread comes back and a lost connection comes up again, unless it joins an event thread stuck in `recv_all` |
| `CH_channel` | 1 service, 1 input thread, 2 handles, room for 2 parts, 2 sessions, 1 fault; `FairSpec` | descriptors follow their event; a locked writer keeps its socket; no handle lost but in the one way named, none freed twice while calm; every call returns; `DisplaySession` implemented |
| `NC_windows` | 2 windows, 5 surfaces, 4 contexts, callbacks overtaking; `FairSpec` | `DisplayInstance` implemented; the render thread never on a dead surface, nothing held when stopped, an event thread for what is up, unless late or unable to start; in order also nothing used after free and every window served; the UI thread back, unless it joins a reader |
| `DB_collect` | 2 instances of 2 buffers, 5 descriptor numbers, 1 fault; symmetric | no dup lost; contexts send their own distinct buffers; nobody's descriptor closed but 0, and that only after a short collection |
| `RH_helper` | 2 containers, 2 helpers waiting for each, 3 faults; `FairSpec` | an attempt ends, the shell comes free, a window gets connected, undisturbed to the right daemon; `DisplayInstance` implemented |
| `CL_life` | 2 containers, 2 processes, 2 jobs, 1 fault; `FairSpec` | in order the screen is right, Delete and Stop touch what they should; no extracted container lost; every button answered |
| `DC_v_fence` | violation | a signal reaches the next session: fences are one frame off |
| `DC_v_null` | violation | a teardown between the test of `fallback` and the store into the page: the app dies |
| `CH_v_framing` | violation, no services | an input event between the two sends of the buffers |
| `NC_v_free` | violation | `nativeStart` frees a context under the event thread |
| `CL_v_enter` | violation | `enter` follows a pid file that outlived its process |

*Bounds.*  `MaxSession` bounds the generations: in `DisplayConsumer` three suffice for
every interaction of one session with the one before it and the one after it,
and a thread that is late by two (`DC_live`); with an input thread two are explored, one
teardown that all three threads race for and the session after it (`DC_safety`: this
is a million states already, and its properties are proved for any number); in `DataChannel` two, the teardown of the
first and a second session in full.  In the last generation a thread that would
tear it down waits (`EnterFallback`'s and `EfLock`'s guard), so the liveness
properties say "or the generations are used up".  `MaxFaults` counts the
environment's faults; one fault is enough to have three threads see the same
failure, and stale failures bring further teardowns without a fault; a second one
lets `create_shm` fail in the teardown the first one caused.  `DC_live`
needs two buffers to tell the frames apart.  `Capacity` is two parts, so that the
socket is full behind a two-part message; it must hold what writers that are late
leave before the buffers, as the kernel's socket buffer does (with one part the
render thread could not send the buffers of a session nobody reads yet).
`CH_channel` has one service: a run with two, safety only, reaches 2.1 million states
and says the same; with one, the gate already goes through all of its changes.
`MaxShows` and `MaxContexts` bound surfaces and connections: with five surfaces
the sequence show, leave, show, leave can be taken by each window while the
other is still finishing.  In `DmabufCollection` two instances can close each
other's numbers, two buffers make a collection that is short by one, and five
numbers leave one for the app when all are dupped; `Tries` is 1, which the
proofs make 4.  In `RootHelper`, two containers tell a right daemon
from a wrong one, two helpers in line for each fill the backlog and leave one
over, and three faults allow a script in the way, a delay and a crash in one
behaviour.  In `ContainerLifecycle` two containers and two process numbers are
enough for a number to be used again by the other container, and two jobs for
every pair of buttons; a reboot is a fault, and what it leaves is explored in
full after it.  Symmetry is used where nothing temporal is checked but an action
property (`DB_collect`).

*Fairness.*  Linux schedules every runnable thread: weak fairness of the render
thread, of the event thread, and of an input thread inside a call.  A producer
that works picks up descriptors, answers a signal and lets go of sockets that
were shut (weak fairness of `Pickup`, `Answer` of a producer that is not
stalled, and `Release`); `Close`, `Stall` and `Desync` are never forced, and
neither are `Report` and `Finish`: a producer may be silent for ever, also in
the middle of a message.  In `DataChannel` each thread is strongly fair, because a mutex and
the room in a socket come and go and the kernel keeps neither from one thread for
ever; a producer that is connected reads.  That is an assumption, for
the code has no timeout on its sends: a producer that is connected and never reads
would keep a writer, and with it the teardown that waits for `data_lock`, for
ever.  In `NativeConsumer` the UI thread's work, the posted coroutines, the render thread and
the event thread are fair, but not in a `recv_all`; the 30 s wait for the helper and the
polls end by their timeouts.  In `RootHelper` the UI thread's join, the render thread
and the root shell are fair: scripts end (the boot program forks and returns) and `poll` has its timeout.  Its faults are bounded, as `Connects` needs:
nothing connects while scripts take the shell for ever.  In `ContainerLifecycle`
script steps, callbacks and setups are weakly fair, and `Begin` strongly: libsu's
queue lets no command be overtaken for ever.

*Deadlock* is checked in every run.  `Stopped`, `Rest`, `SessionsUsedUp`,
`NothingReady` and `IdsUsedUp` are the states in which the program may stop or a
bound is used up: the process died, the generations or ids explored are used
up, no hello was sent, or nothing is shown any more.

## What is proved

All for any set of input threads, windows and containers and any bounds.  Liveness is out of
the prover's reach, and the proofs say nothing about it.

**DisplayConsumer.**  The inductive invariant is `TypeOK /\ IInv`, where `IInv` is

* `LockInv`: a thread is in `ef_close` or `ef_new` exactly when it holds
  `state_lock`, and then `fallback` is set;
* `SessionInv`: `ready` is at most the current session and only in fallback with
  the descriptors in place; what the current session's producer may be in each
  phase; no session beyond the current one was offered;
* `HandleInv`: `joinable` tells whether there is an event thread.

None of the safety properties is inductive alone.  That an FDS_READY is current
needs that a session's hello is consumed once and that the up-transition takes
the message before it clears `fallback`; that sends go to picked-up descriptors
needs the converse, that a session without `ready` and out of `hello` was picked
up.  The proof has a lemma per group of actions (teardown, push, render,
event, environment), each with one step per action.  From it follow
`TypeCorrect`, `OneTearsDown`, `NoStaleReady`, `UpIsPickedUp`, `EventThreadUnique`
and, with a step-by-step simulation (`StepRefines`), `ImplementsSession`:
`DisplayConsumer` implements `DisplaySession` under `phase <- Phase, gen <-
session`.  `EnterFallback` maps to `Down`, `Rehello` to `Renew`, `Pickup` to
`Grant`, `GoUp` to `Up`, and everything else stutters.

Two more layers stand on it.  `StopInv` says that the render thread finds
`event_running` clear at the join and the creation of the next thread: others may
clear it, nobody else sets it.  With `HandleInv` it gives
`JoinIsForStopped` (the join is of a thread that exists, was told to stop, and does not
wait for a lock the render thread holds) and the simulation
`ImplementsEventThread`: `Join` maps to `JoinIt`, `Spawn` to `Start`, `EventBegin` to
`Begin` or `GiveUp`, the end of the loop in `EventTop` to `End`, and every teardown,
whoever makes it, to `Tell` or to nothing.  `PageInv` gives `StoreKillsInFallback`:
the page that the render thread loaded is the one in place, or another
thread's teardown has begun since it tested `fallback`, and `fallback` stays set
until the render thread itself clears it.
`OneEventThread` and `UpOnPickedUpFds` follow from what the runs check
(`EventThreadSpec`, `SessionSpec`) and are stated by theorems only.  The assumptions are the
named ones of `DisplayConsumer`: the threads differ, buffer 0 exists, the
bounds are numbers, the faults are among those modelled.

`DisplayFenceProofs` adds `FenceIsTheFrames`.  Its invariant `FrameInv` is about the one
token of a frame, which is the signal first and then the fence that answers it: it is in
the current session only between `r_signal` and the end of the wait, it is for the
buffer the render thread holds (`Match`), and the render thread is on its way to
take it, or to the teardown that a missing fence asks for (`Waiting`).  If another
thread's teardown clears `buffer_pending` meanwhile, the render thread goes round
in fallback without signalling (`Forsaken`) until the session is replaced, and a session
that has been replaced starts `Clean`.  What breaks this is a signal in fallback, hence the
condition `~overlapped`, which `DC_v_fence` shows to be needed.

**DataChannel.**  The type invariant carries one fact about the gate: it is open
exactly when every service was sent, which makes `arm_data_lock` and the mask
agree.  Above it are three layers.  `PlaceInv` says which thread is in which call
and what the event thread holds meanwhile, and `LockInv` who holds the locks at
which step; together they give `LockIsEnough`: a writer under `data_lock` has the
descriptor in place, since `EfClose` waits for the lock.  `RecordInv` says that a
handle just allocated is in the request's hands until it is in `resources[]`, and
that what a teardown is about to clear is freed already; `ClearInv`, that something
is about to be cleared inside a teardown only.  They give `NoHandleLost`, for teardowns and requests
in any order but the one `overtaken` records.  `CalmInv` is about sessions without
overlap: in fallback nobody writes (`QuietInv`), a service that is asked for was
not sent yet, so that the gate is closed and who went without the lock did so
before (`GateInv`), the handles on record are live and distinct but the one being
replaced (`HandleInv`), and the descriptors follow their event on the wire or are
about to (`FrameInv`).  It gives `FramingHolds` and `HandlesSound`.  The central step is that
the gate can open only after the last two-part message is whole, because the
same thread sends it and counts it.

`LockOrderHolds` is about both locks in every interleaving: no thread waits for
a lock it holds, nor for `state_lock` with `data_lock` in hand.  That
leaves the full socket as the one thing a holder can wait for, which is `CallsReturn`'s
subject.  `ChannelImplementsSession` is the same refinement as `DisplayConsumer`'s
for this module's cut of the session, with services and calls that overlap.  Its
`SessionInv` says that a generation is in use, or being torn down, only once it was
picked up, and that `state_lock` is held in fallback only.  Assumed: the threads differ, the values for
"none" are no handles, services or threads, and the bounds are numbers.

**NativeConsumer.**  `IInv` relates the UI thread's step to `running` and to
`render` (`RenderInv`), and `ctx` to `heap`, the buffers and the window
(`HeldInv`): at each step of `nativeStart` and `nativeStop` the render thread is
already joined when what it uses is released.  It gives `RenderThreadUnique`,
`StopReleases` and `SurfaceOutlivesDrawing` for any windows, callbacks
overtaking or not.  `UpListens` adds `LifeInv`: a signalled event thread is never
taken for a running one, one that ended unasked is on record in `mute`, and a
context comes up only in the render thread's frames.  `ConsumerImplementsInstance` maps `Reap`, `Collect` and `Connect` to one
attempt and its outcome; that an order is carried out only when no attempt runs
rests on `RenderInv`, and that an attempt starts without a connection on `HeldInv`.  `ConsumerImplementsEventThread` is the simulation of
`EventThreadLife`, here with two threads that join, the render thread and
`nativeStop`; `JoinsAreForStopped` says that every join is of a thread that is there
and was told to stop.  `RenderThreadUnique` is what `DisplayInstance` cannot say (it has
no threads) and is stated as a theorem only.  `OrderlySafe` and `OrderlyIsServed` use `Orderly`: while callbacks come in
order a start is posted only when the instance is stopped (`QuietStart`), so
that `nativeStart` meets neither a thread nor a context, and the event thread
lives and dies with the context it polls (`EventInv`).  `NC_v_free` shows that the
condition is needed.

**DmabufCollection.**  `LoopInv` keeps the indices of the three loops within the
slots and within `buf_count`, for any number of tries.  `DescInv` is about the
table: a number on record is the instance's own dup, and on record once, but 0
need not be (`OwnInv`); off the record there is nothing to close but zeros
(`RestInv`); as long as no collection fell short, 0 is the process's and on nobody's record
(`ZeroInv`); and `NoDupLost`.  `FillInv` says that filled slots hold different
buffers.  Every close and every `dup`, by any instance or by the rest of the app, keeps
them.  From them follow `DupsStayOnRecord`, `ContextSound` and, as an action
property, `ClosingIsExact`, for any instances, any table, any `MAX_COLLECT_BUFS` of
at least two and any positive number of tries.

**ContainerLifecycle.**  The invariant `IInv` speaks only while `orderly`: every process
has its directory, its entry, its pid file and a clean log (`ProcessInv`), a
container has at most one job and somebody waits for it (`OneJobInv`), what each
job finds and leaves at each step of its script (`JobInv`: a start that has not failed
has left a process that the pid file names, a stop has one until its kill and
none after), and the screen is right about containers without a job
(`ScreenInv`).  After a reboot `orderly` is TRUE again with whatever pid files
there are: the invariant asks for pid files of processes, not for processes of
pid files, and that is why Stop, which is offered only for what was started since,
is exact in spite of them.  `NothingLost` needs no order: it follows from the types and
from `list` being read in the step that writes it.

**RootHelper.**  `TypeCorrect` goes action by action.  `UndisturbedIsRight` needs
more than the connection itself: as long as nothing was late, there is exactly
one helper in the whole system while an attempt runs, and none between
attempts.  `Undisturbed` follows that helper through its stages (in line,
running, connected to the bridge, offered, being received), each of which says
that all the other places are empty and that the helper is for the container on
screen, unless the UI thread is already waiting to discard the result.  So the
poll cannot time out (`HelperComing` holds in the stages before a connection),
what is accepted comes from this helper, and one attempt suffices.
One timeout breaks it (see the weaknesses below).

`AttemptsImplementInstance` holds with timeouts, deaths and scripts in the way.  It
is the same `DisplayInstance` that `NativeConsumer` implements with `Connect`
as one step, so that what goes on between listener, root shell and helpers shows
there only as an outcome.  `ReceiveIsServed` is the safety
half of `AttemptEnds`.  `AttemptInv` ties listener, backlog and accepted connection
to the attempt, and `UnsentInv` says that among all connections to the bridge only
the running helper's has no descriptor in it yet.  So `recv_fds`, which
has no timeout, finds a descriptor, or its helper is at its `sendmsg` and will
send or exit.

*Only model-checked*: `RenderReturns`, `Recovers`, `CallsReturn`, `UIReturns`,
`AttemptEnds`, `ShellComesFree`, `Connects` and `Answered`, which are liveness.

## What the violations show

Each states a sentence of the code's own comments or messages, quoted in
`PROJECT.json`.

* A signal may go to the next session's eventfd when `select_dmabuf` overlaps a
  teardown: the producer is one frame ahead from then on (`DC_v_fence`).
* The same overlap, one access earlier: `select_dmabuf` stores through `shm_ptr` after an
  unlocked test of `fallback`, and a teardown in between makes it NULL or unmaps the page.
  The comment at `display_consumer.c:273-275` has such a writer fail benignly; the
  descriptors do, the page does not (`DC_v_null`).
* The gate of the data socket knows one two-part message, and there are two: the
  buffers that `push_dmabufs_internal` sends can be split by an input event
  (`CH_v_framing`).
* `nativeStart` on a running instance does not stop the event thread
  (`NC_v_free`); `nativeStop` does.
* `container.pid` is taken for the sign of a running container and is removed by Stop
  only: `enter` may end up outside any container, or in another process
  (`CL_v_enter`).

## Weaknesses without a run

The models reach these too; they are the reason for the conditions of the
properties above, and for some of the model's guards.

* `recv_all` has no timeout.  A producer that stops inside a message, or one that stays
  silent after a reconnect when `poll_output_event` has read `data_fd` again after its poll,
  blocks the event thread in it.  So does a healthy one: the text of a clipboard
  message may be asked for on the next session's socket, whose first report is
  shorter than the text.  The thread that joins it hangs: the render thread in
  `start_event_thread` or `do_connect`, and through it or by itself the UI thread
  in `nativeStop`, against "so the render thread never hangs"
  (`display_consumer.c:428-430`).  `JoinsReader` in `DisplayConsumer`, `NativeConsumer`
  and `DataChannel` is this case.  Without it `RenderReturns` and `UIReturns` fail;
  `Recovers` and `CallsReturn` need it only beyond their runs' bounds, with an input
  thread and a fourth generation the one, with a third the other.
* An event thread that cannot attach to the JVM returns with `event_running` set
  (`native_consumer.c:244-247`), so that the next `start_event_thread` takes it for a running one
  unless a teardown came between; nor is there one when `on_exit_fallback` cannot attach or
  `pthread_create` fails.  The connection is up and deaf until it next falls back
  (`NativeConsumer`, `mute`).
* One bridge path and no word of who connects to it: the helper of an attempt
  that timed out answers the next attempt, which may be for another container
  (`RootHelper`: `RightUndisturbed` without `faults = 0` fails after a window is left during
  the helper's wait).  A path per attempt, or the container's name as the message's
  payload, would tell them apart.
* `fallback` does not say which session failed: a late failure tears down the
  session that replaced it, which then recovers.
* One session's `on_fallback` may come after the next one's `on_exit_fallback` and
  leave it without an event thread (`NativeConsumer`, `late`).
* One handle for all windows: the `surfaceDestroyed` of a window that was finished
  stops the next window's display (`NativeConsumer`: `EveryWindowServed` holds
  only while `orderly`).
* `free_resources` frees a resource (131) and then clears its record (132-134): a handle that the
  event thread stores between the two (102) is overwritten and never freed
  (`DataChannel`, `overtaken`; without it `ResourcesOnRecord` fails).
* `enter_fallback` frees the resources before it takes `data_lock`, so that a request
  under way sends descriptors already freed; and `on_exit_fallback` starts the event thread
  even when the push failed, so that a request may be handled in fallback and
  counted for the next session, against the comment at
  `display_consumer.c:240-243` (`DataChannel`, `calm`).
* A collection that falls short leaves `buf_count` at the number asked for: never
  filled slots close descriptor 0, once each, and then whatever has taken the
  number (`DmabufCollection`, `short`).
* Rotation forgets what runs; Start can be pressed twice; a second Stop finds no pid
  file and is a `pkill` of every container's init (`ContainerLifecycle`,
  `orderly`).

## Not modelled

* *Top-app scheduling* (`topapp_*`): its one configuration call passes
  `topappEnable = false` (`KT/DisplayManager.kt:57`), and its functions return at
  once.  The code cannot run in this build.
* *Audio and camera*: `native_audio.h` and `camera_service.h` are empty stubs.
* *`UEventPatchHook`*: a stateless filter of one call inside `system_server`.
* *The graphics probe, build files, logs, assets*: a program that prints once, and no
  code.
* *Of modelled files*: `nativeDestroy` and the input senders that no Kotlin code
  declares (dead in this build); the callbacks to Java objects that are null;
  the mounts of `boot.c` one by one, which are a fixed sequence without state that
  another part reads; layout and texts.

## Where it may go

An abstract root shell that `RootHelper` and `ContainerLifecycle` both implement; the
simulation of `EventThreadLife` by `DataChannel`; an abstract specification of a
container's life for `ContainerLifecycle`, under its condition `orderly`.  The
runs' time (the largest takes a few minutes) is the limit of larger instances.
