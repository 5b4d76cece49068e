--------------------------- MODULE NativeConsumer ---------------------------
(***************************************************************************)
(* One consumer instance and the windows that share it.  DisplayManager    *)
(* keeps a single handle; every window's SurfaceView calls startDisplay    *)
(* and stopDisplay on it from the UI thread.  nativeStart and nativeStop   *)
(* own the render thread, which connects (do_connect) and then starts and  *)
(* signals the event thread from the library's callbacks.                  *)
(*                                                                         *)
(* The connection is the DisplayConsumer of module DisplayConsumer, here   *)
(* reduced to whether it is up; a context is an address that may be freed. *)
(* The Kotlin code never calls nativeDestroy.                              *)
(***************************************************************************)
EXTENDS Integers, Sequences

CONSTANTS
    Windows,       \* ContainerDisplayActivity instances
    NoWindow,
    MaxContexts,   \* bound: contexts allocated
    MaxShows       \* bound: surfaces created

ASSUME WindowsAssumption == NoWindow \notin Windows
ASSUME LimitsAssumption == MaxContexts \in Nat /\ MaxShows \in Nat

VARIABLES
    \* Android: the windows' surfaces, the windows that are finished but still
    \* have one, and the start coroutines posted to the main looper
    surface, finishing, posted, shows,
    \* the UI thread: idle or inside nativeStart / nativeStop, and for which
    ui, uiWindow,
    \* struct consumer_state
    handle, running, needReconnect, window, ctx, eventRunning, joinable,
    dmabufs,       \* duplicated buffer descriptors are held
    \* the heap: contexts allocated and not freed, and the number ever used
    heap, lastCtx,
    up,            \* the context is out of fallback
    render,        \* the render thread
    event, eventCtx,   \* the event thread, and the context it is polling
    crashed,
    \* history: one window at a time and no callback before a posted start; the
    \* callback of a teardown came when the connection was up again; the last event
    \* thread that was to start could not
    orderly, late, mute

android == <<surface, finishing, posted, shows>>
history == <<orderly, late, mute>>
uiVars == <<ui, uiWindow>>
state == <<handle, needReconnect, window, dmabufs>>
threads == <<render, event, eventCtx, eventRunning, joinable>>
memory == <<ctx, heap, lastCtx, up>>
vars == <<android, uiVars, state, running, threads, memory, crashed, history>>

None == 0
Contexts == 0 .. MaxContexts
UISteps == {"idle", "start_join", "start", "stop_join", "stop_event", "stop_reap"}
RenderSteps == {"none", "loop", "reap", "collect", "helper", "frame", "exit_fallback", "exited"}
EventSteps == {"none", "begin", "top", "poll", "recv", "on_fallback", "exited"}
InContext == {"poll", "recv", "on_fallback"}     \* steps inside the library

Init ==
    /\ surface = {} /\ finishing = {} /\ posted = <<>> /\ shows = 0
    /\ ui = "idle" /\ uiWindow = NoWindow
    /\ handle = FALSE /\ running = FALSE /\ needReconnect = FALSE /\ window = NoWindow
    /\ ctx = None /\ eventRunning = FALSE /\ joinable = FALSE /\ dmabufs = FALSE
    /\ heap = {} /\ lastCtx = None /\ up = FALSE
    /\ render = "none" /\ event = "none" /\ eventCtx = None
    /\ crashed = FALSE /\ orderly = TRUE /\ late = FALSE /\ mute = FALSE

-----------------------------------------------------------------------------
(* Android's callbacks on the main looper                                  *)

\* The looper runs one callback at a time.  It runs them in order, but after a
\* slow frame the next frame's callbacks carry an earlier time than what was
\* posted and overtake it.
LooperTurn == ui = "idle"

InOrder == orderly' = (orderly /\ posted = <<>>)

\* The callback only posts a coroutine that will call startDisplay.  The
\* document launch mode reuses the window there is, unless it is finished.
SurfaceCreated(w) ==
    /\ LooperTurn /\ w \notin surface /\ surface \subseteq finishing /\ shows < MaxShows
    /\ surface' = surface \cup {w}
    /\ posted' = Append(posted, w)
    /\ shows' = shows + 1
    /\ orderly' = (orderly /\ posted = <<>> /\ surface = {})
    /\ UNCHANGED <<finishing, uiVars, state, running, threads, memory, crashed, late, mute>>

\* stopDisplay: nothing without a handle; else nativeStop, which ends the
\* render thread if there is one.
StopDisplay ==
    /\ uiWindow' = NoWindow
    /\ ui' = IF ~handle THEN "idle" ELSE IF running THEN "stop_join" ELSE "stop_event"
    /\ running' = FALSE

SurfaceDestroyed(w) ==
    /\ LooperTurn /\ w \in surface
    /\ surface' = surface \ {w}
    /\ finishing' = finishing \ {w}
    /\ StopDisplay /\ InOrder
    /\ UNCHANGED <<posted, shows, state, threads, memory, crashed, late, mute>>

\* Back stops the display and finishes the window, whose surface goes later.
Back(w) ==
    /\ LooperTurn /\ w \in surface /\ w \notin finishing
    /\ finishing' = finishing \cup {w}
    /\ StopDisplay /\ InOrder
    /\ UNCHANGED <<surface, posted, shows, state, threads, memory, crashed, late, mute>>

\* Removed from the recent tasks: finished without Back.
Dismiss(w) ==
    /\ LooperTurn /\ w \in surface /\ w \notin finishing
    /\ finishing' = finishing \cup {w}
    /\ InOrder
    /\ UNCHANGED <<surface, posted, shows, uiVars, state, running, threads, memory,
                   crashed, late, mute>>

WindowStep == \E w \in Windows :
    SurfaceCreated(w) \/ SurfaceDestroyed(w) \/ Back(w) \/ Dismiss(w)

-----------------------------------------------------------------------------
(* DisplayManager.startDisplay and nativeStart                             *)

\* Mutant: nativeStart does not end the render thread.
StartDisplayNoJoin ==
    /\ ui = "idle" /\ posted # <<>>
    /\ uiWindow' = Head(posted) /\ posted' = Tail(posted)
    /\ handle' = TRUE
    /\ ui' = "start"
    /\ UNCHANGED <<running, up, eventRunning, surface, finishing, shows, needReconnect,
                   window, dmabufs, render, event, eventCtx, joinable, ctx, heap, lastCtx,
                   crashed, history>>

\* The coroutine runs: nativeCreate if needed, nativeSetRefreshRate, which
\* pushes an event on a context that is up (a failed push is a fallback),
\* then nativeStart, which ends the render thread if there is one.
StartDisplay ==
    /\ ui = "idle" /\ posted # <<>>
    /\ uiWindow' = Head(posted) /\ posted' = Tail(posted)
    /\ handle' = TRUE
    /\ \/ UNCHANGED <<up, eventRunning>>
       \/ up /\ up' = FALSE /\ eventRunning' = FALSE
    /\ ui' = IF running THEN "start_join" ELSE "start"
    /\ running' = FALSE
    /\ UNCHANGED <<surface, finishing, shows, needReconnect, window, dmabufs, render,
                   event, eventCtx, joinable, ctx, heap, lastCtx, crashed, history>>

\* A window that is gone may have cancelled its coroutine.
CancelledStart ==
    /\ ui = "idle" /\ posted # <<>> /\ Head(posted) \notin surface
    /\ posted' = Tail(posted)
    /\ UNCHANGED <<surface, finishing, shows, uiVars, state, running, threads, memory,
                   crashed, history>>

\* pthread_join of the render thread, by nativeStart or nativeStop.
JoinRender ==
    /\ ui \in {"start_join", "stop_join"} /\ render = "exited"
    /\ render' = "none"
    /\ ui' = IF ui = "start_join" THEN "start" ELSE "stop_event"
    /\ UNCHANGED <<android, uiWindow, state, running, event, eventCtx, eventRunning,
                   joinable, memory, crashed, history>>

\* The rest of nativeStart: the old context is freed, the event thread not
\* ended; a render thread starts unless the surface is already gone.
StartRender ==
    /\ ui = "start"
    /\ ui' = "idle" /\ uiWindow' = NoWindow
    /\ heap' = heap \ {ctx} /\ ctx' = None /\ up' = FALSE
    /\ dmabufs' = FALSE
    /\ IF uiWindow \in surface
       THEN /\ window' = uiWindow
            /\ running' = TRUE /\ needReconnect' = TRUE /\ render' = "loop"
       ELSE /\ window' = NoWindow
            /\ UNCHANGED <<running, needReconnect, render>>
    /\ UNCHANGED <<android, handle, event, eventCtx, eventRunning, joinable, lastCtx,
                   crashed, history>>

-----------------------------------------------------------------------------
(* nativeStop, after the render thread's end                               *)

\* Signals the event thread if there is a context.
StopEvent ==
    /\ ui = "stop_event"
    /\ ui' = "stop_reap"
    /\ eventRunning' = (eventRunning /\ ctx = None)
    /\ UNCHANGED <<android, uiWindow, state, running, render, event, eventCtx, joinable,
                   memory, crashed, history>>

\* Mutant: the event thread is not joined.
StopReapNoJoin ==
    /\ ui = "stop_reap"
    /\ ui' = "idle"
    /\ heap' = heap \ {ctx} /\ ctx' = None /\ up' = FALSE
    /\ dmabufs' = FALSE /\ window' = NoWindow
    /\ UNCHANGED <<android, uiWindow, handle, running, needReconnect, render, event,
                   eventCtx, eventRunning, joinable, lastCtx, crashed, history>>

\* Mutant: the duplicated buffers are not closed.
StopReapKeepBufs ==
    /\ ui = "stop_reap"
    /\ (ctx # None /\ joinable) => event = "exited"
    /\ ui' = "idle"
    /\ joinable' = (joinable /\ ctx = None)
    /\ event' = IF ctx # None THEN "none" ELSE event
    /\ heap' = heap \ {ctx} /\ ctx' = None /\ up' = FALSE
    /\ window' = NoWindow
    /\ UNCHANGED <<android, uiWindow, handle, running, needReconnect, dmabufs, render,
                   eventCtx, eventRunning, lastCtx, crashed, history>>

\* Joins the event thread and frees the context it used; closes the buffers
\* and releases the window.
StopReap ==
    /\ ui = "stop_reap"
    /\ (ctx # None /\ joinable) => event = "exited"
    /\ ui' = "idle"
    /\ joinable' = (joinable /\ ctx = None)
    /\ event' = IF ctx # None THEN "none" ELSE event
    /\ heap' = heap \ {ctx} /\ ctx' = None /\ up' = FALSE
    /\ dmabufs' = FALSE /\ window' = NoWindow
    /\ UNCHANGED <<android, uiWindow, handle, running, needReconnect, render, eventCtx,
                   eventRunning, lastCtx, crashed, history>>

-----------------------------------------------------------------------------
(* The render thread                                                       *)

\* Mutant: running is only looked at between connections.
RenderLoopEager ==
    /\ render = "loop"
    /\ render' = IF needReconnect THEN "reap" ELSE IF ~running THEN "exited" ELSE "frame"
    /\ eventRunning' = (eventRunning /\ (~needReconnect \/ ctx = None))
    /\ UNCHANGED <<android, uiVars, state, running, event, eventCtx, joinable, memory,
                   crashed, history>>

\* The loop looks at running first, then at need_reconnect: do_connect signals
\* the event thread of a context that is still there.
RenderLoop ==
    /\ render = "loop"
    /\ render' = IF ~running THEN "exited" ELSE IF needReconnect THEN "reap" ELSE "frame"
    /\ eventRunning' = (eventRunning /\ (~running \/ ~needReconnect \/ ctx = None))
    /\ UNCHANGED <<android, uiVars, state, running, event, eventCtx, joinable, memory,
                   crashed, history>>

\* do_connect first gets rid of what a previous connection left.
Reap ==
    /\ render = "reap"
    /\ (ctx # None /\ joinable) => event = "exited"
    /\ joinable' = (joinable /\ ctx = None)
    /\ event' = IF ctx # None THEN "none" ELSE event
    /\ heap' = heap \ {ctx} /\ ctx' = None /\ up' = FALSE
    /\ dmabufs' = FALSE
    /\ render' = "collect"
    /\ UNCHANGED <<android, uiVars, handle, needReconnect, window, running, eventCtx,
                   eventRunning, lastCtx, crashed, history>>

\* The window's buffers are collected, or cannot be (its surface is gone, a
\* dequeue failed): the loop tries again.
Collect ==
    /\ render = "collect"
    /\ \/ window \in surface /\ dmabufs' = TRUE /\ render' = "helper"
       \/ render' = "loop" /\ UNCHANGED dmabufs
    /\ UNCHANGED <<android, uiVars, handle, needReconnect, window, running, event,
                   eventCtx, eventRunning, joinable, memory, crashed, history>>

\* Mutant: a failed connect ends the render thread.
ConnectOrQuit ==
    /\ render = "helper"
    /\ \/ /\ lastCtx < MaxContexts
          /\ lastCtx' = lastCtx + 1 /\ ctx' = lastCtx + 1
          /\ heap' = heap \cup {lastCtx + 1}
          /\ needReconnect' = FALSE
          /\ render' = "frame"
       \/ /\ render' = "exited"
          /\ UNCHANGED <<lastCtx, ctx, heap, needReconnect>>
    /\ UNCHANGED <<android, uiVars, handle, window, dmabufs, running, event, eventCtx,
                   eventRunning, joinable, up, crashed, history>>

\* Mutant: a failed connect leaves its error in the context pointer.
ConnectError ==
    /\ render = "helper"
    /\ \/ /\ lastCtx < MaxContexts
          /\ lastCtx' = lastCtx + 1 /\ ctx' = lastCtx + 1
          /\ heap' = heap \cup {lastCtx + 1}
          /\ needReconnect' = FALSE
          /\ render' = "frame"
       \/ /\ render' = "loop" /\ ctx' = -1
          /\ UNCHANGED <<lastCtx, heap, needReconnect>>
    /\ UNCHANGED <<android, uiVars, handle, window, dmabufs, running, event, eventCtx,
                   eventRunning, joinable, up, crashed, history>>

\* Up to 30 s in recv_fd_via_root_helper; then a context, or another try.
Connect ==
    /\ render = "helper"
    /\ \/ /\ lastCtx < MaxContexts
          /\ lastCtx' = lastCtx + 1 /\ ctx' = lastCtx + 1
          /\ heap' = heap \cup {lastCtx + 1}
          /\ needReconnect' = FALSE
          /\ render' = "frame"
       \/ /\ render' = "loop"
          /\ UNCHANGED <<lastCtx, ctx, heap, needReconnect>>
    /\ UNCHANGED <<android, uiVars, handle, window, dmabufs, running, event, eventCtx,
                   eventRunning, joinable, up, crashed, history>>

\* One frame: the connection stays as it is, comes up, or falls back.
Frame ==
    /\ render = "frame"
    /\ \/ render' = "loop" /\ UNCHANGED <<up, eventRunning>>
       \/ ~up /\ up' = TRUE /\ render' = "exit_fallback" /\ UNCHANGED eventRunning
       \/ up /\ up' = FALSE /\ eventRunning' = FALSE /\ render' = "loop"
    /\ UNCHANGED <<android, uiVars, state, running, event, eventCtx, joinable, ctx, heap,
                   lastCtx, crashed, history>>

\* Mutant: the thread of the connection before is taken for this one's.
StartEventThreadOnce ==
    /\ render = "exit_fallback"
    /\ \/ (eventRunning \/ joinable) /\ UNCHANGED <<eventRunning, joinable, event>>
       \/ /\ ~eventRunning /\ ~joinable
          /\ eventRunning' = TRUE /\ joinable' = TRUE /\ event' = "begin"
    /\ render' = "loop"
    /\ UNCHANGED <<android, uiVars, state, running, eventCtx, memory, crashed, history>>

\* A new event thread, or none: pthread_create may fail.
CreateEventThread ==
    \/ /\ eventRunning' = TRUE /\ joinable' = TRUE /\ event' = "begin"
       /\ mute' = FALSE
    \/ /\ joinable' = FALSE /\ event' = "none"
       /\ mute' = TRUE
       /\ UNCHANGED eventRunning

\* start_event_thread, in on_exit_fallback: nothing if event_running is set; nor
\* does it come to that when the thread cannot be attached to the JVM.
StartEventThread ==
    /\ render = "exit_fallback"
    /\ render' = "loop"
    /\ \/ eventRunning /\ UNCHANGED <<eventRunning, joinable, event, mute>>
       \/ ~eventRunning /\ mute' = TRUE /\ UNCHANGED <<eventRunning, joinable, event>>
       \/ /\ ~eventRunning
          /\ joinable => event = "exited"
          /\ CreateEventThread
    /\ UNCHANGED <<android, uiVars, state, running, eventCtx, memory, crashed, orderly, late>>

RenderStep == RenderLoop \/ Reap \/ Collect \/ Connect \/ Frame \/ StartEventThread

-----------------------------------------------------------------------------
(* The event thread                                                        *)

\* The thread is attached to the JVM; when that fails it ends, still wanted.
EventBegin ==
    /\ event = "begin"
    /\ \/ event' = "top" /\ UNCHANGED mute
       \/ event' = "exited" /\ mute' = TRUE
    /\ UNCHANGED <<android, uiVars, state, running, render, eventCtx, eventRunning,
                   joinable, memory, crashed, orderly, late>>

\* Takes the instance's context into poll_output_event, or sleeps without one.
EventTop ==
    /\ event = "top"
    /\ \/ ~eventRunning /\ event' = "exited" /\ UNCHANGED eventCtx
       \/ eventRunning /\ ctx # None /\ event' = "poll" /\ eventCtx' = ctx
    /\ UNCHANGED <<android, uiVars, state, running, render, eventRunning, joinable,
                   memory, crashed, history>>

\* A poll times out, or something is there to read; recv_all reads all of it, the
\* text of a clipboard message too, for as long as the producer takes.  Either may
\* find the connection broken; in a freed context anything may happen.
EventPoll ==
    /\ event \in {"poll", "recv"}
    /\ \/ event' = "top" /\ eventCtx' = None /\ UNCHANGED <<up, crashed>>
       \/ event = "poll" /\ event' = "recv" /\ UNCHANGED <<up, eventCtx, crashed>>
       \/ /\ eventCtx \in heap /\ up
          /\ up' = FALSE /\ event' = "on_fallback" /\ UNCHANGED <<eventCtx, crashed>>
       \/ /\ eventCtx \notin heap
          /\ crashed' = TRUE /\ UNCHANGED <<up, event, eventCtx>>
    /\ UNCHANGED <<android, uiVars, state, running, render, eventRunning, joinable, ctx,
                   heap, lastCtx, history>>

\* on_fallback called by the event thread, after the lock is released: it
\* signals whatever event thread is there by then, itself.
EventFallback ==
    /\ event = "on_fallback"
    /\ event' = "top" /\ eventCtx' = None
    /\ eventRunning' = FALSE
    /\ late' = (late \/ up)
    /\ UNCHANGED <<android, uiVars, state, running, render, joinable, memory, crashed,
                   orderly, mute>>

EventStep == EventBegin \/ EventTop \/ EventPoll \/ EventFallback

-----------------------------------------------------------------------------
UIStep == JoinRender \/ StartRender \/ StopEvent \/ StopReap

\* A process that died, and one nobody shows anything in, stay as they are.
Rest == (crashed \/ (ui = "idle" /\ ~running /\ shows = MaxShows)) /\ UNCHANGED vars

Next ==
    \/ /\ ~crashed
       /\ \/ WindowStep \/ StartDisplay \/ CancelledStart \/ UIStep \/ RenderStep \/ EventStep
    \/ Rest

Spec == Init /\ [][Next]_vars

\* Every thread that can run does; so does the main looper with what was
\* posted to it.  The helper wait and the polls end by their timeouts; a recv_all
\* has none, and the producer need never send the rest.
FairSpec ==
    /\ Spec
    /\ WF_vars(~crashed /\ (StartDisplay \/ CancelledStart \/ UIStep))
    /\ WF_vars(~crashed /\ RenderStep)
    /\ WF_vars(~crashed /\ event # "recv" /\ EventStep)

-----------------------------------------------------------------------------
(* Properties                                                              *)

AndroidTypeOK ==
    /\ surface \subseteq Windows /\ finishing \subseteq Windows
    /\ posted \in Seq(Windows) /\ shows \in Nat
    /\ uiWindow \in Windows \cup {NoWindow} /\ window \in Windows \cup {NoWindow}

StepTypeOK == ui \in UISteps /\ render \in RenderSteps /\ event \in EventSteps

FlagTypeOK ==
    /\ handle \in BOOLEAN /\ running \in BOOLEAN /\ needReconnect \in BOOLEAN
    /\ dmabufs \in BOOLEAN /\ eventRunning \in BOOLEAN /\ joinable \in BOOLEAN
    /\ up \in BOOLEAN /\ crashed \in BOOLEAN /\ orderly \in BOOLEAN
    /\ late \in BOOLEAN /\ mute \in BOOLEAN

MemoryTypeOK ==
    /\ ctx \in Contexts /\ heap \subseteq Contexts
    /\ lastCtx \in Contexts /\ eventCtx \in Contexts

\* Every variable has its type.
TypeOK == AndroidTypeOK /\ StepTypeOK /\ FlagTypeOK /\ MemoryTypeOK

\* The instance has at most one render thread and knows it: pthread_create
\* never overwrites the handle of one that has not been joined.
OneRenderThread ==
    /\ running => render # "none"
    /\ ui \in {"start", "stop_event", "stop_reap"} => render = "none" /\ ~running

\* A stopped instance holds nothing: no context, no descriptor, no window and
\* no render thread, whatever it was doing when stopped (nativeStop, and the
\* early return of nativeStart).
StoppedHoldsNothing ==
    ui = "idle" /\ ~running =>
        /\ heap = {} /\ ctx = None /\ ~dmabufs /\ window = NoWindow
        /\ render = "none"

\* The render thread draws only into a surface that still exists: surface-
\* Destroyed does not return while the thread may use the window.
DrawsOnLiveSurface == ui = "idle" /\ render # "none" => window \in surface

\* No thread is inside a context that was freed.
NoUseAfterFree ==
    /\ event \in InContext => eventCtx \in heap
    /\ render \in {"frame", "exit_fallback"} => ctx \in heap

\* Windows coexist: while a window that is not finished has a surface and its
\* start has run, there is a render thread, and it has not given up.
EveryWindowServed ==
    ui = "idle" /\ posted = <<>> /\ surface \ finishing # {} =>
        running /\ render \notin {"none", "exited"}

\* As long as one window at a time has a surface and no callback overtook a
\* posted start, no thread is inside a freed context ...
OrderlyNoUseAfterFree == orderly => NoUseAfterFree

\* ... and the window on screen is served.
OrderlyServed == orderly => EveryWindowServed

\* An instance that is up has an event thread that reads the producer's
\* reports, unless the callback of an earlier teardown came late and ended it or
\* the last one could not start.
Listens ==
    up /\ ~late /\ ~mute /\ render # "exit_fallback" /\ ui # "stop_reap" =>
        \/ eventRunning /\ event \notin {"none", "exited"}
        \/ event = "on_fallback"

\* The UI thread joins, itself or through the render thread, an event thread that
\* waits in recv_all for the rest of a message.
RenderReaps ==
    \/ render = "reap" /\ ctx # None
    \/ render = "exit_fallback" /\ ~eventRunning

JoinsReader ==
    /\ event = "recv" /\ joinable
    /\ \/ ui = "stop_reap" /\ ctx # None
       \/ ui \in {"start_join", "stop_join"} /\ RenderReaps

\* The UI thread comes back from every start and stop, unless it is stuck for
\* good in such a join: nothing else the threads do together keeps it.
UIReturns == <>[]JoinsReader \/ []<>(ui = "idle" \/ crashed)

\* The window the instance was last told to show, and its connection.
Target == CASE ui \in {"start_join", "start"} -> uiWindow
            [] ui = "idle" /\ running -> window
            [] OTHER -> NoWindow
Link == CASE render \in {"reap", "collect", "helper"} -> "trying"
          [] OTHER -> IF ctx = None THEN "none" ELSE "connected"

\* It connects only for the window it was last told to show, one attempt at a
\* time; the UI thread waits out the attempt, and no connection outlives it.
Instance == INSTANCE DisplayInstance WITH
    Targets <- Windows, Nothing <- NoWindow,
    target <- Target, joining <- ui # "idle", link <- Link
InstanceSpec == Instance!DISpec

\* There is one event thread at a time, joined before the next, which, once it
\* listens, ends only when it was told to: whatever the windows do meanwhile.
Worker == INSTANCE EventThreadLife WITH
    thread <- CASE event = "none" -> "none" [] event = "exited" -> "ended"
                [] event = "begin" -> "starting" [] OTHER -> "alive",
    wanted <- eventRunning, handle <- joinable
EventThreadSpec == Worker!ETSpec
=============================================================================
