--------------------------- MODULE DisplayConsumer ---------------------------
(***************************************************************************)
(* libdisplay_consumer as the app's threads run it.  The render thread     *)
(* selects buffers and waits for fences, the event thread polls the data   *)
(* socket, input threads push events, and any of them may tear the         *)
(* connection down (enter_fallback).  A call the code makes without a lock *)
(* takes one step for each access to what the threads share, except that   *)
(* an access which commutes with the others' steps goes with the next.     *)
(* A generation ("session") is one set of descriptors and one mapping, as  *)
(* send_hello_fds hands them out.                                          *)
(*                                                                         *)
(* No service is registered in this build (camera_service_is_ready is 0),  *)
(* so data_needs_lock is always FALSE: nobody but enter_fallback takes     *)
(* data_lock and it is left out.                                           *)
(***************************************************************************)
EXTENDS Integers, Sequences

CONSTANTS
    Render, Event,    \* the render thread, the event thread
    Inputs,           \* the JNI threads that push input events
    NoThread,         \* the holder of a free lock
    Bufs,             \* indices of the pushed buffers
    MaxSession,       \* bound: generations explored
    MaxFaults,        \* bound: faults of the environment
    Faults            \* kinds of fault explored

Threads == {Render, Event} \cup Inputs
Sessions == 1 .. MaxSession
NoFd == 0             \* a descriptor of no session, -1 in the code
AnyFault == {"close", "stall", "desync", "shm", "thread", "attach", "memory"}

ASSUME ThreadsDiffer == Render # Event /\ {Render, Event} \cap Inputs = {}
                        /\ NoThread \notin Threads
ASSUME BufsAssumption == Bufs \subseteq Nat /\ 0 \in Bufs
ASSUME BoundsAssumption == MaxSession \in Nat \ {0} /\ MaxFaults \in Nat
ASSUME FaultsAssumption == Faults \subseteq AnyFault

VARIABLES
    \* struct display_ctx
    fallback, pending,   \* its two flags
    session,             \* the generation its fd fields belong to
    open,                \* those fields and shm_ptr are in place
    stateLock,           \* the holder of state_lock
    \* struct consumer_state
    eventRunning, joinable,
    \* each thread: its next step, where enter_fallback returns to, and the
    \* session of the descriptor it has read (or seen failing)
    pc, ret, fd,         \* (for the render thread at r_store, of the page it loaded)
    idx,                 \* the buffer the render thread dequeued
    crashed,             \* the process died storing through shm_ptr
    overlapped,          \* history: a buffer was signalled during a teardown
    \* the sockets, per session, and their other ends
    ready,               \* sessions whose FDS_READY is on the control socket
    peer, shm, sig, fence, out,
    faults

conn == <<fallback, pending, session, open, stateLock>>
life == <<eventRunning, joinable>>
control == <<pc, ret, fd, idx, crashed, overlapped>>
wire == <<ready, peer, shm, sig, fence, out>>
vars == <<conn, life, control, wire, faults>>

Held == {"live", "fed", "stalled"}      \* a producer holds the other ends
Peers == {"none", "hello", "closed"} \cup Held
\* What the data socket holds for the consumer: nothing; a message or its first
\* bytes; of a message or text that was begun, nothing yet or the rest; bytes
\* that are no message.
Outs == {"empty", "some", "cut", "rest", "bad"}
Locked == {"ef_close", "ef_new"}        \* steps taken inside state_lock
EFSteps == Locked \cup {"ef_enter", "ef_cb"}
PushSteps == {"p_fd", "p_send"}
RenderSteps ==
    {"r_select", "r_try", "r_up", "r_bufs", "r_infos", "x_rate", "x_start", "x_join",
     "x_spawn", "r_recheck", "r_load", "r_store", "r_signal", "r_pend", "r_refresh",
     "r_poll", "r_recv"} \cup PushSteps \cup EFSteps
Reading == {"e_recv", "e_rest", "c_recv", "c_rest"}    \* steps inside a recv_all
EventSteps ==
    {"none", "e_start", "e_top", "e_fd", "e_poll", "e_recv0", "c_top", "c_fd", "c_poll",
     "c_recv0", "exited"} \cup Reading \cup EFSteps
InputSteps == {"idle"} \cup PushSteps \cup EFSteps

Init ==
    /\ fallback = TRUE /\ pending = FALSE /\ session = 1 /\ open = TRUE
    /\ stateLock = NoThread
    /\ eventRunning = FALSE /\ joinable = FALSE
    /\ pc = [t \in Threads |->
                IF t = Render THEN "r_select" ELSE IF t = Event THEN "none" ELSE "idle"]
    /\ ret = [t \in Threads |->
                IF t = Render THEN "r_select" ELSE IF t = Event THEN "e_top" ELSE "idle"]
    /\ fd = [t \in Threads |-> NoFd]
    /\ idx = 0 /\ crashed = FALSE /\ overlapped = FALSE
    /\ ready = {}
    /\ peer = [s \in Sessions |-> IF s = 1 THEN "hello" ELSE "none"]
    /\ shm = [s \in Sessions |-> 0]
    /\ sig = [s \in Sessions |-> FALSE]
    /\ fence = [s \in Sessions |-> <<>>]
    /\ out = [s \in Sessions |-> "empty"]
    /\ faults = 0

-----------------------------------------------------------------------------
(* Helpers                                                                 *)

Goto(t, l) == pc' = [pc EXCEPT ![t] = l]

\* One of the faults the run explores.
Fault(kind) == kind \in Faults /\ faults < MaxFaults /\ faults' = faults + 1

\* Reads a descriptor field of the context, or shm_ptr.
CurrentFd == IF open THEN session ELSE NoFd

Capture(t) == fd' = [fd EXCEPT ![t] = CurrentFd]

\* A call of thread t ends at l: what it had in its local variables is gone.
Return(t, l) == Goto(t, l) /\ fd' = [fd EXCEPT ![t] = NoFd]

\* Thread t saw a failure on session s and calls enter_fallback, from which
\* it returns to l.
Fail(t, s, l) ==
    /\ Goto(t, "ef_enter")
    /\ ret' = [ret EXCEPT ![t] = l]
    /\ fd' = [fd EXCEPT ![t] = s]

\* What a system call on thread t's descriptor number may reach: the session
\* it was read from, if the call began in time or the session still stands;
\* nothing, once that was closed; or the current session, whose descriptors
\* take the lowest free numbers, which are the ones just closed.
MayReach(t) ==
    IF fd[t] = NoFd THEN {NoFd}
    ELSE IF fd[t] = CurrentFd THEN {CurrentFd}
    ELSE {fd[t], NoFd, CurrentFd}

\* A send reaches a session only while its own descriptor is open.
MaySend(t) == IF fd[t] = CurrentFd THEN {CurrentFd} ELSE {NoFd, CurrentFd}

\* No descriptor, or one whose other end is closed.
Gone(s) == s # NoFd => peer[s] = "closed"

DataReadable(s) == out[s] \notin {"empty", "cut"}

\* Mutant: an input thread goes on with the render thread's code.
AfterPushShared(t) == "x_start"

AfterPush(t) == IF t = Render THEN "x_start" ELSE "idle"

-----------------------------------------------------------------------------
(* enter_fallback, by any thread                                           *)

\* Mutant: `fallback` is tested but not set before the descriptors are closed.
EnterFallbackUnset(t) ==
    /\ pc[t] = "ef_enter" /\ stateLock = NoThread
    /\ \/ /\ fallback
          /\ Return(t, ret[t])
          /\ UNCHANGED <<conn, life, ret, idx, crashed, overlapped, wire, faults>>
       \/ /\ ~fallback /\ session < MaxSession
          /\ stateLock' = t
          /\ pending' = FALSE
          /\ Return(t, "ef_close")
          /\ UNCHANGED <<fallback, session, open, life, ret, idx, crashed, overlapped,
                         wire, faults>>

\* Takes state_lock; tests and sets `fallback`.
EnterFallback(t) ==
    /\ pc[t] = "ef_enter" /\ stateLock = NoThread
    /\ \/ /\ fallback
          /\ Return(t, ret[t])
          /\ UNCHANGED <<conn, life, ret, idx, crashed, overlapped, wire, faults>>
       \/ /\ ~fallback /\ session < MaxSession
          /\ stateLock' = t
          /\ fallback' = TRUE /\ pending' = FALSE
          /\ Return(t, "ef_close")
          /\ UNCHANGED <<session, open, life, ret, idx, crashed, overlapped, wire,
                         faults>>

\* The consumer's ends are closed: what is signalled, answered or sent there
\* reaches nobody.  (A call under way that reads something after all might as well
\* have read it before; it may also wait for the end of file.)
Abandon(s) ==
    /\ shm' = [shm EXCEPT ![s] = 0]
    /\ sig' = [sig EXCEPT ![s] = FALSE]
    /\ fence' = [fence EXCEPT ![s] = <<>>]
    /\ out' = [out EXCEPT ![s] = "empty"]

\* Mutant: state_lock is released before the descriptors are replaced.
CloseFdsUnlock(t) ==
    /\ pc[t] = "ef_close"
    /\ open' = FALSE /\ stateLock' = NoThread
    /\ Abandon(session)
    /\ Goto(t, "ef_new")
    /\ UNCHANGED <<fallback, pending, session, life, ret, fd, idx, crashed, overlapped,
                   ready, peer, faults>>

\* Mutant: the fence socket survives into the next generation.
CloseFdsButFence(t) ==
    /\ pc[t] = "ef_close"
    /\ open' = FALSE
    /\ fence' = [fence EXCEPT ![session] = <<>>, ![session + 1] = fence[session]]
    /\ Goto(t, "ef_new")
    /\ UNCHANGED <<fallback, pending, session, stateLock, life, ret, fd, idx, crashed,
                   overlapped, ready, peer, shm, sig, out, faults>>

\* Closes the descriptors and unmaps the shared page.
CloseFds(t) ==
    /\ pc[t] = "ef_close"
    /\ open' = FALSE
    /\ Abandon(session)
    /\ Goto(t, "ef_new")
    /\ UNCHANGED <<fallback, pending, session, stateLock, life, ret, fd, idx, crashed,
                   overlapped, ready, peer, faults>>

\* Mutant: the new descriptors are not offered to the daemon.
RehelloSilent(t) ==
    /\ pc[t] = "ef_new"
    /\ stateLock' = NoThread
    /\ Goto(t, "ef_cb")
    /\ session' = session + 1 /\ open' = TRUE
    /\ UNCHANGED <<fallback, pending, life, ret, fd, idx, crashed, overlapped, wire,
                   faults>>

\* send_hello_fds: the next generation is in place and on offer.
Hello ==
    /\ session' = session + 1 /\ open' = TRUE
    /\ peer' = [peer EXCEPT ![session + 1] = "hello"]
    /\ UNCHANGED faults

\* create_shm fails: nothing is offered.
ShmFails ==
    /\ Fault("shm")
    /\ UNCHANGED <<session, open, peer>>

\* Replaces the descriptors and releases the lock.
Rehello(t) ==
    /\ pc[t] = "ef_new"
    /\ stateLock' = NoThread
    /\ Goto(t, "ef_cb")
    /\ Hello \/ ShmFails
    /\ UNCHANGED <<fallback, pending, life, ret, fd, idx, crashed, overlapped, ready, shm,
                   sig, fence, out>>

\* on_fallback, outside the lock: the event thread is told to stop.
OnFallback(t) ==
    /\ pc[t] = "ef_cb"
    /\ eventRunning' = FALSE
    /\ Goto(t, ret[t])
    /\ UNCHANGED <<conn, joinable, ret, fd, idx, crashed, overlapped, wire, faults>>

TearDown(t) == EnterFallback(t) \/ CloseFds(t) \/ Rehello(t) \/ OnFallback(t)

-----------------------------------------------------------------------------
(* push_input_event, by an input thread or by send_refresh_rate            *)

PushCheck(t) ==
    /\ pc[t] \in {"idle", "x_rate"}
    /\ Goto(t, IF fallback THEN AfterPush(t) ELSE "p_fd")
    /\ UNCHANGED <<conn, life, ret, fd, idx, crashed, overlapped, wire, faults>>

PushFd(t) ==
    /\ pc[t] = "p_fd"
    /\ Capture(t)
    /\ Goto(t, "p_send")
    /\ UNCHANGED <<conn, life, ret, idx, crashed, overlapped, wire, faults>>

PushSend(t) ==
    /\ pc[t] = "p_send"
    /\ \E s \in MaySend(t) :
          IF Gone(s)
          THEN Fail(t, fd[t], AfterPush(t))
          ELSE Return(t, AfterPush(t)) /\ UNCHANGED ret
    /\ UNCHANGED <<conn, life, idx, crashed, overlapped, wire, faults>>

Push(t) == PushCheck(t) \/ PushFd(t) \/ PushSend(t)

-----------------------------------------------------------------------------
(* The render thread: select_dmabuf                                        *)

\* A buffer is dequeued; select_dmabuf tests `fallback`.
Select ==
    /\ pc[Render] = "r_select"
    /\ \E i \in Bufs : idx' = i
    /\ Goto(Render, IF fallback THEN "r_try" ELSE "r_load")
    /\ UNCHANGED <<conn, life, ret, fd, crashed, overlapped, wire, faults>>

\* Mutant: FDS_READY is looked at but not taken from the socket.
TryExitPeek ==
    /\ pc[Render] = "r_try"
    /\ Goto(Render, IF fallback /\ ready # {} THEN "r_up" ELSE "r_recheck")
    /\ UNCHANGED <<conn, life, ret, fd, idx, crashed, overlapped, wire, faults>>

\* Mutant: no message is waited for.
TryExitAtOnce ==
    /\ pc[Render] = "r_try"
    /\ Goto(Render, IF fallback THEN "r_up" ELSE "r_recheck")
    /\ ready' = {}
    /\ UNCHANGED <<conn, life, ret, fd, idx, crashed, overlapped, peer, shm, sig, fence,
                   out, faults>>

\* try_exit_fallback: is FDS_READY there?
TryExit ==
    /\ pc[Render] = "r_try"
    /\ \/ /\ fallback /\ ready # {}
          /\ \E s \in ready : ready' = ready \ {s}
          /\ Goto(Render, "r_up")
       \/ /\ ~fallback \/ ready = {}
          /\ Goto(Render, "r_recheck")
          /\ UNCHANGED ready
    /\ UNCHANGED <<conn, life, ret, fd, idx, crashed, overlapped, peer, shm, sig, fence,
                   out, faults>>

\* The up-transition, under state_lock.
GoUp ==
    /\ pc[Render] = "r_up" /\ stateLock = NoThread
    /\ fallback' = FALSE
    /\ Goto(Render, IF fallback THEN "r_bufs" ELSE "r_recheck")
    /\ UNCHANGED <<pending, session, open, stateLock, life, ret, fd, idx, crashed,
                   overlapped, wire, faults>>

\* push_dmabufs_internal, first send: the header with the buffers' fds.
PushBufs ==
    /\ pc[Render] = "r_bufs"
    /\ IF Gone(CurrentFd)
       THEN Fail(Render, CurrentFd, "x_rate")
       ELSE Capture(Render) /\ Goto(Render, "r_infos") /\ UNCHANGED ret
    /\ UNCHANGED <<conn, life, idx, crashed, overlapped, wire, faults>>

\* Second send: the buffer descriptions.  The producer can use them only when
\* they follow the header on the same socket.
PushInfos ==
    /\ pc[Render] = "r_infos"
    /\ IF Gone(CurrentFd)
       THEN Fail(Render, CurrentFd, "x_rate") /\ UNCHANGED peer
       ELSE /\ Return(Render, "x_rate")
            /\ peer' = IF fd[Render] = session /\ peer[session] = "live"
                       THEN [peer EXCEPT ![session] = "fed"] ELSE peer
            /\ UNCHANGED ret
    /\ UNCHANGED <<conn, life, idx, crashed, overlapped, ready, shm, sig, fence, out,
                   faults>>

\* on_exit_fallback attaches to the JVM, which may fail, and calls
\* start_event_thread.
StartCheck ==
    /\ pc[Render] = "x_start"
    /\ \/ /\ Goto(Render, IF eventRunning THEN "r_recheck" ELSE "x_join")
          /\ UNCHANGED faults
       \/ /\ Fault("attach")
          /\ Goto(Render, "r_recheck")
    /\ UNCHANGED <<conn, life, ret, fd, idx, crashed, overlapped, wire>>

\* join_event_thread: waits for the previous thread's end.
Join ==
    /\ pc[Render] = "x_join"
    /\ joinable => pc[Event] = "exited"
    /\ joinable' = FALSE
    /\ pc' = [pc EXCEPT ![Render] = "x_spawn",
                        ![Event] = IF joinable THEN "none" ELSE pc[Event]]
    /\ UNCHANGED <<conn, eventRunning, ret, fd, idx, crashed, overlapped, wire, faults>>

\* pthread_create, which may fail.
Spawn ==
    /\ pc[Render] = "x_spawn"
    /\ \/ /\ eventRunning' = TRUE /\ joinable' = TRUE
          /\ pc' = [pc EXCEPT ![Render] = "r_recheck", ![Event] = "e_start"]
          /\ UNCHANGED faults
       \/ /\ Fault("thread")
          /\ eventRunning' = FALSE
          /\ Goto(Render, "r_recheck")
          /\ UNCHANGED joinable
    /\ UNCHANGED <<conn, ret, fd, idx, crashed, overlapped, wire>>

\* Back in select_dmabuf: `fallback` is read again.
Recheck ==
    /\ pc[Render] = "r_recheck"
    /\ Goto(Render, IF fallback THEN "r_refresh" ELSE "r_load")
    /\ UNCHANGED <<conn, life, ret, fd, idx, crashed, overlapped, wire, faults>>

\* *ctx->shm_ptr = idx, with no lock and no test of the pointer: the pointer is
\* loaded ...
Load ==
    /\ pc[Render] = "r_load"
    /\ Capture(Render)
    /\ Goto(Render, "r_store")
    /\ UNCHANGED <<conn, life, ret, idx, crashed, overlapped, wire, faults>>

\* ... and stored through.  NULL faults, and so does a page that was unmapped
\* meanwhile, unless a mapping made since has its address: the new page, or one
\* of no concern here.
Store ==
    /\ pc[Render] = "r_store"
    /\ \/ /\ fd[Render] # NoFd
          /\ \E s \in IF fd[Render] = CurrentFd THEN {session} ELSE {CurrentFd, NoFd} :
                shm' = IF s = NoFd THEN shm ELSE [shm EXCEPT ![s] = idx]
          /\ Return(Render, "r_signal")
          /\ UNCHANGED crashed
       \/ /\ fd[Render] = NoFd \/ fd[Render] # CurrentFd
          /\ crashed' = TRUE
          /\ UNCHANGED <<shm, pc, fd>>
    /\ UNCHANGED <<conn, life, ret, idx, overlapped, ready, peer, sig, fence, out, faults>>

\* eventfd_write; on a closed descriptor it fails and nobody looks.
Signal ==
    /\ pc[Render] = "r_signal"
    /\ sig' = IF open THEN [sig EXCEPT ![session] = TRUE] ELSE sig
    /\ overlapped' = (overlapped \/ fallback)
    /\ Goto(Render, "r_pend")
    /\ UNCHANGED <<conn, life, ret, fd, idx, crashed, ready, peer, shm, fence, out, faults>>

SetPending ==
    /\ pc[Render] = "r_pend"
    /\ pending' = TRUE
    /\ Goto(Render, "r_refresh")
    /\ UNCHANGED <<fallback, session, open, stateLock, life, ret, fd, idx, crashed,
                   overlapped, wire, faults>>

-----------------------------------------------------------------------------
(* The render thread: refresh_done                                         *)

RefreshCheck ==
    /\ pc[Render] = "r_refresh"
    /\ \/ /\ pending
          /\ Capture(Render)
          /\ Goto(Render, "r_poll")
       \/ /\ ~pending
          /\ Goto(Render, "r_select")
          /\ UNCHANGED fd
    /\ UNCHANGED <<conn, life, ret, idx, crashed, overlapped, wire, faults>>

\* Is there a fence, or the end of file?  On a socket the app has closed the poll
\* may have seen one, or its other end goes while it waits.
FenceReadable(s) ==
    \/ s # NoFd /\ s = CurrentFd /\ (fence[s] # <<>> \/ peer[s] = "closed")
    \/ s \notin {NoFd, CurrentFd}

\* A healthy producer answers a signal within the 5 s.
AnswerComing(s) == s # NoFd /\ s = session /\ open /\ peer[s] = "fed" /\ sig[s]

\* Mutant: after the timeout the poll is tried again.
PollFenceForever ==
    /\ pc[Render] = "r_poll"
    /\ \E s \in MayReach(Render) :
          \/ FenceReadable(s) /\ Return(Render, "r_recv")
          \/ ~FenceReadable(s) /\ ~AnswerComing(s) /\ UNCHANGED <<pc, fd>>
    /\ UNCHANGED <<conn, life, ret, idx, crashed, overlapped, wire, faults>>

\* Polls the fence socket for 5 s.
PollFence ==
    /\ pc[Render] = "r_poll"
    /\ \E s \in MayReach(Render) :
          \/ /\ FenceReadable(s)
             /\ Return(Render, "r_recv")
             /\ UNCHANGED ret
          \/ /\ s # CurrentFd \/ ~(FenceReadable(s) \/ AnswerComing(s))
             /\ Fail(Render, s, "r_select")
    /\ UNCHANGED <<conn, life, idx, crashed, overlapped, wire, faults>>

\* Reads the fence without blocking, from the descriptor the context has now.
RecvFence ==
    /\ pc[Render] = "r_recv"
    /\ pending' = FALSE
    /\ \/ /\ open /\ fence[session] # <<>>
          /\ fence' = [fence EXCEPT ![session] = Tail(@)]
          /\ Goto(Render, "r_select")
          /\ UNCHANGED <<ret, fd>>
       \/ /\ open /\ fence[session] = <<>> /\ peer[session] = "closed"
          /\ Fail(Render, session, "r_select")
          /\ UNCHANGED fence
       \/ /\ open => fence[session] = <<>> /\ peer[session] # "closed"
          /\ Goto(Render, "r_select")
          /\ UNCHANGED <<ret, fd, fence>>
    /\ UNCHANGED <<fallback, session, open, stateLock, life, idx, crashed, overlapped,
                   ready, peer, shm, sig, out, faults>>

RenderOwn ==
    \/ Select \/ TryExit \/ GoUp \/ PushBufs \/ PushInfos \/ StartCheck \/ Join \/ Spawn
    \/ Recheck \/ Load \/ Store \/ Signal \/ SetPending \/ RefreshCheck \/ PollFence \/ RecvFence

RenderStep == RenderOwn \/ Push(Render) \/ TearDown(Render)

-----------------------------------------------------------------------------
(* The event thread: event_thread_func, poll_output_event and, for the text *)
(* of a clipboard message, poll_output_event_extend_data                   *)

\* The thread attaches to the JVM; when that fails it returns, and
\* event_running stays set.
EventBegin ==
    /\ pc[Event] = "e_start"
    /\ \/ Goto(Event, "e_top") /\ UNCHANGED faults
       \/ Fault("attach") /\ Goto(Event, "exited")
    /\ UNCHANGED <<conn, life, ret, fd, idx, crashed, overlapped, wire>>

\* Mutant: the loop is left in fallback, as if that were the sign to stop.
EventTopLeaves ==
    /\ pc[Event] = "e_top"
    /\ Goto(Event, IF eventRunning /\ ~fallback THEN "e_fd" ELSE "exited")
    /\ UNCHANGED <<conn, life, ret, fd, idx, crashed, overlapped, wire, faults>>

\* The loop tests event_running, then `fallback`; in fallback it spins.
EventTop ==
    /\ pc[Event] = "e_top"
    /\ \/ ~eventRunning /\ Goto(Event, "exited")
       \/ eventRunning /\ ~fallback /\ Goto(Event, "e_fd")
    /\ UNCHANGED <<conn, life, ret, fd, idx, crashed, overlapped, wire, faults>>

\* The text is asked for: `fallback` is tested again.
TextTop ==
    /\ pc[Event] = "c_top"
    /\ Goto(Event, IF fallback THEN "e_top" ELSE "c_fd")
    /\ UNCHANGED <<conn, life, ret, fd, idx, crashed, overlapped, wire, faults>>

\* Each poll and each recv_all reads data_fd anew.
FdHops == {<<"e_fd", "e_poll">>, <<"e_recv0", "e_recv">>,
           <<"c_fd", "c_poll">>, <<"c_recv0", "c_recv">>}

EventFd ==
    /\ \E hop \in FdHops : pc[Event] = hop[1] /\ Goto(Event, hop[2])
    /\ Capture(Event)
    /\ UNCHANGED <<conn, life, ret, idx, crashed, overlapped, wire, faults>>

\* Polls the data socket, for 500 ms or, for a text, 5 s; a text that does not
\* come in time is left to be read as a message.  A closed number polls as
\* POLLNVAL, which the code takes for readable.
PollData ==
    /\ pc[Event] \in {"e_poll", "c_poll"}
    /\ \E s \in MayReach(Event) :
          \/ /\ s # NoFd /\ Gone(s)
             /\ Fail(Event, s, "e_top")
          \/ /\ IF s = NoFd THEN fd[Event] # NoFd ELSE ~Gone(s) /\ DataReadable(s)
             /\ Return(Event, IF pc[Event] = "e_poll" THEN "e_recv0" ELSE "c_recv0")
             /\ UNCHANGED ret
          \/ /\ s # NoFd => ~Gone(s) /\ ~DataReadable(s)
             /\ Return(Event, "e_top")
             /\ UNCHANGED ret
    /\ UNCHANGED <<conn, life, idx, crashed, overlapped, wire, faults>>

\* What recv_all leaves on session s.
Leaves(s, left) == out' = [out EXCEPT ![s] = left]

\* recv_all has some of the bytes, from session s, and blocks for the others.
Blocks(s, l) == Goto(Event, l) /\ fd' = [fd EXCEPT ![Event] = s]

InRest == IF pc[Event] = "e_rest" THEN "e_rest" ELSE "c_rest"

EndOfFile(s) == Gone(s) /\ Return(Event, "e_top") /\ UNCHANGED <<ret, out, faults>>

\* A report is handled; a clipboard message has its text follow, but malloc may
\* fail, and then the text is not asked for; what is no message is an error, as is
\* a text that was left there.
TakesMessage(s) ==
    \/ /\ out[s] = "some" /\ Leaves(s, "empty")
       /\ Return(Event, "e_top")
       /\ UNCHANGED <<ret, faults>>
    \/ /\ out[s] = "some" /\ \E left \in {"rest", "cut"} : Leaves(s, left)
       /\ \/ Return(Event, "c_top") /\ UNCHANGED faults
          \/ Return(Event, "e_top") /\ Fault("memory")
       /\ UNCHANGED ret
    \/ /\ out[s] \in {"bad", "rest"} /\ Leaves(s, "empty")
       /\ Fail(Event, s, "e_top")
       /\ UNCHANGED faults

\* recv_all of one message, which has no timeout: it takes one, or blocks with the
\* first bytes of one, or with a text that is shorter than a message.
RecvData ==
    /\ pc[Event] = "e_recv"
    /\ \E s \in MayReach(Event) :
          \/ EndOfFile(s)
          \/ ~Gone(s) /\ TakesMessage(s)
          \/ /\ ~Gone(s) /\ out[s] \in {"some", "rest"}
             /\ Leaves(s, IF out[s] = "some" THEN "cut" ELSE "empty")
             /\ Blocks(s, "e_rest")
             /\ UNCHANGED <<ret, faults>>
    /\ UNCHANGED <<conn, life, idx, crashed, overlapped, ready, peer, shm, sig, fence>>

\* Bytes that were not meant for it, the next session's first message say, are
\* read as the rest of a message, or as a text: up to the end of their message or
\* not.  What was wanted is complete, or recv_all waits for more.
TakesForeign(s) ==
    \E left \in {"bad", "cut", "empty"} :
        /\ out[s] \in {"some", "bad"} /\ Leaves(s, left)
        /\ \/ Return(Event, "e_top") /\ UNCHANGED ret
           \/ pc[Event] = "e_rest" /\ Fail(Event, s, "e_top")
           \/ left # "bad" /\ Blocks(s, InRest) /\ UNCHANGED ret

\* The rest of a message, or a text: recv_all of as many bytes as are wanted,
\* which may come in several parts.
RecvRest ==
    /\ pc[Event] \in {"e_rest", "c_recv", "c_rest"}
    /\ \E s \in MayReach(Event) :
          \/ EndOfFile(s)
          \/ /\ ~Gone(s) /\ out[s] = "rest"
             /\ \/ Leaves(s, "empty") /\ Return(Event, "e_top")
                \/ Leaves(s, "cut") /\ Blocks(s, InRest)
             /\ UNCHANGED <<ret, faults>>
          \/ ~Gone(s) /\ TakesForeign(s) /\ UNCHANGED faults
    /\ UNCHANGED <<conn, life, idx, crashed, overlapped, ready, peer, shm, sig, fence>>

EventOwn ==
    EventBegin \/ EventTop \/ TextTop \/ EventFd \/ PollData \/ RecvData \/ RecvRest

EventStep == EventOwn \/ TearDown(Event)

InputStep(t) == Push(t) \/ TearDown(t)

-----------------------------------------------------------------------------
(* The daemon and the producers                                            *)

\* A producer takes a hello's descriptors; the daemon reports FDS_READY.
Pickup(s) ==
    /\ peer[s] = "hello"
    /\ peer' = [peer EXCEPT ![s] = "live"]
    /\ ready' = ready \cup {s}
    /\ UNCHANGED <<conn, life, control, shm, sig, fence, out, faults>>

\* The producer reads the signal, renders into the buffer the shared page
\* names and answers; a stalled one may do so late.
Answer(s) ==
    /\ s = CurrentFd /\ peer[s] \in {"fed", "stalled"} /\ sig[s]
    /\ sig' = [sig EXCEPT ![s] = FALSE]
    /\ fence' = [fence EXCEPT ![s] = Append(@, shm[s])]
    /\ UNCHANGED <<conn, life, control, ready, peer, shm, out, faults>>

\* The producer sends a message, or its first bytes.  It owes what it has begun,
\* and may stay silent.
Report(s) ==
    /\ s = CurrentFd /\ peer[s] \in Held /\ out[s] = "empty"
    /\ out' = [out EXCEPT ![s] = "some"]
    /\ UNCHANGED <<conn, life, control, ready, peer, shm, sig, fence, faults>>

Finish(s) ==
    /\ s = CurrentFd /\ peer[s] \in Held /\ out[s] = "cut"
    /\ out' = [out EXCEPT ![s] = "rest"]
    /\ UNCHANGED <<conn, life, control, ready, peer, shm, sig, fence, faults>>

\* A producer whose session was torn down drops its ends.
Release(s) ==
    /\ peer[s] \in Held /\ s # CurrentFd
    /\ peer' = [peer EXCEPT ![s] = "closed"]
    /\ UNCHANGED <<conn, life, control, ready, shm, sig, fence, out, faults>>

\* Faults: the producer dies, stops answering, or sends a malformed message.
Close ==
    /\ Fault("close")
    /\ peer[session] \in Held
    /\ peer' = [peer EXCEPT ![session] = "closed"]
    /\ out' = [out EXCEPT ![session] = "empty"]
    /\ UNCHANGED <<conn, life, control, ready, shm, sig, fence>>

Stall ==
    /\ Fault("stall")
    /\ peer[session] = "fed"
    /\ peer' = [peer EXCEPT ![session] = "stalled"]
    /\ UNCHANGED <<conn, life, control, ready, shm, sig, fence, out>>

Desync ==
    /\ Fault("desync")
    /\ peer[session] \in Held /\ out[session] # "bad"
    /\ out' = [out EXCEPT ![session] = "bad"]
    /\ UNCHANGED <<conn, life, control, ready, peer, shm, sig, fence>>

Environment ==
    \/ \E s \in Sessions : Pickup(s) \/ Answer(s) \/ Report(s) \/ Finish(s) \/ Release(s)
    \/ Close \/ Stall \/ Desync

-----------------------------------------------------------------------------
\* A dead process takes no step; in the last generation explored, neither
\* does a thread that would tear it down.
Stopped == (crashed \/ session = MaxSession) /\ UNCHANGED vars

Next ==
    \/ ~crashed /\ (RenderStep \/ EventStep \/ \E t \in Inputs : InputStep(t))
    \/ ~crashed /\ Environment
    \/ Stopped

Spec == Init /\ [][Next]_vars

\* The scheduler runs every thread that can run (an input thread need never
\* push, but finishes what it began); producers pick up, answer a signal while
\* they do not stall, and let go of what was torn down.  None need ever report.
ThreadFairness ==
    /\ WF_vars(~crashed /\ RenderStep)
    /\ WF_vars(~crashed /\ EventStep)
    /\ \A t \in Inputs : WF_vars(~crashed /\ pc[t] # "idle" /\ InputStep(t))

ProducerFairness ==
    \A s \in Sessions : /\ WF_vars(~crashed /\ Pickup(s))
                        /\ WF_vars(~crashed /\ peer[s] = "fed" /\ Answer(s))
                        /\ WF_vars(~crashed /\ Release(s))

FairSpec == Spec /\ ThreadFairness /\ ProducerFairness
-----------------------------------------------------------------------------
(* Properties                                                              *)

StepsOf(t) == IF t = Render THEN RenderSteps ELSE IF t = Event THEN EventSteps ELSE InputSteps

ReturnsTo(t) == IF t = Render THEN {"x_rate", "x_start", "r_select"}
                ELSE IF t = Event THEN {"e_top"} ELSE {"idle"}

FlagTypeOK ==
    /\ fallback \in BOOLEAN /\ pending \in BOOLEAN /\ open \in BOOLEAN
    /\ eventRunning \in BOOLEAN /\ joinable \in BOOLEAN /\ crashed \in BOOLEAN
    /\ overlapped \in BOOLEAN

ContextTypeOK == session \in Sessions /\ stateLock \in Threads \cup {NoThread}

ThreadTypeOK ==
    /\ DOMAIN pc = Threads /\ DOMAIN ret = Threads
    /\ \A t \in Threads : pc[t] \in StepsOf(t) /\ ret[t] \in ReturnsTo(t)
    /\ fd \in [Threads -> Sessions \cup {NoFd}]
    /\ idx \in Bufs

WireTypeOK ==
    /\ ready \subseteq Sessions
    /\ peer \in [Sessions -> Peers]
    /\ shm \in [Sessions -> Bufs]
    /\ sig \in [Sessions -> BOOLEAN]
    /\ fence \in [Sessions -> Seq(Bufs)]
    /\ out \in [Sessions -> Outs]
    /\ faults \in Nat

\* Every variable has its type; a thread is always at a step of its own code.
TypeOK == FlagTypeOK /\ ContextTypeOK /\ ThreadTypeOK /\ WireTypeOK

\* The descriptors are closed, replaced and offered by one thread at a time,
\* the one that holds state_lock, however many threads saw the failure
\* (enter_fallback's test-and-set), and only while `fallback` is set.
TeardownExclusive ==
    /\ \A t \in Threads : pc[t] \in Locked <=> stateLock = t
    /\ stateLock # NoThread => fallback
    /\ ~open => fallback

\* An FDS_READY that try_exit_fallback consumes is the answer to the hello of
\* the generation in place: none outlives its generation on the control
\* socket, whichever thread replaced it meanwhile.
ReadyIsCurrent ==
    /\ ready \subseteq {session}
    /\ ready # {} => fallback /\ open /\ stateLock = NoThread

\* Out of fallback the app writes only to descriptors a producer picked up.
UpOnPickedUpFds == ~fallback => peer[session] \in Held \cup {"closed"}

\* pthread_create never overwrites the handle of an event thread that still
\* exists: join_event_thread reaped it, and joinable tells which is the case.
OneEventThread ==
    /\ joinable <=> pc[Event] # "none"
    /\ pc[Render] = "x_spawn" => pc[Event] = "none"

\* The unlocked store through shm_ptr kills the process only with `fallback` set:
\* another thread's teardown began after the render thread tested the flag, and
\* may be over when the store faults.  A connection that is up never dies of it.
UpNeverCrashes == crashed => fallback

\* enter_fallback's comment: whoever races the teardown reads -1 or NULL "and
\* fails benignly".
NullIsBenign == ~crashed

\* The library as a user sees it: see DisplaySession.
Phase == IF ~fallback THEN "up"
         ELSE IF stateLock # NoThread \/ ~open THEN "torn"
         ELSE IF peer[session] = "hello" THEN "offered" ELSE "granted"

Session == INSTANCE DisplaySession WITH phase <- Phase, gen <- session

SessionSpec == Session!DSSpec

\* There is one event thread at a time, joined before the next, which, once it
\* listens, ends only when it was told to: whichever threads fail and signal it
\* meanwhile.
Worker == INSTANCE EventThreadLife WITH
    thread <- CASE pc[Event] = "none" -> "none" [] pc[Event] = "exited" -> "ended"
                [] pc[Event] = "e_start" -> "starting" [] OTHER -> "alive",
    wanted <- eventRunning, handle <- joinable
EventThreadSpec == Worker!ETSpec

\* The fence handed to queueBuffer is the one for the frame that is queued,
\* and a session's fence channel never holds two messages.
FenceOfFrame ==
    /\ Len(fence[session]) <= 1
    /\ pc[Render] = "r_recv" /\ open /\ fence[session] # <<>> => Head(fence[session]) = idx

\* So it is, timeouts and late answers notwithstanding, unless a buffer was
\* signalled while another thread was tearing its session down.
FenceMatchesFrame == ~overlapped => FenceOfFrame

\* The render thread is in pthread_join of an event thread that is in recv_all:
\* for the rest of a message its producer does not send, or for the length of a
\* text after the session changed under it.
JoinsReader == pc[Render] = "x_join" /\ joinable /\ pc[Event] \in Reading

\* The render thread always comes back for the next buffer, however the
\* producers stall, unless it joins an event thread that waits for bytes.
\* (Time stops when the explored generations are used up.)
RenderReturns ==
    []<>(pc[Render] = "r_select" \/ JoinsReader \/ crashed \/ session = MaxSession)

\* Whatever brought the connection down, it comes up again when a producer
\* picks up the descriptors, with the same exception.
Recovers == fallback ~> (~fallback \/ JoinsReader \/ crashed \/ session = MaxSession)
=============================================================================
