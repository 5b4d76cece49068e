---------------------------- MODULE DataChannel ----------------------------
(***************************************************************************)
(* The writers of the data socket: the buffers sent when a connection      *)
(* comes up, input events, and the two-part messages that carry a          *)
(* service's descriptors.  Here are data_lock, the gate data_needs_lock    *)
(* that lets input events go without it, and the resources of the          *)
(* services, with state_lock as far as a teardown takes it first.          *)
(*                                                                         *)
(* DisplayConsumer has the rest of a session.  This module keeps of it the *)
(* teardown, the up-transition and the event thread's stop and start.      *)
(***************************************************************************)
EXTENDS Integers, Sequences, FiniteSets

CONSTANTS
    Render, Event, Inputs,   \* the threads
    NoThread,
    Services,                \* registered with allocate_services
    Handles,                 \* what allocate_resource returns
    None,
    Capacity,                \* bound: message parts the socket buffers
    MaxSession,              \* bound: generations of descriptors
    MaxFaults                \* bound: producers that fail or are late, sessions without a hello

Threads == {Render, Event} \cup Inputs

ASSUME ThreadsAssumption ==
    Render # Event /\ Render \notin Inputs /\ Event \notin Inputs /\ NoThread \notin Threads
ASSUME NoneAssumption == None \notin Handles /\ None \notin Services
ASSUME BoundsAssumption ==
    Capacity \in Nat \ {0} /\ MaxSession \in Nat \ {0} /\ MaxFaults \in Nat

VARIABLES
    fallback,
    session, open,      \* the current data_fd, and whether it is not -1
    stateLock, dataLock,
    needsLock, sent,    \* data_needs_lock and services_sent_mask
    resource, live,     \* resources[]; handles allocated and not freed
    clearing,           \* the services whose record free_resources clears next
    misuse,             \* history, while calm: handles freed twice, sent after a free
    eventOn,            \* event_running
    \* the other end: the producer, the parts in the socket, the part its parser
    \* waits for, messages found in two pieces while calm, services asked for
    producer, wire, expects, split, asks, asked,
    \* of each thread: its step, where enter_fallback returns, the fd it read;
    \* of the event thread: the service, its new resource, the one it sends
    pc, ret, fd, req, mine, sending,
    \* history: no call overlapped a new session and nothing was asked for twice; a
    \* resource was stored on a record that a teardown was about to clear
    calm, overtaken, faults

connection == <<fallback, session, open>>
gate == <<needsLock, sent>>
services == <<resource, live, clearing, misuse>>
stream == <<wire, expects, split>>
peer == <<producer, asks, asked>>
locals == <<req, mine, sending>>
history == <<calm, overtaken, faults>>
lifecycle == <<connection, stateLock, eventOn, peer, history>>
vars == <<connection, stateLock, dataLock, gate, services, eventOn, stream, peer,
          pc, ret, fd, locals, history>>

Steps == {"idle", "ef_lock", "ef_free", "ef_clear", "ef_close", "ef_new", "ef_cb",
          "b1_fd", "b1", "b2_fd", "b2", "x_push", "x_start",
          "i_lock", "i_fd", "i_send",
          "h_recv", "h_alloc", "h_free", "h_set", "h_num", "h_push", "h_lock", "h_r1", "h_r2",
          "h_mask"}
Parts == {"bufs", "infos", "input", "resource", "refusal", "fds", "part"}

Init ==
    /\ fallback = TRUE /\ session = 1 /\ open = TRUE
    /\ stateLock = NoThread /\ dataLock = NoThread
    /\ needsLock = (Services # {}) /\ sent = {}
    /\ resource = [s \in Services |-> None] /\ live = {} /\ clearing = {} /\ misuse = {}
    /\ eventOn = FALSE
    /\ producer = "hello" /\ wire = <<>> /\ expects = "message" /\ split = {}
    /\ asks = {} /\ asked = {}
    /\ pc = [t \in Threads |-> "idle"] /\ ret = [t \in Threads |-> "idle"]
    /\ fd = [t \in Threads |-> 0]
    /\ req = None /\ mine = None /\ sending = None
    /\ calm = TRUE /\ overtaken = FALSE /\ faults = 0

Goto(t, step) == pc' = [pc EXCEPT ![t] = step]

\* A call of enter_fallback that returns to step.
Fallback(t, step) == Goto(t, "ef_lock") /\ ret' = [ret EXCEPT ![t] = step]
Return(t) == Goto(t, ret[t]) /\ ret' = [ret EXCEPT ![t] = "idle"]

Fault == faults < MaxFaults /\ faults' = faults + 1

\* A misuse of a handle is recorded unless it is right, or not calm.
Record(right, what) ==
    misuse' = misuse \cup (IF right \/ ~calm THEN {} ELSE {what})

-----------------------------------------------------------------------------
(* Reading data_fd and sending on what was read                            *)

ReadFd(t, step) ==
    /\ fd' = [fd EXCEPT ![t] = IF open THEN session ELSE 0]
    /\ Goto(t, step)
    /\ UNCHANGED <<lifecycle, dataLock, gate, services, stream, ret, locals>>

Current(t) == open /\ fd[t] = session

\* The part goes out when there is room.  A descriptor that was closed since it
\* was read may be a number of the session that replaced it.  Parts are told apart
\* while it is calm.
Sends(t, part) ==
    /\ open /\ fd[t] # 0
    /\ producer # "closed" /\ Len(wire) < Capacity
    /\ wire' = Append(wire, IF calm THEN part ELSE "part")

\* -1, a closed descriptor, or a producer that is gone.
SendFails(t) == ~Current(t) \/ producer = "closed"

-----------------------------------------------------------------------------
(* enter_fallback, called without a lock                                   *)

\* The flag.  It is not calm when others are in a call, unless they found out
\* about the failure too.
EfLock(t) ==
    /\ pc[t] = "ef_lock" /\ stateLock = NoThread
    /\ \/ /\ fallback /\ Return(t)
          /\ UNCHANGED <<fallback, stateLock, calm>>
       \/ /\ ~fallback /\ session < MaxSession
          /\ fallback' = TRUE /\ stateLock' = t
          /\ calm' = (calm /\ \A u \in Threads \ {t} : pc[u] \in {"idle", "ef_lock"})
          /\ Goto(t, "ef_free") /\ UNCHANGED ret
    /\ UNCHANGED <<session, open, dataLock, gate, services, eventOn, stream, peer, fd, locals,
                   overtaken, faults>>

\* Mutant: the services are forgotten, and keep what they allocated.
EfFreeNothing(t) ==
    /\ pc[t] = "ef_free"
    /\ clearing' = {s \in Services : resource[s] # None}
    /\ Goto(t, IF clearing' = {} THEN "ef_close" ELSE "ef_clear")
    /\ UNCHANGED <<lifecycle, dataLock, gate, resource, live, misuse, stream, ret, fd, locals>>

\* free_resources, while data_lock is not yet held: every resource on record is
\* freed ...
EfFree(t) ==
    /\ pc[t] = "ef_free"
    /\ clearing' = {s \in Services : resource[s] # None}
    /\ LET held == {resource[s] : s \in clearing'}
       IN live' = live \ held /\ Record(held \subseteq live, "freed twice")
    /\ Goto(t, IF clearing' = {} THEN "ef_close" ELSE "ef_clear")
    /\ UNCHANGED <<lifecycle, dataLock, gate, resource, stream, ret, fd, locals>>

\* Mutant: free_resources leaves the freed handles in resources[].
EfClearNothing(t) ==
    /\ pc[t] = "ef_clear"
    /\ clearing' = {}
    /\ Goto(t, "ef_close")
    /\ UNCHANGED <<lifecycle, dataLock, gate, resource, live, misuse, stream, ret, fd, locals>>

\* ... and then its record cleared, whatever is on it by now.
EfClear(t) ==
    /\ pc[t] = "ef_clear"
    /\ resource' = [s \in Services |-> IF s \in clearing THEN None ELSE resource[s]]
    /\ clearing' = {}
    /\ Goto(t, "ef_close")
    /\ UNCHANGED <<lifecycle, dataLock, gate, live, misuse, stream, ret, fd, locals>>

\* Mutant: the descriptors are closed without data_lock.
EfCloseUnlocked(t) ==
    /\ pc[t] = "ef_close"
    /\ open' = FALSE
    /\ Goto(t, "ef_new")
    /\ UNCHANGED <<fallback, session, stateLock, dataLock, gate, services, eventOn, stream,
                   peer, ret, fd, locals, history>>

\* data_lock, and the close.
EfClose(t) ==
    /\ pc[t] = "ef_close" /\ dataLock = NoThread
    /\ dataLock' = t /\ open' = FALSE
    /\ Goto(t, "ef_new")
    /\ UNCHANGED <<fallback, session, stateLock, gate, services, eventOn, stream, peer,
                   ret, fd, locals, history>>

\* Mutant: what was sent in the previous session still counts.
ArmGateOnly == sent' = sent /\ needsLock' = (Services # {})

\* arm_data_lock.
Arm == sent' = {} /\ needsLock' = (Services # {})

\* The next descriptors and the hello, or neither when there is no memory or no
\* descriptor for them; the gate; both locks are released.
EfNew(t) ==
    /\ pc[t] = "ef_new"
    /\ \/ session' = session + 1 /\ open' = TRUE /\ producer' = "hello" /\ UNCHANGED faults
       \/ producer' = "closed" /\ Fault /\ UNCHANGED <<session, open>>
    /\ Arm
    /\ stateLock' = NoThread /\ dataLock' = NoThread
    /\ wire' = <<>> /\ expects' = "message"
    /\ asks' = {} /\ asked' = {}
    /\ Goto(t, "ef_cb")
    /\ UNCHANGED <<fallback, services, eventOn, split, ret, fd, locals, calm, overtaken>>

\* on_fallback: stop_event_thread.
EfCallback(t) ==
    /\ pc[t] = "ef_cb"
    /\ eventOn' = FALSE
    /\ Return(t)
    /\ UNCHANGED <<connection, stateLock, dataLock, gate, services, stream, peer, fd, locals,
                   history>>

EnterFallback(t) ==
    EfLock(t) \/ EfFree(t) \/ EfClear(t) \/ EfClose(t) \/ EfNew(t) \/ EfCallback(t)

-----------------------------------------------------------------------------
(* The render thread                                                       *)

\* Mutant: the descriptors are used although nobody has picked them up.
GoUpUngranted ==
    /\ pc[Render] = "idle" /\ fallback /\ producer \in {"hello", "ready"} /\ stateLock = NoThread
    /\ fallback' = FALSE /\ producer' = "up"
    /\ Arm
    /\ Goto(Render, "b1_fd")
    /\ UNCHANGED <<session, open, stateLock, dataLock, services, eventOn, stream, asks, asked,
                   ret, fd, locals, history>>

\* try_exit_fallback up to the push.  It is not calm when the event thread was
\* left running: the callback starts it even after a push that failed.
GoUp ==
    /\ pc[Render] = "idle" /\ fallback /\ producer = "ready" /\ stateLock = NoThread
    /\ fallback' = FALSE /\ producer' = "up"
    /\ Arm
    /\ calm' = (calm /\ ~eventOn /\ \A u \in Threads \ {Render} : pc[u] = "idle")
    /\ Goto(Render, "b1_fd")
    /\ UNCHANGED <<session, open, stateLock, dataLock, services, eventOn, stream, asks, asked,
                   ret, fd, locals, overtaken, faults>>

\* push_dmabufs_internal: two sends, each on the descriptor of the moment, and
\* no lock.  The callback follows even when it failed.
PushPart(step, part, next) ==
    /\ pc[Render] = step
    /\ \/ Sends(Render, part) /\ Goto(Render, next) /\ UNCHANGED ret
       \/ SendFails(Render) /\ Fallback(Render, "x_push") /\ UNCHANGED wire
    /\ fd' = [fd EXCEPT ![Render] = 0]
    /\ UNCHANGED <<lifecycle, dataLock, gate, services, expects, split, locals>>

PushBuffers ==
    \/ pc[Render] = "b1_fd" /\ ReadFd(Render, "b1")
    \/ PushPart("b1", "bufs", "b2_fd")
    \/ pc[Render] = "b2_fd" /\ ReadFd(Render, "b2")
    \/ PushPart("b2", "infos", "x_push")

\* start_event_thread: nothing if it is thought to run, else the previous thread
\* is joined.
StartEventThread ==
    /\ pc[Render] = "x_start"
    /\ eventOn \/ pc[Event] = "idle"
    /\ eventOn' = TRUE
    /\ Goto(Render, "idle")
    /\ UNCHANGED <<connection, stateLock, dataLock, gate, services, stream, peer, ret, fd,
                   locals, history>>

\* refresh_done: the fence is late, or does not come.
FenceTimeout ==
    /\ pc[Render] = "idle" /\ ~fallback
    /\ IF producer = "closed" THEN UNCHANGED faults ELSE Fault
    /\ Fallback(Render, "idle")
    /\ UNCHANGED <<connection, stateLock, dataLock, gate, services, eventOn, stream, peer, fd,
                   locals, calm, overtaken>>

-----------------------------------------------------------------------------
(* push_input_event, by input threads and by the render thread, which      *)
(* sends the refresh rate in on_exit_fallback                              *)

\* Mutant: the gate is never closed.
PushGateless(t) ==
    /\ \/ t \in Inputs /\ pc[t] = "idle" /\ ret' = [ret EXCEPT ![t] = "idle"]
       \/ t = Render /\ pc[t] = "x_push" /\ ret' = [ret EXCEPT ![t] = "x_start"]
    /\ IF fallback THEN t = Render /\ Goto(t, "x_start") ELSE Goto(t, "i_fd")
    /\ UNCHANGED <<lifecycle, dataLock, gate, services, stream, fd, locals>>

Push(t) ==
    /\ \/ t \in Inputs /\ pc[t] = "idle" /\ ret' = [ret EXCEPT ![t] = "idle"]
       \/ t = Render /\ pc[t] = "x_push" /\ ret' = [ret EXCEPT ![t] = "x_start"]
    /\ IF fallback THEN t = Render /\ Goto(t, "x_start")
       ELSE Goto(t, IF needsLock THEN "i_lock" ELSE "i_fd")
    /\ UNCHANGED <<lifecycle, dataLock, gate, services, stream, fd, locals>>

InputLock(t) ==
    /\ pc[t] = "i_lock" /\ dataLock = NoThread
    /\ dataLock' = t
    /\ Goto(t, "i_fd")
    /\ UNCHANGED <<lifecycle, gate, services, stream, ret, fd, locals>>

Unlock(t) == dataLock' = IF dataLock = t THEN NoThread ELSE dataLock

\* Mutant: a send that fails is tried again.
InputSendRetries(t) ==
    /\ pc[t] = "i_send"
    /\ \/ Sends(t, "input") /\ Return(t) /\ Unlock(t)
       \/ SendFails(t) /\ Goto(t, "i_fd") /\ UNCHANGED <<wire, ret, dataLock>>
    /\ fd' = [fd EXCEPT ![t] = 0]
    /\ UNCHANGED <<lifecycle, gate, services, expects, split, locals>>

InputSend(t) ==
    /\ pc[t] = "i_send"
    /\ \/ Sends(t, "input") /\ Return(t)
       \/ SendFails(t) /\ Goto(t, "ef_lock") /\ UNCHANGED <<wire, ret>>
    /\ fd' = [fd EXCEPT ![t] = 0]
    /\ Unlock(t)
    /\ UNCHANGED <<lifecycle, gate, services, expects, split, locals>>

InputStep(t) ==
    \/ InputLock(t)
    \/ pc[t] = "i_fd" /\ ReadFd(t, "i_send")
    \/ InputSend(t)

-----------------------------------------------------------------------------
(* handle_resource_request on the event thread                             *)

\* poll_output_event: not in fallback, the poll finds a message ...
PollRequest ==
    /\ pc[Event] = "idle" /\ eventOn /\ ~fallback
    /\ producer # "closed" /\ asks # {}
    /\ Goto(Event, "h_recv")
    /\ UNCHANGED <<lifecycle, dataLock, gate, services, stream, ret, fd, locals>>

\* ... and recv_all takes it from the data_fd of now, which may be the next
\* session's and have none yet.
TakeRequest == \E s \in asks :
    /\ pc[Event] = "h_recv" /\ open
    /\ asks' = asks \ {s} /\ req' = s
    /\ Goto(Event, "h_alloc")
    /\ UNCHANGED <<connection, stateLock, dataLock, gate, services, eventOn, stream, producer,
                   asked, ret, fd, mine, sending, history>>

\* No descriptor, or the end of file.
NoRequest ==
    /\ pc[Event] = "h_recv"
    /\ ~open \/ (producer = "closed" /\ asks = {})
    /\ Goto(Event, "idle")
    /\ UNCHANGED <<lifecycle, dataLock, gate, services, stream, ret, fd, locals>>

\* POLLHUP.
Hangup ==
    /\ pc[Event] = "idle" /\ eventOn /\ ~fallback /\ producer = "closed"
    /\ Fallback(Event, "idle")
    /\ UNCHANGED <<lifecycle, dataLock, gate, services, stream, fd, locals>>

\* allocate_resource may fail; then the test of the previous one.
Allocate ==
    /\ pc[Event] = "h_alloc"
    /\ \E h \in (Handles \ (live \cup {resource[s] : s \in Services})) \cup {None} :
        /\ mine' = h /\ live' = live \cup ({h} \ {None})
    /\ Goto(Event, IF resource[req] = None THEN "h_set" ELSE "h_free")
    /\ UNCHANGED <<lifecycle, dataLock, gate, resource, clearing, misuse, stream, ret, fd, req,
                   sending>>

\* What is on record by now is freed: nothing, when a teardown has cleared it.
FreePrevious ==
    /\ pc[Event] = "h_free"
    /\ live' = live \ {resource[req]}
    /\ Record(resource[req] \in live \cup {None}, "freed twice")
    /\ Goto(Event, "h_set")
    /\ UNCHANGED <<lifecycle, dataLock, gate, resource, clearing, stream, ret, fd, locals>>

\* The new one goes on record, without a lock: also when a teardown has just
\* freed what is there and clears it next.
SetResource ==
    /\ pc[Event] = "h_set"
    /\ resource' = [resource EXCEPT ![req] = mine]
    /\ overtaken' = (overtaken \/ (mine # None /\ req \in clearing))
    /\ Goto(Event, "h_num")
    /\ UNCHANGED <<connection, stateLock, dataLock, gate, live, clearing, misuse, eventOn, stream,
                   peer, ret, fd, locals, calm, faults>>

\* The number of descriptors to announce is read back from the record.
ReadNumber ==
    /\ pc[Event] = "h_num"
    /\ mine' = resource[req]
    /\ Goto(Event, "h_push")
    /\ UNCHANGED <<lifecycle, dataLock, gate, services, stream, ret, fd, req, sending>>

\* The descriptors are read from it too; then push_input_event_with_fds tests
\* fallback, takes the lock and reads the data_fd.
PushResource ==
    /\ pc[Event] = "h_push"
    /\ IF fallback THEN Goto(Event, "h_mask") /\ mine' = None /\ UNCHANGED sending
       ELSE Goto(Event, "h_lock") /\ sending' = resource[req] /\ UNCHANGED mine
    /\ UNCHANGED <<lifecycle, dataLock, gate, services, stream, ret, fd, req>>

ResourceLock ==
    /\ pc[Event] = "h_lock" /\ dataLock = NoThread
    /\ dataLock' = Event
    /\ fd' = [fd EXCEPT ![Event] = IF open THEN session ELSE 0]
    /\ Goto(Event, "h_r1")
    /\ UNCHANGED <<lifecycle, gate, services, stream, ret, locals>>

\* The event, which announces descriptors unless the allocation failed; they
\* follow if they were still on record.
ResourceEvent ==
    /\ pc[Event] = "h_r1"
    /\ \/ /\ Sends(Event, IF mine = None THEN "refusal" ELSE "resource")
          /\ IF sending = None THEN Goto(Event, "h_mask") /\ Unlock(Event)
             ELSE Goto(Event, "h_r2") /\ UNCHANGED dataLock
          /\ UNCHANGED <<ret, sending>>
       \/ /\ SendFails(Event) /\ Fallback(Event, "h_mask")
          /\ Unlock(Event) /\ sending' = None /\ UNCHANGED wire
    /\ mine' = None
    /\ fd' = [fd EXCEPT ![Event] = IF pc'[Event] = "h_r2" THEN @ ELSE 0]
    /\ UNCHANGED <<lifecycle, gate, services, expects, split, req>>

\* The descriptors.
ResourceFds ==
    /\ pc[Event] = "h_r2"
    /\ \/ /\ Sends(Event, "fds") /\ Goto(Event, "h_mask")
          /\ Record(sending \in live, "sent after free")
          /\ UNCHANGED ret
       \/ SendFails(Event) /\ Fallback(Event, "h_mask") /\ UNCHANGED <<wire, misuse>>
    /\ Unlock(Event)
    /\ fd' = [fd EXCEPT ![Event] = 0] /\ sending' = None
    /\ UNCHANGED <<lifecycle, gate, resource, live, clearing, expects, split, req, mine>>

\* The gate opens when every service was sent.
CountSent ==
    /\ pc[Event] = "h_mask"
    /\ IF fallback THEN UNCHANGED gate
       ELSE /\ dataLock = NoThread
            /\ sent' = sent \cup {req}
            /\ needsLock' = (needsLock /\ sent' # Services)
    /\ req' = None
    /\ Goto(Event, "idle")
    /\ UNCHANGED <<lifecycle, dataLock, services, stream, ret, fd, mine, sending>>

Request ==
    \/ Allocate \/ FreePrevious \/ SetResource \/ ReadNumber
    \/ PushResource \/ ResourceLock \/ ResourceEvent \/ ResourceFds
    \/ CountSent

-----------------------------------------------------------------------------
(* The producer                                                            *)

Producer(from, to) ==
    /\ producer = from /\ producer' = to
    /\ UNCHANGED <<connection, stateLock, dataLock, gate, services, eventOn, split, asks,
                   asked, pc, ret, fd, locals, calm, overtaken>>

Grant == Producer("hello", "ready") /\ UNCHANGED <<wire, expects, faults>>

\* What it had not read is lost.
Close == Producer("up", "closed") /\ Fault /\ wire' = <<>> /\ expects' = "message"

\* A service is asked for once in a session, or, no longer calm, again.
Ask(s) ==
    /\ producer = "up" /\ s \notin asks
    /\ asks' = asks \cup {s} /\ asked' = IF calm THEN asked \cup {s} ELSE asked
    /\ calm' = (calm /\ s \notin asked)
    /\ UNCHANGED <<connection, stateLock, dataLock, gate, services, eventOn, stream, producer,
                   pc, ret, fd, locals, overtaken, faults>>

\* What follows a part, and what must follow it.
Next2(part) == CASE part = "bufs" -> "infos" [] part = "resource" -> "fds"
                 [] OTHER -> "message"

\* The parser of the producer takes the next part.
Read ==
    /\ producer = "up" /\ wire # <<>>
    /\ wire' = Tail(wire)
    /\ expects' = IF calm THEN Next2(Head(wire)) ELSE "message"
    /\ split' = split \cup
        (IF calm /\ expects # "message" /\ Head(wire) # expects THEN {expects} ELSE {})
    /\ UNCHANGED <<lifecycle, dataLock, gate, services, pc, ret, fd, locals>>

\* No generation is left to replace this one: the bound ends there.
SessionsUsedUp ==
    /\ session = MaxSession /\ ~fallback
    /\ UNCHANGED vars

\* try_exit_fallback finds nothing on the control socket: there was no hello.
NothingReady ==
    /\ pc[Render] = "idle" /\ fallback /\ producer = "closed"
    /\ UNCHANGED vars

-----------------------------------------------------------------------------
RenderStep == GoUp \/ PushBuffers \/ StartEventThread \/ FenceTimeout \/ Push(Render)
EventStep == PollRequest \/ TakeRequest \/ NoRequest \/ Hangup \/ Request

Next ==
    \/ RenderStep \/ EventStep
    \/ \E t \in Inputs : Push(t)
    \/ \E t \in Threads : EnterFallback(t) \/ InputStep(t)
    \/ Grant \/ Close \/ Read
    \/ \E s \in Services : Ask(s)
    \/ SessionsUsedUp \/ NothingReady

Spec == Init /\ [][Next]_vars

\* Threads run, and a producer that is connected reads.  A mutex, and the room in
\* the socket, are not kept from one thread for ever.
FairSpec ==
    /\ Spec
    /\ SF_vars(RenderStep \/ EnterFallback(Render) \/ InputStep(Render))
    /\ SF_vars(EventStep \/ EnterFallback(Event))
    /\ \A t \in Inputs : SF_vars(EnterFallback(t) \/ InputStep(t))
    /\ WF_vars(Read)

-----------------------------------------------------------------------------
(* Properties                                                              *)

\* Types of the locks, the gate, the resources, the stream and the threads; the
\* gate is closed until every service was sent.
ConnectionOK ==
    /\ fallback \in BOOLEAN /\ session \in 1 .. MaxSession /\ open \in BOOLEAN
    /\ stateLock \in Threads \cup {NoThread} /\ dataLock \in Threads \cup {NoThread}
    /\ eventOn \in BOOLEAN
    /\ producer \in {"hello", "ready", "up", "closed"}
    /\ calm \in BOOLEAN /\ overtaken \in BOOLEAN /\ faults \in 0 .. MaxFaults
ServicesOK ==
    /\ sent \subseteq Services
    /\ needsLock \in BOOLEAN /\ (needsLock = FALSE <=> sent = Services)
    /\ resource \in [Services -> Handles \cup {None}] /\ live \subseteq Handles
    /\ clearing \subseteq Services
    /\ misuse \subseteq {"freed twice", "sent after free"}
    /\ asks \subseteq Services /\ asked \subseteq Services
    /\ req \in Services \cup {None} /\ mine \in Handles \cup {None}
    /\ sending \in Handles \cup {None}
StreamOK ==
    /\ wire \in Seq(Parts) /\ Len(wire) <= Capacity
    /\ expects \in {"message", "infos", "fds"} /\ split \subseteq {"infos", "fds"}
ThreadsOK ==
    /\ pc \in [Threads -> Steps] /\ fd \in [Threads -> 0 .. MaxSession]
    /\ ret \in [Threads -> {"idle", "x_push", "x_start", "h_mask"}]
TypeOK == ConnectionOK /\ ServicesOK /\ StreamOK /\ ThreadsOK

\* While calls do not overlap a new session and a service is asked for once,
\* nothing comes between a resource event and its descriptors, although
\* input events stop taking the lock.
ResourceFramed == calm => "fds" \notin split

\* data_lock keeps the socket: the descriptor a writer read under it is the
\* current one until it unlocks, however the session ends.
LockKeepsSocket == \A t \in Threads :
    dataLock = t /\ pc[t] \in {"i_send", "h_r1", "h_r2"} => fd[t] = 0 \/ Current(t)

\* Without such overlaps no resource is freed twice or sent after its free.
ResourcesSound == calm => misuse = {}

\* Whoever tears down, a resource that is allocated is on record, so that the next
\* teardown frees it, with one way to lose it: free_resources has freed what was
\* there, and clears the record after the event thread stored a new one.
ResourcesOnRecord ==
    ~overtaken => live \subseteq {resource[s] : s \in Services} \cup {mine}

\* The render thread joins an event thread that waits for a message.
JoinsReader == pc[Render] = "x_start" /\ ~eventOn /\ pc[Event] = "h_recv"

\* Every call returns: the two locks and the full socket keep nobody for ever.
\* The event thread may wait for a request, and the render thread for it.
CallsReturn == \A t \in Threads :
    []<>(\/ pc[t] \in {"idle", "h_recv"}
         \/ t = Render /\ JoinsReader
         \/ session = MaxSession)

\* Where the current generation of descriptors is in its life.
Phase == CASE producer = "hello" -> "offered"
           [] producer = "ready" -> "granted"
           [] OTHER -> IF fallback THEN "torn" ELSE "up"

\* Whoever tears down, and whoever still writes meanwhile, a generation is used
\* once, after it was picked up, and only a torn one is replaced.
Session == INSTANCE DisplaySession WITH phase <- Phase, gen <- session
SessionSpec == Session!DSSpec

\* "the two-part push_input_event_with_fds send is the only writer that can
\* interleave with input events": no message is ever found in two pieces.
Framed == split = {}
=============================================================================
