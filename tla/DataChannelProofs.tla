------------------------- MODULE DataChannelProofs -------------------------
(***************************************************************************)
(* Theorems about DataChannel, for any input threads, services, handles    *)
(* and bounds.                                                             *)
(***************************************************************************)
EXTENDS DataChannel, TLAPS

Teardown == {"ef_lock", "ef_free", "ef_clear", "ef_close", "ef_new", "ef_cb"}
Inside == {"ef_free", "ef_clear", "ef_close", "ef_new"}
Pushing == {"b1_fd", "b1", "b2_fd", "b2"}
Sending == {"i_lock", "i_fd", "i_send"}
Requesting ==
    {"h_alloc", "h_free", "h_set", "h_num", "h_push", "h_lock", "h_r1", "h_r2", "h_mask"}

\* Which thread is in which call, and what the event thread holds meanwhile.
PlaceInv ==
    /\ pc[Render] \in {"idle", "x_push", "x_start"} \cup Teardown \cup Pushing \cup Sending
    /\ ret[Render] \in {"idle", "x_push", "x_start"}
    /\ \A t \in Inputs : pc[t] \in {"idle"} \cup Teardown \cup Sending /\ ret[t] = "idle"
    /\ pc[Event] \in {"idle", "h_recv"} \cup Teardown \cup Requesting
    /\ ret[Event] \in {"idle", "h_mask"}
    /\ req # None <=> (pc[Event] \in Requesting \/ ret[Event] = "h_mask")
    /\ pc[Event] \notin Teardown => ret[Event] = "idle"
    /\ sending # None => pc[Event] \in {"h_lock", "h_r1", "h_r2"}
    /\ mine # None => pc[Event] \in {"h_free", "h_set", "h_num", "h_push", "h_lock", "h_r1"}
    /\ \A t \in Threads : pc[t] \in Inside => stateLock = t /\ session < MaxSession

\* Who holds the locks, and in which step.
Holds(t) ==
    /\ pc[t] \in Inside => fallback
    /\ pc[t] \in {"ef_new", "h_r1", "h_r2"} => dataLock = t
    /\ dataLock = t => pc[t] \in {"i_fd", "i_send", "h_r1", "h_r2", "ef_new"}
    /\ pc[t] = "h_r2" => fd[t] # 0
    /\ dataLock = t /\ pc[t] \in {"i_send", "h_r1", "h_r2"} => fd[t] = 0 \/ Current(t)
LockInv == \A t \in Threads : Holds(t)

\* The record of a service is about to be cleared only inside a teardown.
ClearInv ==
    /\ stateLock # NoThread => fallback
    /\ stateLock = NoThread => clearing = {}
    /\ \A t \in Threads : pc[t] \in {"ef_free", "ef_close", "ef_new"} => clearing = {}

\* What the event thread has allocated is on record or gone, and what is about to
\* be cleared is gone, unless a teardown was overtaken.
RecordInv == ~overtaken =>
    /\ pc[Event] = "h_set" => resource[req] \notin live
    /\ pc[Event] \notin {"h_free", "h_set"} => mine \notin live \/ resource[req] = mine
    /\ \A s \in clearing : resource[s] \notin live
    /\ \A h \in live : h = mine \/ \E s \in Services : resource[s] = h

\* While it is calm: in fallback nobody sends or handles a request, and the
\* buffers of a new connection are pushed before the event thread runs.
SilentInv == fallback => \A t \in Threads :
    pc[t] \notin Pushing \cup Sending \cup (Requesting \ {"h_mask"}) \cup {"h_recv"}
AloneInv == pc[Render] \in Pushing => ~eventOn /\ pc[Event] = "idle"
ProducerInv ==
    /\ ~fallback => producer \in {"up", "closed"}
    /\ producer \in {"hello", "ready"} => wire = <<>> /\ expects = "message"
QuietInv == SilentInv /\ AloneInv /\ ProducerInv

\* A service that is asked for was not sent yet, so the gate is closed; who
\* found it open may go on without the lock only while it is open.
GateInv ==
    /\ asks \subseteq asked
    /\ ~fallback =>
        /\ sent \subseteq asked /\ asks \cap sent = {}
        /\ req # None => req \in asked /\ req \notin asks /\ req \notin sent
    /\ \A t \in Threads :
        pc[t] \in {"i_fd", "i_send"} /\ dataLock # t => needsLock = FALSE

\* The handles on record are live and distinct, but the one being replaced and
\* those of a teardown.
HandleInv ==
    /\ \A s \in Services : resource[s] # None =>
        resource[s] \in live \/ (s = req /\ pc[Event] = "h_set") \/ s \in clearing
    /\ \A s, u \in Services : resource[s] # None /\ resource[s] = resource[u] => s = u
    /\ pc[Event] = "h_free" => resource[req] # None
    /\ pc[Event] \in {"h_free", "h_set"} /\ mine # None =>
        mine \in live /\ \A s \in Services : resource[s] # mine
    /\ pc[Event] \in {"h_num", "h_push", "h_lock", "h_r1"} => mine = resource[req]
    /\ pc[Event] \in {"h_lock", "h_r1", "h_r2"} => sending = resource[req]
    /\ pc[Event] = "h_r2" => sending # None
    /\ misuse = {}

\* The descriptors follow their resource event, or are about to.
FrameInv ==
    /\ producer = "up" =>
        /\ \A i \in 1 .. Len(wire) : wire[i] = "resource" =>
            IF i = Len(wire) THEN pc[Event] = "h_r2" ELSE wire[i + 1] = "fds"
        /\ expects = "fds" => IF wire = <<>> THEN pc[Event] = "h_r2" ELSE wire[1] = "fds"
    /\ "fds" \notin split

CalmInv == calm => QuietInv /\ GateInv /\ HandleInv /\ FrameInv

TypeInv == TypeOK /\ PlaceInv

USE DEF Threads, connection, gate, services, stream, peer, locals, history, lifecycle, Inside

-----------------------------------------------------------------------------
(* Typing                                                                  *)

LEMMA TypeInit == Init => TypeInv
<1> SUFFICES ASSUME Init PROVE TypeInv
  OBVIOUS
<1>1. StreamOK
  BY BoundsAssumption DEF Init, StreamOK
<1>2. ConnectionOK
  <2>1. 1 \in 1 .. MaxSession /\ 0 \in 0 .. MaxFaults
    BY BoundsAssumption
  <2> QED BY <2>1 DEF Init, ConnectionOK
<1>3. ServicesOK
  BY DEF Init, ServicesOK
<1>4. ThreadsOK
  BY BoundsAssumption DEF Init, ThreadsOK, Steps
<1>5. PlaceInv
  BY ThreadsAssumption DEF Init, PlaceInv, Teardown, Requesting
<1> QED BY <1>1, <1>2, <1>3, <1>4, <1>5 DEF TypeInv, TypeOK

LEMMA FaultTyped == ASSUME faults \in 0 .. MaxFaults, Fault PROVE faults' \in 0 .. MaxFaults
BY BoundsAssumption DEF Fault

LEMMA ConnectionTyped == ASSUME TypeInv, [Next]_vars PROVE ConnectionOK'
<1> USE DEF TypeInv, TypeOK, ConnectionOK
<1>1. ASSUME NEW t \in Threads, EnterFallback(t) PROVE ConnectionOK'
  <2>1. CASE EfLock(t)
    BY <2>1 DEF EfLock
  <2>2. CASE EfFree(t) \/ EfClear(t) \/ EfClose(t)
    BY <2>2 DEF EfFree, EfClear, EfClose
  <2>3. CASE EfNew(t)
    <3>1. session + 1 \in 1 .. MaxSession
      BY <2>3, BoundsAssumption DEF EfNew, PlaceInv
    <3>2. faults' \in 0 .. MaxFaults
      BY <2>3, FaultTyped DEF EfNew
    <3>3. session' \in {session, session + 1} /\ open' \in BOOLEAN
      BY <2>3 DEF EfNew
    <3> QED BY <2>3, <3>1, <3>2, <3>3 DEF EfNew
  <2>4. CASE EfCallback(t)
    BY <2>4 DEF EfCallback
  <2> QED BY <1>1, <2>1, <2>2, <2>3, <2>4 DEF EnterFallback
<1>2. CASE GoUp
  BY <1>2 DEF GoUp
<1>3. CASE StartEventThread
  BY <1>3 DEF StartEventThread
<1>4. CASE FenceTimeout
  BY <1>4, FaultTyped DEF FenceTimeout
<1>5. ASSUME NEW t \in Threads, Push(t) \/ InputStep(t) PROVE ConnectionOK'
  BY <1>5 DEF Push, InputStep, InputLock, ReadFd, InputSend, Unlock
<1>6. CASE PushBuffers
  BY <1>6 DEF PushBuffers, PushPart, ReadFd
<1>7. CASE EventStep
  <2>1. CASE PollRequest \/ TakeRequest \/ NoRequest \/ Hangup
    BY <2>1 DEF PollRequest, TakeRequest, NoRequest, Hangup
  <2>2. CASE Allocate \/ FreePrevious \/ ReadNumber \/ PushResource \/ ResourceLock
    BY <2>2 DEF Allocate, FreePrevious, ReadNumber, PushResource, ResourceLock
  <2>3. CASE ResourceEvent \/ ResourceFds \/ CountSent
    BY <2>3 DEF ResourceEvent, ResourceFds, CountSent, Unlock
  <2>4. CASE SetResource
    <3>1. overtaken' = overtaken \/ overtaken' = TRUE
      BY <2>4, ZenonT(30) DEF SetResource
    <3>2. /\ UNCHANGED <<fallback, session, open, stateLock, dataLock, eventOn, producer>>
          /\ UNCHANGED <<calm, faults>>
      BY <2>4 DEF SetResource
    <3>3. CASE overtaken' = overtaken
      BY <3>2, <3>3
    <3>4. CASE overtaken' = TRUE
      BY <3>2, <3>4
    <3> QED BY <3>1, <3>3, <3>4
  <2> QED BY <1>7, <2>1, <2>2, <2>3, <2>4 DEF EventStep, Request
<1>8. CASE Grant \/ Close \/ Read
  BY <1>8, FaultTyped DEF Grant, Close, Producer, Read
<1>9. ASSUME NEW s \in Services, Ask(s) PROVE ConnectionOK'
  BY <1>9, FaultTyped DEF Ask
<1>10. CASE SessionsUsedUp \/ NothingReady \/ UNCHANGED vars
  BY <1>10 DEF SessionsUsedUp, NothingReady, vars
<1> QED BY <1>1, <1>2, <1>3, <1>4, <1>5, <1>6, <1>7, <1>8, <1>9, <1>10 DEF Next, RenderStep

LEMMA ServicesTyped == ASSUME TypeInv, [Next]_vars PROVE ServicesOK'
<1> USE DEF TypeInv, TypeOK, ServicesOK
<1>1. ASSUME NEW t \in Threads, EnterFallback(t) PROVE ServicesOK'
  <2>1. CASE EfLock(t)
    BY <2>1 DEF EfLock
  <2>2. CASE EfFree(t)
    BY <2>2 DEF EfFree, Record
  <2>4. CASE EfClear(t)
    BY <2>4 DEF EfClear
  <2>5. CASE EfClose(t) \/ EfCallback(t)
    BY <2>5 DEF EfClose, EfCallback
  <2>3. CASE EfNew(t)
    BY <2>3 DEF EfNew, Arm
  <2> QED BY <1>1, <2>1, <2>2, <2>3, <2>4, <2>5 DEF EnterFallback
<1>2. CASE GoUp
  BY <1>2 DEF GoUp, Arm
<1>3. CASE StartEventThread \/ FenceTimeout \/ PushBuffers
  BY <1>3 DEF StartEventThread, FenceTimeout, PushBuffers, PushPart, ReadFd
<1>4. ASSUME NEW t \in Threads, Push(t) \/ InputStep(t) PROVE ServicesOK'
  BY <1>4 DEF Push, InputStep, InputLock, ReadFd, InputSend
<1>5. CASE PollRequest \/ TakeRequest \/ NoRequest \/ Hangup
  BY <1>5 DEF PollRequest, TakeRequest, NoRequest, Hangup
<1>6. CASE Request
  <2>1. CASE Allocate \/ FreePrevious \/ SetResource
    <3>1. CASE Allocate
      <4>1. req \in Services
        BY <3>1 DEF Allocate, PlaceInv, Requesting
      <4> QED BY <3>1, <4>1 DEF Allocate
    <3>2. CASE FreePrevious
      BY <3>2 DEF FreePrevious, Record
    <3>3. CASE SetResource
      BY <3>3 DEF SetResource
    <3> QED BY <2>1, <3>1, <3>2, <3>3
  <2>2. CASE ReadNumber \/ PushResource
    <3>1. req \in Services
      BY <2>2 DEF ReadNumber, PushResource, PlaceInv, Requesting
    <3> QED BY <2>2, <3>1 DEF ReadNumber, PushResource
  <2>3. CASE ResourceLock \/ ResourceEvent \/ ResourceFds
    BY <2>3 DEF ResourceLock, ResourceEvent, ResourceFds, Record
  <2>4. CASE CountSent
    BY <2>4 DEF CountSent, PlaceInv, Requesting
  <2> QED BY <1>6, <2>1, <2>2, <2>3, <2>4 DEF Request
<1>7. CASE Grant \/ Close \/ Read
  BY <1>7 DEF Grant, Close, Producer, Read
<1>8. ASSUME NEW s \in Services, Ask(s) PROVE ServicesOK'
  BY <1>8 DEF Ask
<1>9. CASE SessionsUsedUp \/ NothingReady \/ UNCHANGED vars
  BY <1>9 DEF SessionsUsedUp, NothingReady, vars
<1> QED BY <1>1, <1>2, <1>3, <1>4, <1>5, <1>6, <1>7, <1>8, <1>9
        DEF Next, RenderStep, EventStep

LEMMA StreamTyped == ASSUME TypeInv, [Next]_vars PROVE StreamOK'
<1> USE DEF TypeInv, TypeOK, StreamOK
<1>1. wire \in Seq(Parts) /\ Len(wire) <= Capacity /\ Capacity \in Nat
  BY BoundsAssumption
<1>2. ASSUME NEW t, NEW part \in Parts, Sends(t, part)
      PROVE  wire' \in Seq(Parts) /\ Len(wire') <= Capacity
  <2>1. PICK kind \in Parts : Len(wire) < Capacity /\ wire' = Append(wire, kind)
    BY <1>2 DEF Sends, Parts
  <2> QED BY <1>1, <2>1
<1>3. ASSUME NEW t, NEW part \in Parts, Sends(t, part) \/ UNCHANGED wire,
             expects' = expects, split' = split
      PROVE  StreamOK'
  BY <1>2, <1>3
<1>4. CASE UNCHANGED stream
  BY <1>4
<1>5. CASE PushBuffers
  BY <1>5, <1>3, <1>4 DEF PushBuffers, PushPart, ReadFd, Parts
<1>6. ASSUME NEW t \in Threads, InputSend(t) PROVE StreamOK'
  BY <1>6, <1>3 DEF InputSend, Parts
<1>7. CASE ResourceEvent \/ ResourceFds
  BY <1>7, <1>3 DEF ResourceEvent, ResourceFds, Parts
<1>8. ASSUME NEW t \in Threads, EfNew(t) PROVE StreamOK'
  BY <1>1, <1>8 DEF EfNew
<1>9. CASE Read
  <2>1. wire # <<>> /\ wire' = Tail(wire)
    BY <1>9 DEF Read
  <2>2. wire' \in Seq(Parts) /\ Len(wire') <= Capacity
    BY <1>1, <2>1
  <2>3. expects' \in {"message", "infos", "fds"} /\ split' \subseteq {"infos", "fds"}
    BY <1>9 DEF Read, Next2
  <2> QED BY <2>2, <2>3
<1>10. CASE GoUp \/ StartEventThread \/ FenceTimeout \/ Push(Render)
  BY <1>4, <1>10 DEF GoUp, StartEventThread, FenceTimeout, Push
<1>11. ASSUME NEW t \in Threads,
              Push(t) \/ InputLock(t) \/ ReadFd(t, "i_send")
              \/ EfLock(t) \/ EfFree(t) \/ EfClear(t) \/ EfClose(t) \/ EfCallback(t)
       PROVE  StreamOK'
  BY <1>4, <1>11 DEF Push, InputLock, ReadFd, EfLock, EfFree, EfClear, EfClose, EfCallback
<1>12. CASE PollRequest \/ TakeRequest \/ NoRequest \/ Hangup \/ Allocate \/ FreePrevious
            \/ SetResource \/ ReadNumber \/ PushResource \/ ResourceLock \/ CountSent
  BY <1>4, <1>12 DEF PollRequest, TakeRequest, NoRequest, Hangup, Allocate, FreePrevious,
                     SetResource, ReadNumber, PushResource, ResourceLock, CountSent
<1>14. CASE Close
  BY <1>1, <1>14 DEF Close, Producer
<1>13. CASE Grant \/ (\E s \in Services : Ask(s))
             \/ SessionsUsedUp \/ NothingReady \/ UNCHANGED vars
  BY <1>4, <1>13 DEF Grant, Producer, Ask, SessionsUsedUp, NothingReady, vars
<1> QED
  BY <1>5, <1>6, <1>7, <1>8, <1>9, <1>10, <1>11, <1>12, <1>13, <1>14
     DEF Next, RenderStep, EventStep, Request, InputStep, EnterFallback

LEMMA ThreadsTyped == ASSUME TypeInv, [Next]_vars PROVE ThreadsOK' /\ PlaceInv'
<1> USE ThreadsAssumption DEF TypeInv, TypeOK, ThreadsOK, Goto, Fallback, Return
<1> DEFINE Moved == ThreadsOK' /\ PlaceInv'
<1>1. ASSUME NEW t \in Threads, EnterFallback(t) PROVE Moved
  <2>1. CASE EfLock(t)
    BY <2>1 DEF EfLock, Steps, PlaceInv, Teardown, Pushing, Sending, Requesting
  <2>2. CASE EfFree(t) \/ EfClear(t) \/ EfClose(t)
    <3>1. \E step \in {"ef_clear", "ef_close", "ef_new"} : pc' = [pc EXCEPT ![t] = step]
      BY <2>2 DEF EfFree, EfClear, EfClose
    <3>2. /\ pc[t] \in Inside
          /\ UNCHANGED <<session, stateLock, ret, fd, req, mine, sending>>
      BY <2>2 DEF EfFree, EfClear, EfClose
    <3> QED BY <3>1, <3>2 DEF Steps, PlaceInv, Teardown, Pushing, Sending, Requesting
  <2>3. CASE EfNew(t)
    BY <2>3 DEF EfNew, Steps, PlaceInv, Teardown, Pushing, Sending, Requesting
  <2>4. CASE EfCallback(t)
    BY <2>4 DEF EfCallback, Steps, PlaceInv, Teardown, Pushing, Sending, Requesting
  <2> QED BY <1>1, <2>1, <2>2, <2>3, <2>4 DEF EnterFallback
<1> USE DEF Steps, PlaceInv, Teardown, Pushing, Sending, Requesting
<1>2. CASE GoUp
  BY <1>2 DEF GoUp
<1>3. CASE StartEventThread \/ FenceTimeout
  BY <1>3 DEF StartEventThread, FenceTimeout
<1>4. CASE PushBuffers
  <2>1. (IF open THEN session ELSE 0) \in 0 .. MaxSession /\ 0 \in 0 .. MaxSession
    BY BoundsAssumption DEF ConnectionOK
  <2>2. CASE pc[Render] = "b1_fd" /\ ReadFd(Render, "b1")
    BY <2>1, <2>2 DEF ReadFd
  <2>3. CASE PushPart("b1", "bufs", "b2_fd")
    BY <2>1, <2>3 DEF PushPart
  <2>4. CASE pc[Render] = "b2_fd" /\ ReadFd(Render, "b2")
    BY <2>1, <2>4 DEF ReadFd
  <2>5. CASE PushPart("b2", "infos", "x_push")
    BY <2>1, <2>5 DEF PushPart
  <2> QED BY <1>4, <2>2, <2>3, <2>4, <2>5 DEF PushBuffers
<1>5. ASSUME NEW t \in Threads, t = Render \/ t \in Inputs, Push(t) PROVE Moved
  BY <1>5 DEF Push
<1>6. ASSUME NEW t \in Threads, InputStep(t) PROVE Moved
  <2>1. (IF open THEN session ELSE 0) \in 0 .. MaxSession /\ 0 \in 0 .. MaxSession
    BY BoundsAssumption DEF ConnectionOK
  <2>2. CASE InputLock(t)
    BY <2>2 DEF InputLock
  <2>3. CASE pc[t] = "i_fd" /\ ReadFd(t, "i_send")
    BY <2>1, <2>3 DEF ReadFd
  <2>4. CASE InputSend(t)
    BY <2>1, <2>4 DEF InputSend
  <2> QED BY <1>6, <2>2, <2>3, <2>4 DEF InputStep
<1>7. CASE TakeRequest
  <2>1. req' # None
    <3>1. PICK s \in asks : req' = s
      BY <1>7 DEF TakeRequest
    <3>2. asks \subseteq Services
      BY DEF ServicesOK
    <3> QED BY <3>1, <3>2, NoneAssumption
  <2> QED BY <1>7, <2>1 DEF TakeRequest
<1>8. CASE PollRequest \/ NoRequest \/ Hangup
  BY <1>8 DEF PollRequest, NoRequest, Hangup
<1>9. CASE Request
  <2>1. (IF open THEN session ELSE 0) \in 0 .. MaxSession /\ 0 \in 0 .. MaxSession
    BY BoundsAssumption DEF ConnectionOK
  <2>2. CASE Allocate
    BY <2>2 DEF Allocate
  <2>3. CASE FreePrevious
    BY <2>3 DEF FreePrevious
  <2>4. CASE SetResource
    BY <2>4 DEF SetResource
  <2>a. CASE ReadNumber
    BY <2>a DEF ReadNumber
  <2>5. CASE PushResource
    BY <2>5 DEF PushResource
  <2>6. CASE ResourceLock
    BY <2>1, <2>6 DEF ResourceLock
  <2>7. CASE ResourceEvent
    <3>1. fd' \in [Threads -> 0 .. MaxSession]
      BY <2>1, <2>7 DEF ResourceEvent
    <3>2. CASE pc' = [pc EXCEPT ![Event] = "ef_lock"] /\ ret' = [ret EXCEPT ![Event] = "h_mask"]
      BY <2>7, <3>1, <3>2 DEF ResourceEvent
    <3>3. CASE ret' = ret /\ (pc' = [pc EXCEPT ![Event] = "h_r2"]
                              \/ pc' = [pc EXCEPT ![Event] = "h_mask"])
      BY <2>7, <3>1, <3>3 DEF ResourceEvent
    <3> QED BY <2>7, <3>2, <3>3 DEF ResourceEvent
  <2>8. CASE ResourceFds
    BY <2>1, <2>8 DEF ResourceFds
  <2>9. CASE CountSent
    BY <2>9 DEF CountSent
  <2> QED BY <1>9, <2>2, <2>3, <2>4, <2>a, <2>5, <2>6, <2>7, <2>8,
               <2>9 DEF Request
<1>10. CASE Grant \/ Close \/ Read
  BY <1>10 DEF Grant, Close, Producer, Read
<1>11. ASSUME NEW s \in Services, Ask(s) PROVE Moved
  BY <1>11 DEF Ask
<1>12. CASE SessionsUsedUp \/ NothingReady \/ UNCHANGED vars
  BY <1>12 DEF SessionsUsedUp, NothingReady, vars
<1> QED
  BY <1>1, <1>2, <1>3, <1>4, <1>5, <1>6, <1>7, <1>8, <1>9, <1>10, <1>11, <1>12
     DEF Next, RenderStep, EventStep

LEMMA TypeStep == ASSUME TypeInv, [Next]_vars PROVE TypeInv'
BY ConnectionTyped, ServicesTyped, StreamTyped, ThreadsTyped DEF TypeInv, TypeOK

LEMMA Typed == Spec => []TypeInv
BY TypeInit, TypeStep, PTL DEF Spec

\* The types hold, and the gate is closed until every service was sent.
THEOREM TypeCorrect == Spec => []TypeOK
<1>1. TypeInv => TypeOK
  BY DEF TypeInv
<1> QED BY <1>1, Typed, PTL

-----------------------------------------------------------------------------
(* The locks                                                               *)

LEMMA LockInit == Init => LockInv
BY ThreadsAssumption DEF Init, LockInv, Holds

LEMMA LockStep == ASSUME TypeInv, LockInv, [Next]_vars PROVE LockInv'
<1> USE ThreadsAssumption DEF LockInv, Holds, Current, Goto, Fallback, Return, TypeInv, TypeOK,
                              ThreadsOK
<1>1. ASSUME NEW t \in Threads, EnterFallback(t) PROVE LockInv'
  <2>1. CASE EfLock(t)
    BY <2>1 DEF EfLock, PlaceInv, Teardown, Pushing, Sending, Requesting
  <2>2. CASE EfFree(t) \/ EfClear(t) \/ EfClose(t)
    <3>1. CASE EfFree(t) \/ EfClear(t)
      <4>1. /\ \E step \in {"ef_clear", "ef_close"} : pc' = [pc EXCEPT ![t] = step]
            /\ pc[t] \in {"ef_free", "ef_clear"}
            /\ UNCHANGED <<fallback, session, open, dataLock, fd>>
        BY <3>1 DEF EfFree, EfClear
      <4> QED BY <4>1
    <3>2. CASE EfClose(t)
      BY <3>2 DEF EfClose
    <3> QED BY <2>2, <3>1, <3>2
  <2>3. CASE EfNew(t)
    BY <2>3 DEF EfNew, PlaceInv
  <2>4. CASE EfCallback(t)
    BY <2>4 DEF EfCallback, PlaceInv, Teardown, Pushing, Sending, Requesting
  <2> QED BY <1>1, <2>1, <2>2, <2>3, <2>4 DEF EnterFallback
<1>2. CASE GoUp
  BY <1>2 DEF GoUp, PlaceInv
<1>3. CASE StartEventThread \/ FenceTimeout
  BY <1>3 DEF StartEventThread, FenceTimeout
<1>4. CASE PushBuffers
  BY <1>4 DEF PushBuffers, PushPart, ReadFd
<1>5. ASSUME NEW t \in Threads, t = Render \/ t \in Inputs, Push(t) PROVE LockInv'
  BY <1>5 DEF Push
<1>6. ASSUME NEW t \in Threads, InputStep(t) PROVE LockInv'
  <2>1. CASE InputLock(t)
    BY <2>1 DEF InputLock
  <2>2. CASE pc[t] = "i_fd" /\ ReadFd(t, "i_send")
    BY <2>2 DEF ReadFd
  <2>3. CASE InputSend(t)
    BY <2>3 DEF InputSend, Unlock, PlaceInv, Teardown, Pushing, Sending, Requesting
  <2> QED BY <1>6, <2>1, <2>2, <2>3 DEF InputStep
<1>7. CASE PollRequest \/ TakeRequest \/ NoRequest \/ Hangup
  BY <1>7 DEF PollRequest, TakeRequest, NoRequest, Hangup
<1>8. CASE Request
  <2>1. CASE Allocate \/ FreePrevious \/ SetResource
    <3>1. /\ pc[Event] \in {"h_alloc", "h_free", "h_set"}
          /\ UNCHANGED <<fallback, session, open, stateLock, dataLock, fd>>
          /\ \E step \in {"h_free", "h_set", "h_num"} : pc' = [pc EXCEPT ![Event] = step]
      BY <2>1 DEF Allocate, FreePrevious, SetResource
    <3> QED BY <3>1
  <2>2. CASE ReadNumber \/ PushResource
    BY <2>2 DEF ReadNumber, PushResource
  <2>3. CASE ResourceLock
    BY <2>3 DEF ResourceLock
  <2>4. CASE ResourceEvent
    BY <2>4 DEF ResourceEvent, Unlock, Sends
  <2>5. CASE ResourceFds
    BY <2>5 DEF ResourceFds, Unlock
  <2>6. CASE CountSent
    BY <2>6 DEF CountSent
  <2> QED BY <1>8, <2>1, <2>2, <2>3, <2>4, <2>5, <2>6 DEF Request
<1>9. CASE Grant \/ Close \/ Read
  BY <1>9 DEF Grant, Close, Producer, Read
<1>10. ASSUME NEW s \in Services, Ask(s) PROVE LockInv'
  BY <1>10 DEF Ask
<1>11. CASE SessionsUsedUp \/ NothingReady \/ UNCHANGED vars
  BY <1>11 DEF SessionsUsedUp, NothingReady, vars
<1> QED
  BY <1>1, <1>2, <1>3, <1>4, <1>5, <1>6, <1>7, <1>8, <1>9, <1>10, <1>11
     DEF Next, RenderStep, EventStep

LEMMA Locked == Spec => []LockInv
BY LockInit, LockStep, Typed, PTL DEF Spec

\* data_lock keeps the descriptor that a writer read under it.
THEOREM LockIsEnough == Spec => []LockKeepsSocket
<1>1. LockInv => LockKeepsSocket
  BY DEF LockInv, Holds, LockKeepsSocket
<1> QED BY <1>1, Locked, PTL

-----------------------------------------------------------------------------
(* The resources                                                           *)

LEMMA ClearStep == ASSUME TypeInv, ClearInv, [Next]_vars PROVE ClearInv'
<1> USE ThreadsAssumption DEF ClearInv, Goto, Fallback, Return, TypeInv, TypeOK, ThreadsOK
<1>1. ASSUME NEW t \in Threads, EnterFallback(t) PROVE ClearInv'
  <2>1. CASE EfLock(t)
    BY <2>1 DEF EfLock
  <2>2. CASE EfFree(t) \/ EfClear(t) \/ EfClose(t)
    BY <2>2 DEF EfFree, EfClear, EfClose, PlaceInv
  <2>3. CASE EfNew(t)
    BY <2>3 DEF EfNew
  <2>4. CASE EfCallback(t)
    BY <2>4 DEF EfCallback, PlaceInv
  <2> QED BY <1>1, <2>1, <2>2, <2>3, <2>4 DEF EnterFallback
<1>2. CASE GoUp \/ StartEventThread \/ FenceTimeout \/ PushBuffers
  BY <1>2 DEF GoUp, StartEventThread, FenceTimeout, PushBuffers, PushPart, ReadFd
<1>3. ASSUME NEW t \in Threads, Push(t) \/ InputStep(t) PROVE ClearInv'
  BY <1>3 DEF Push, InputStep, InputLock, ReadFd, InputSend, PlaceInv, Teardown
<1>4. CASE EventStep
  <2>1. CASE PollRequest \/ TakeRequest \/ NoRequest \/ Hangup
    BY <2>1 DEF PollRequest, TakeRequest, NoRequest, Hangup
  <2>2. CASE Allocate \/ FreePrevious \/ SetResource \/ ReadNumber \/ PushResource
    BY <2>2 DEF Allocate, FreePrevious, SetResource, ReadNumber, PushResource
  <2>3. CASE ResourceLock \/ ResourceEvent \/ ResourceFds \/ CountSent
    BY <2>3 DEF ResourceLock, ResourceEvent, ResourceFds, CountSent
  <2> QED BY <1>4, <2>1, <2>2, <2>3 DEF EventStep, Request
<1>5. CASE Grant \/ Close \/ Read \/ \E s \in Services : Ask(s)
  BY <1>5 DEF Grant, Close, Producer, Read, Ask
<1>6. CASE SessionsUsedUp \/ NothingReady \/ UNCHANGED vars
  BY <1>6 DEF SessionsUsedUp, NothingReady, vars
<1> QED BY <1>1, <1>2, <1>3, <1>4, <1>5, <1>6 DEF Next, RenderStep

LEMMA Cleared == Spec => []ClearInv
<1>1. Init => ClearInv
  BY DEF Init, ClearInv
<1> QED BY <1>1, ClearStep, Typed, PTL DEF Spec

LEMMA RecordInit == Init => RecordInv
BY DEF Init, RecordInv

\* Nothing is allocated or freed, and the event thread does not come to such a step.
LEMMA RecordKept ==
    ASSUME TypeInv, RecordInv, UNCHANGED <<resource, live, clearing, mine, overtaken>>,
           \/ pc'[Event] = pc[Event] /\ req' = req
           \/ pc'[Event] \notin {"h_free", "h_set"} /\ mine = None
           \/ /\ pc[Event] \notin {"h_free", "h_set"} /\ pc'[Event] \notin {"h_free", "h_set"}
              /\ req' = req
    PROVE  RecordInv'
<1>1. None \notin live
  BY NoneAssumption DEF TypeInv, TypeOK, ServicesOK
<1> QED BY <1>1 DEF RecordInv

LEMMA RecordStep == ASSUME TypeInv, RecordInv, [Next]_vars PROVE RecordInv'
<1> USE ThreadsAssumption, NoneAssumption DEF Goto, Fallback, Return, TypeInv, TypeOK, ThreadsOK
<1>0. /\ req \in Services \cup {None} /\ live \subseteq Handles /\ None \notin live
      /\ resource \in [Services -> Handles \cup {None}] /\ clearing \subseteq Services
  BY DEF ServicesOK
<1>1. ASSUME NEW t \in Threads, EnterFallback(t) PROVE RecordInv'
  <2>1. CASE EfLock(t) \/ EfClose(t) \/ EfNew(t) \/ EfCallback(t)
    <3>1. /\ UNCHANGED <<resource, live, clearing, mine, overtaken, req>>
          /\ pc[t] \in Teardown /\ pc' = [pc EXCEPT ![t] = pc'[t]]
          /\ pc'[t] \in Teardown \cup {"idle", "x_push", "x_start", "h_mask"}
      BY <2>1 DEF EfLock, EfClose, EfNew, EfCallback, Teardown
    <3> QED BY <3>1, RecordKept DEF Teardown
  <2>2. CASE EfFree(t)
    <3>1. /\ pc'[Event] = pc[Event] \/ (t = Event /\ pc'[Event] \in {"ef_clear", "ef_close"})
          /\ t = Event => pc[Event] = "ef_free"
          /\ clearing' = {s \in Services : resource[s] # None}
          /\ live' = live \ {resource[s] : s \in clearing'}
          /\ UNCHANGED <<resource, mine, req, overtaken>>
      BY <2>2 DEF EfFree
    <3>2. \A h \in live' : h \in live /\ \A s \in Services : resource[s] # h
      BY <1>0, <3>1
    <3>3. \A h \in live' : ~overtaken => h = mine
      BY <3>2 DEF RecordInv
    <3>4. pc[Event] \in {"h_free", "h_set"} => req \in Services
      BY <1>0 DEF PlaceInv, Requesting
    <3>5. mine # None /\ pc[Event] \notin {"h_free", "h_set"} => req \in Services
      BY <1>0 DEF PlaceInv, Requesting
    <3> QED BY <1>0, <3>1, <3>2, <3>3, <3>4, <3>5 DEF RecordInv
  <2>3. CASE EfClear(t)
    <3>1. /\ pc'[Event] = pc[Event] \/ (t = Event /\ pc'[Event] = "ef_close")
          /\ t = Event => pc[Event] = "ef_clear"
          /\ resource' = [s \in Services |-> IF s \in clearing THEN None ELSE resource[s]]
          /\ clearing' = {} /\ UNCHANGED <<live, mine, req, overtaken>>
      BY <2>3 DEF EfClear
    <3>2. ~overtaken => \A s \in Services : resource[s] \in live => resource'[s] = resource[s]
      BY <1>0, <3>1 DEF RecordInv
    <3>3. \A s \in Services : resource'[s] \in live => resource'[s] = resource[s]
      BY <1>0, <3>1
    <3>4. pc[Event] = "h_set" => req \in Services
      BY <1>0 DEF PlaceInv, Requesting
    <3>5. mine # None /\ pc[Event] \notin {"h_free", "h_set"} => req \in Services
      BY <1>0 DEF PlaceInv, Requesting
    <3> QED BY <1>0, <3>1, <3>2, <3>3, <3>4, <3>5 DEF RecordInv
  <2> QED BY <1>1, <2>1, <2>2, <2>3 DEF EnterFallback
<1>2. CASE GoUp \/ StartEventThread \/ FenceTimeout \/ PushBuffers
  BY <1>2, RecordKept DEF GoUp, StartEventThread, FenceTimeout, PushBuffers, PushPart, ReadFd
<1>3. ASSUME NEW t \in Threads, t = Render \/ t \in Inputs, Push(t) PROVE RecordInv'
  BY <1>3, RecordKept DEF Push
<1>4. ASSUME NEW t \in Threads, InputStep(t) PROVE RecordInv'
  <2>1. t # Event
    BY <1>4 DEF InputStep, InputLock, InputSend, PlaceInv, Teardown, Requesting
  <2> QED BY <1>4, <2>1, RecordKept DEF InputStep, InputLock, ReadFd, InputSend
<1>5. CASE PollRequest \/ TakeRequest \/ NoRequest \/ Hangup
  <2>1. mine = None
    BY <1>5 DEF PollRequest, TakeRequest, NoRequest, Hangup, PlaceInv
  <2>2. /\ UNCHANGED <<resource, live, clearing, mine, overtaken>>
        /\ pc'[Event] \in {"h_recv", "h_alloc", "idle", "ef_lock"}
    BY <1>5 DEF PollRequest, TakeRequest, NoRequest, Hangup
  <2> QED BY <2>1, <2>2, RecordKept
<1>6. CASE Request
  <2>1. CASE Allocate
    <3>1. mine = None /\ req \in Services
      BY <1>0, <2>1 DEF Allocate, PlaceInv, Requesting
    <3>2. PICK h \in (Handles \ (live \cup {resource[s] : s \in Services})) \cup {None} :
            mine' = h /\ live' = live \cup ({h} \ {None})
      BY <2>1 DEF Allocate
    <3>3. /\ pc'[Event] = (IF resource[req] = None THEN "h_set" ELSE "h_free")
          /\ UNCHANGED <<resource, clearing, req, overtaken>> /\ pc[Event] = "h_alloc"
      BY <2>1 DEF Allocate
    <3>4. \A s \in Services : resource[s] \in live' => resource[s] \in live
      BY <1>0, <3>2
    <3> QED BY <1>0, <3>1, <3>2, <3>3, <3>4 DEF RecordInv
  <2>2. CASE FreePrevious
    BY <1>0, <2>2 DEF FreePrevious, RecordInv
  <2>3. CASE SetResource
    <3>1. /\ pc[Event] = "h_set" /\ pc'[Event] = "h_num" /\ req \in Services
          /\ resource' = [resource EXCEPT ![req] = mine]
          /\ UNCHANGED <<live, clearing, mine, req>>
          /\ overtaken' = (overtaken \/ (mine # None /\ req \in clearing))
      BY <1>0, <2>3 DEF SetResource, PlaceInv, Requesting
    <3>2. SUFFICES ASSUME ~overtaken, ~(mine # None /\ req \in clearing) PROVE RecordInv'
      BY <3>1 DEF RecordInv
    <3> QED BY <1>0, <3>1, <3>2 DEF RecordInv
  <2>4. CASE ReadNumber
    <3>1. req \in Services
      BY <1>0, <2>4 DEF ReadNumber, PlaceInv, Requesting
    <3> QED BY <1>0, <2>4, <3>1 DEF ReadNumber, RecordInv
  <2>5. CASE PushResource \/ ResourceEvent
    <3>1. /\ pc[Event] \in {"h_push", "h_r1"} /\ req \in Services
          /\ pc'[Event] \in {"h_mask", "h_lock", "h_r2", "ef_lock"}
          /\ mine' \in {mine, None} /\ UNCHANGED <<resource, live, clearing, req, overtaken>>
      BY <1>0, <2>5 DEF PushResource, ResourceEvent, PlaceInv, Requesting
    <3> QED BY <1>0, <3>1 DEF RecordInv
  <2>6. CASE ResourceLock
    BY <2>6, RecordKept DEF ResourceLock
  <2>7. CASE ResourceFds
    BY <2>7, RecordKept DEF ResourceFds
  <2>8. CASE CountSent
    BY <2>8, RecordKept DEF CountSent, PlaceInv
  <2> QED BY <1>6, <2>1, <2>2, <2>3, <2>4, <2>5, <2>6, <2>7, <2>8 DEF Request
<1>8. CASE Grant \/ Close \/ Read
  BY <1>8, RecordKept DEF Grant, Close, Producer, Read
<1>9. ASSUME NEW s \in Services, Ask(s) PROVE RecordInv'
  BY <1>9, RecordKept DEF Ask
<1>10. CASE SessionsUsedUp \/ NothingReady \/ UNCHANGED vars
  BY <1>10, RecordKept DEF SessionsUsedUp, NothingReady, vars
<1> QED
  BY <1>1, <1>2, <1>3, <1>4, <1>5, <1>6, <1>8, <1>9, <1>10 DEF Next, RenderStep, EventStep

\* No handle is lost, unless one was stored while a teardown was between freeing
\* what was on record and clearing the record.
THEOREM NoHandleLost == Spec => []ResourcesOnRecord
<1>1. RecordInv => ResourcesOnRecord
  BY DEF RecordInv, ResourcesOnRecord
<1>2. Spec => []RecordInv
  BY RecordInit, RecordStep, Typed, PTL DEF Spec
<1> QED BY <1>1, <1>2, PTL

-----------------------------------------------------------------------------
(* While it is calm                                                        *)

LEMMA CalmInit == Init => CalmInv
BY ThreadsAssumption
   DEF Init, CalmInv, QuietInv, SilentInv, AloneInv, ProducerInv, GateInv, HandleInv, FrameInv,
       Pushing, Sending, Requesting

LEMMA CalmBefore == ASSUME TypeInv, [Next]_vars, calm' PROVE calm
<1>1. calm \in BOOLEAN
  BY DEF TypeInv, TypeOK, ConnectionOK
<1>2. ASSUME NEW t \in Threads, EnterFallback(t) \/ InputStep(t) \/ Push(t) PROVE calm
  BY <1>1, <1>2 DEF EnterFallback, EfLock, EfFree, EfClear, EfClose, EfNew, EfCallback,
                    InputStep, InputLock,
                    ReadFd, InputSend, Push
<1>3. CASE GoUp \/ PushBuffers \/ StartEventThread \/ FenceTimeout
  BY <1>1, <1>3 DEF GoUp, PushBuffers, PushPart, ReadFd, StartEventThread, FenceTimeout
<1>4. CASE EventStep
  BY <1>1, <1>4 DEF EventStep, PollRequest, TakeRequest, NoRequest, Hangup, Request, Allocate,
                    FreePrevious,
        SetResource, ReadNumber, PushResource, ResourceLock, ResourceEvent, ResourceFds, CountSent
<1>5. CASE Grant \/ Close \/ Read \/ (\E s \in Services : Ask(s))
  BY <1>1, <1>5 DEF Grant, Close, Producer, Read, Ask
<1>6. CASE SessionsUsedUp \/ NothingReady \/ UNCHANGED vars
  BY <1>6 DEF SessionsUsedUp, NothingReady, vars
<1> QED BY <1>2, <1>3, <1>4, <1>5, <1>6 DEF Next, RenderStep

LEMMA SilentStep == ASSUME TypeInv, QuietInv, [Next]_vars, calm' PROVE SilentInv'
<1> USE ThreadsAssumption
    DEF QuietInv, SilentInv, Goto, Fallback, Return, TypeInv, TypeOK, ThreadsOK, Pushing,
        Sending, Requesting
<1>1. ASSUME NEW t \in Threads, EnterFallback(t) PROVE SilentInv'
  <2>1. CASE EfLock(t)
    <3>1. CASE fallback /\ Return(t)
      <4>1. ret[t] \in {"idle", "x_push", "x_start", "h_mask"}
        OBVIOUS
      <4> QED BY <3>1, <4>1
    <3>2. CASE ~fallback
      <4>1. \A u \in Threads \ {t} : pc[u] \in {"idle", "ef_lock"}
        BY <2>1, <3>2 DEF EfLock
      <4>2. pc' = [pc EXCEPT ![t] = "ef_free"]
        BY <2>1, <3>2 DEF EfLock
      <4> QED BY <4>1, <4>2
    <3> QED BY <2>1, <3>1, <3>2 DEF EfLock
  <2>2. CASE EfFree(t) \/ EfClear(t) \/ EfClose(t)
    BY <2>2 DEF EfFree, EfClear, EfClose
  <2>3. CASE EfNew(t)
    BY <2>3 DEF EfNew
  <2>4. CASE EfCallback(t)
    BY <2>4 DEF EfCallback, PlaceInv, Teardown
  <2> QED BY <1>1, <2>1, <2>2, <2>3, <2>4 DEF EnterFallback
<1>2. CASE GoUp
  BY <1>2 DEF GoUp
<1>3. CASE StartEventThread \/ FenceTimeout
  BY <1>3 DEF StartEventThread, FenceTimeout
<1>4. CASE PushBuffers
  BY <1>4 DEF PushBuffers, PushPart, ReadFd
<1>5. ASSUME NEW t \in Threads, t = Render \/ t \in Inputs, Push(t) PROVE SilentInv'
  BY <1>5 DEF Push
<1>6. ASSUME NEW t \in Threads, InputStep(t) PROVE SilentInv'
  BY <1>6 DEF InputStep, InputLock, ReadFd, InputSend
<1>7. CASE PollRequest \/ TakeRequest \/ NoRequest \/ Hangup
  BY <1>7 DEF PollRequest, TakeRequest, NoRequest, Hangup
<1>8. CASE Request
  BY <1>8 DEF Request, Allocate, FreePrevious, SetResource, ReadNumber, PushResource, ResourceLock,
              ResourceEvent, ResourceFds, CountSent
<1>9. CASE Grant \/ Close \/ Read
  BY <1>9 DEF Grant, Close, Producer, Read
<1>10. ASSUME NEW s \in Services, Ask(s) PROVE SilentInv'
  BY <1>10 DEF Ask
<1>11. CASE SessionsUsedUp \/ NothingReady \/ UNCHANGED vars
  BY <1>11 DEF SessionsUsedUp, NothingReady, vars
<1> QED
  BY <1>1, <1>2, <1>3, <1>4, <1>5, <1>6, <1>7, <1>8, <1>9, <1>10, <1>11
     DEF Next, RenderStep, EventStep

LEMMA AloneStep == ASSUME TypeInv, QuietInv, [Next]_vars, calm' PROVE AloneInv'
<1> USE ThreadsAssumption DEF QuietInv, AloneInv, Goto, Fallback, Return, TypeInv, TypeOK,
                              ThreadsOK, Pushing
<1>1. ASSUME NEW t \in Threads, EnterFallback(t) PROVE AloneInv'
  <2>1. CASE EfLock(t)
    BY <2>1 DEF EfLock, PlaceInv, Teardown
  <2>2. CASE EfFree(t) \/ EfClear(t) \/ EfClose(t)
    BY <2>2 DEF EfFree, EfClear, EfClose
  <2>3. CASE EfNew(t)
    BY <2>3 DEF EfNew
  <2>4. CASE EfCallback(t)
    BY <2>4 DEF EfCallback, PlaceInv, Teardown
  <2> QED BY <1>1, <2>1, <2>2, <2>3, <2>4 DEF EnterFallback
<1>2. CASE GoUp
  <2>1. eventOn' = eventOn /\ eventOn = FALSE /\ pc'[Event] = "idle"
    BY <1>2 DEF GoUp, ConnectionOK
  <2> QED BY <2>1
<1>3. CASE StartEventThread \/ FenceTimeout
  BY <1>3 DEF StartEventThread, FenceTimeout
<1>4. CASE PushBuffers
  BY <1>4 DEF PushBuffers, PushPart, ReadFd
<1>5. ASSUME NEW t \in Threads, t = Render \/ t \in Inputs, Push(t) PROVE AloneInv'
  BY <1>5 DEF Push
<1>6. ASSUME NEW t \in Threads, InputStep(t) PROVE AloneInv'
  BY <1>6 DEF InputStep, InputLock, ReadFd, InputSend, PlaceInv, Teardown
<1>7. CASE PollRequest \/ TakeRequest \/ NoRequest \/ Hangup
  BY <1>7 DEF PollRequest, TakeRequest, NoRequest, Hangup
<1>8. CASE Request
  BY <1>8 DEF Request, Allocate, FreePrevious, SetResource, ReadNumber, PushResource, ResourceLock,
              ResourceEvent, ResourceFds, CountSent
<1>9. CASE Grant \/ Close \/ Read
  BY <1>9 DEF Grant, Close, Producer, Read
<1>10. ASSUME NEW s \in Services, Ask(s) PROVE AloneInv'
  BY <1>10 DEF Ask
<1>11. CASE SessionsUsedUp \/ NothingReady \/ UNCHANGED vars
  BY <1>11 DEF SessionsUsedUp, NothingReady, vars
<1> QED
  BY <1>1, <1>2, <1>3, <1>4, <1>5, <1>6, <1>7, <1>8, <1>9, <1>10, <1>11
     DEF Next, RenderStep, EventStep

\* Who sends does so in a connection, since it is silent in fallback.
LEMMA SendsUp == ASSUME SilentInv, ProducerInv, NEW t \in Threads,
                        pc[t] \in Pushing \cup Sending \cup (Requesting \ {"h_mask"})
                 PROVE  producer \notin {"hello", "ready"}
BY DEF SilentInv, ProducerInv

LEMMA ProducerStep == ASSUME TypeInv, LockInv, QuietInv, [Next]_vars, calm' PROVE ProducerInv'
<1> USE ThreadsAssumption DEF QuietInv, ProducerInv, TypeInv, TypeOK
<1>1. ASSUME NEW t \in Threads, EnterFallback(t) PROVE ProducerInv'
  <2>1. CASE EfLock(t)
    BY <2>1 DEF EfLock
  <2>2. CASE EfFree(t) \/ EfClear(t) \/ EfClose(t) \/ EfCallback(t)
    BY <2>2 DEF EfFree, EfClear, EfClose, EfCallback
  <2>3. CASE EfNew(t)
    BY <2>3 DEF EfNew, LockInv, Holds
  <2> QED BY <1>1, <2>1, <2>2, <2>3 DEF EnterFallback
<1>2. CASE GoUp
  BY <1>2 DEF GoUp
<1>3. CASE StartEventThread \/ FenceTimeout
  BY <1>3 DEF StartEventThread, FenceTimeout
<1>4. CASE PushBuffers
  <2>1. producer' = producer /\ fallback' = fallback /\ producer \notin {"hello", "ready"}
    BY <1>4, SendsUp DEF PushBuffers, PushPart, ReadFd, Pushing
  <2> QED BY <2>1
<1>5. ASSUME NEW t \in Threads, t = Render \/ t \in Inputs, Push(t) PROVE ProducerInv'
  BY <1>5 DEF Push
<1>6. ASSUME NEW t \in Threads, InputStep(t) PROVE ProducerInv'
  <2>1. producer' = producer /\ fallback' = fallback /\ producer \notin {"hello", "ready"}
    BY <1>6, SendsUp DEF InputStep, InputLock, ReadFd, InputSend, Sending
  <2> QED BY <2>1
<1>7. CASE PollRequest \/ TakeRequest \/ NoRequest \/ Hangup
  BY <1>7 DEF PollRequest, TakeRequest, NoRequest, Hangup
<1>8. CASE Request
  <2>1. CASE ResourceEvent \/ ResourceFds
    <3>1. producer' = producer /\ fallback' = fallback /\ producer \notin {"hello", "ready"}
      BY <2>1, SendsUp DEF ResourceEvent, ResourceFds, Requesting
    <3> QED BY <3>1
  <2>2. CASE Allocate \/ FreePrevious \/ SetResource \/ ReadNumber \/ PushResource \/ ResourceLock \/ CountSent
    BY <2>2 DEF Allocate, FreePrevious, SetResource, ReadNumber, PushResource, ResourceLock,
                CountSent
  <2> QED BY <1>8, <2>1, <2>2 DEF Request
<1>9. CASE Grant \/ Close \/ Read
  BY <1>9 DEF Grant, Close, Producer, Read
<1>10. ASSUME NEW s \in Services, Ask(s) PROVE ProducerInv'
  BY <1>10 DEF Ask
<1>11. CASE SessionsUsedUp \/ NothingReady \/ UNCHANGED vars
  BY <1>11 DEF SessionsUsedUp, NothingReady, vars
<1> QED
  BY <1>1, <1>2, <1>3, <1>4, <1>5, <1>6, <1>7, <1>8, <1>9, <1>10, <1>11
     DEF Next, RenderStep, EventStep

LEMMA GateStep == ASSUME TypeInv, LockInv, QuietInv, GateInv, [Next]_vars, calm' PROVE GateInv'
<1> USE ThreadsAssumption DEF GateInv, Goto, Fallback, Return, TypeInv, TypeOK, ThreadsOK
<1>0. calm
  BY CalmBefore
<1>1. ASSUME NEW t \in Threads, EnterFallback(t) PROVE GateInv'
  <2>1. CASE EfLock(t)
    BY <2>1 DEF EfLock, PlaceInv, Teardown
  <2>2. CASE EfFree(t) \/ EfClear(t) \/ EfClose(t)
    BY <2>2 DEF EfFree, EfClear, EfClose
  <2>3. CASE EfNew(t)
    BY <2>3 DEF EfNew, LockInv, Holds, QuietInv, SilentInv, Sending
  <2>4. CASE EfCallback(t)
    BY <2>4 DEF EfCallback, PlaceInv, Teardown
  <2> QED BY <1>1, <2>1, <2>2, <2>3, <2>4 DEF EnterFallback
<1>2. CASE GoUp
  <2>1. /\ \A t \in Threads : pc'[t] \notin {"i_fd", "i_send"}
        /\ pc[Event] = "idle" /\ req' = req /\ sent' = {} /\ UNCHANGED <<asks, asked>>
    BY <1>0, <1>2 DEF GoUp, Arm
  <2> QED BY <2>1 DEF PlaceInv, Requesting, Teardown
<1>3. CASE StartEventThread \/ FenceTimeout \/ PushBuffers
  BY <1>3 DEF StartEventThread, FenceTimeout, PushBuffers, PushPart, ReadFd
<1>4. ASSUME NEW t \in Threads, t = Render \/ t \in Inputs, Push(t) PROVE GateInv'
  BY <1>4 DEF Push, ServicesOK
<1>5. ASSUME NEW t \in Threads, InputStep(t) PROVE GateInv'
  <2>1. CASE InputLock(t)
    BY <2>1 DEF InputLock
  <2>2. CASE pc[t] = "i_fd" /\ ReadFd(t, "i_send")
    BY <2>2 DEF ReadFd
  <2>3. CASE InputSend(t)
    BY <2>3 DEF InputSend, PlaceInv, Teardown, Unlock
  <2> QED BY <1>5, <2>1, <2>2, <2>3 DEF InputStep
<1>6. CASE PollRequest \/ TakeRequest \/ NoRequest \/ Hangup
  BY <1>6 DEF PollRequest, TakeRequest, NoRequest, Hangup, ServicesOK
<1>7. CASE Request
  <2>1. CASE Allocate \/ FreePrevious \/ SetResource
    BY <2>1 DEF Allocate, FreePrevious, SetResource
  <2>2. CASE ReadNumber \/ PushResource \/ ResourceLock
    BY <2>2 DEF ReadNumber, PushResource, ResourceLock
  <2>3. CASE ResourceEvent \/ ResourceFds
    BY <2>3 DEF ResourceEvent, ResourceFds, Unlock
  <2>4. CASE CountSent
    BY <2>4 DEF CountSent, PlaceInv, Requesting
  <2> QED BY <1>7, <2>1, <2>2, <2>3, <2>4 DEF Request
<1>8. CASE Grant \/ Close \/ Read
  BY <1>8 DEF Grant, Close, Producer, Read
<1>9. ASSUME NEW s \in Services, Ask(s) PROVE GateInv'
  BY <1>0, <1>9 DEF Ask
<1>10. CASE SessionsUsedUp \/ NothingReady \/ UNCHANGED vars
  BY <1>10 DEF SessionsUsedUp, NothingReady, vars
<1> QED
  BY <1>1, <1>2, <1>3, <1>4, <1>5, <1>6, <1>7, <1>8, <1>9, <1>10
     DEF Next, RenderStep, EventStep

LEMMA HandleStep ==
    ASSUME TypeInv, LockInv, ClearInv, QuietInv, HandleInv, [Next]_vars, calm'
    PROVE  HandleInv'
<1> USE ThreadsAssumption, NoneAssumption DEF Goto, Fallback, Return, TypeInv, TypeOK, ThreadsOK
<1>0. calm
  BY CalmBefore
\* Whoever is in a request is up, so that nothing is about to be cleared.
<1>a. pc[Event] \in Requesting \ {"h_mask"} => ~fallback /\ clearing = {}
  BY DEF QuietInv, SilentInv, ClearInv
<1>1. ASSUME UNCHANGED <<resource, live, clearing, misuse>>,
             \/ pc'[Event] = pc[Event] /\ UNCHANGED <<mine, sending, req>>
             \/ /\ pc[Event] # "h_set"
                /\ pc'[Event] \notin {"h_free", "h_set", "h_num", "h_push", "h_lock", "h_r1",
                                      "h_r2"}
      PROVE  HandleInv'
  BY <1>1 DEF HandleInv
<1>2. ASSUME NEW t \in Threads, EnterFallback(t) PROVE HandleInv'
  <2>1. CASE EfLock(t) \/ EfClose(t) \/ EfNew(t) \/ EfCallback(t)
    <3>1. /\ UNCHANGED <<resource, live, clearing, misuse, mine, sending, req>>
          /\ pc[t] \in Teardown /\ pc' = [pc EXCEPT ![t] = pc'[t]]
          /\ pc'[t] \in Teardown \cup {"idle", "x_push", "x_start", "h_mask"}
      BY <2>1 DEF EfLock, EfClose, EfNew, EfCallback, Teardown
    <3> QED BY <1>1, <3>1 DEF Teardown
  <2>2. CASE EfFree(t) \/ EfClear(t)
    <3>1. pc[t] \in Inside /\ fallback
      BY <2>2 DEF EfFree, EfClear, LockInv, Holds
    <3>2. pc[Event] \notin Requesting \ {"h_mask"}
      BY <3>1 DEF QuietInv, SilentInv
    <3>3. /\ pc'[Event] = pc[Event] \/ pc'[Event] \in {"ef_clear", "ef_close"}
          /\ UNCHANGED <<mine, sending, req>>
      BY <2>2 DEF EfFree, EfClear
    <3>4. CASE EfFree(t)
      <4>1. clearing = {}
        BY <3>4 DEF EfFree, ClearInv
      <4>2. \A s \in Services : resource[s] # None => resource[s] \in live
        BY <3>2, <4>1 DEF HandleInv, Requesting
      <4>3. clearing' = {s \in Services : resource[s] # None} /\ UNCHANGED resource
        BY <3>4 DEF EfFree
      <4>4. misuse' = {}
        <5>1. {resource[s] : s \in clearing'} \subseteq live
          BY <4>2, <4>3
        <5>2. misuse = {}
          BY DEF HandleInv
        <5> QED BY <3>4, <5>1, <5>2 DEF EfFree, Record
      <4> QED BY <3>2, <3>3, <4>3, <4>4 DEF HandleInv, Requesting
    <3>5. CASE EfClear(t)
      <4>1. /\ resource' = [s \in Services |-> IF s \in clearing THEN None ELSE resource[s]]
            /\ clearing' = {} /\ UNCHANGED <<live, misuse>>
        BY <3>5 DEF EfClear
      <4> QED BY <3>2, <3>3, <4>1 DEF HandleInv, Requesting
    <3> QED BY <2>2, <3>4, <3>5
  <2> QED BY <1>2, <2>1, <2>2 DEF EnterFallback
<1>3. CASE GoUp \/ StartEventThread \/ FenceTimeout \/ PushBuffers
  BY <1>1, <1>3 DEF GoUp, StartEventThread, FenceTimeout, PushBuffers, PushPart, ReadFd
<1>4. ASSUME NEW t \in Threads, t = Render \/ t \in Inputs, Push(t) PROVE HandleInv'
  BY <1>1, <1>4 DEF Push
<1>5. ASSUME NEW t \in Threads, InputStep(t) PROVE HandleInv'
  <2>1. t # Event
    BY <1>5 DEF InputStep, InputLock, InputSend, PlaceInv, Teardown, Requesting
  <2> QED BY <1>1, <1>5, <2>1 DEF InputStep, InputLock, ReadFd, InputSend
<1>6. CASE PollRequest \/ TakeRequest \/ NoRequest \/ Hangup
  <2>1. /\ UNCHANGED <<resource, live, clearing, misuse>> /\ pc[Event] \in {"idle", "h_recv"}
        /\ pc'[Event] \in {"h_recv", "h_alloc", "idle", "ef_lock"}
    BY <1>6 DEF PollRequest, TakeRequest, NoRequest, Hangup
  <2> QED BY <1>1, <2>1
<1>8. CASE Request
  <2>0. /\ req \in Services \cup {None} /\ live \subseteq Handles
        /\ resource \in [Services -> Handles \cup {None}]
    BY DEF ServicesOK
  <2>a. pc[Event] \in Requesting => req \in Services
    BY <2>0 DEF PlaceInv
  <2>1. CASE Allocate
    <3>1. PICK h \in (Handles \ (live \cup {resource[s] : s \in Services})) \cup {None} :
            mine' = h /\ live' = live \cup ({h} \ {None})
      BY <2>1 DEF Allocate
    <3>2. h # None => h \in live' /\ \A s \in Services : resource[s] # h
      BY <3>1
    <3>3. UNCHANGED <<resource, clearing, misuse, req>> /\ pc[Event] = "h_alloc"
      BY <2>1 DEF Allocate
    <3>4. pc'[Event] = IF resource[req] = None THEN "h_set" ELSE "h_free"
      BY <2>1 DEF Allocate
    <3> QED BY <3>1, <3>2, <3>3, <3>4 DEF HandleInv
  <2>2. CASE FreePrevious
    <3>1. /\ live' = live \ {resource[req]} /\ UNCHANGED <<resource, clearing, mine, req>>
          /\ pc[Event] = "h_free" /\ pc'[Event] = "h_set"
      BY <2>2 DEF FreePrevious
    <3>2. req \in Services /\ resource[req] # None /\ resource[req] \in live
      BY <1>a, <2>a, <3>1 DEF HandleInv, Requesting
    <3>3. misuse' = {}
      BY <2>2, <3>2 DEF FreePrevious, Record, HandleInv
    <3> QED BY <3>1, <3>2, <3>3 DEF HandleInv
  <2>3. CASE SetResource
    <3>1. req \in Services
      BY <2>a, <2>3 DEF SetResource, Requesting
    <3> QED BY <2>0, <2>3, <3>1 DEF SetResource, HandleInv
  <2>4. CASE ReadNumber
    BY <2>4 DEF ReadNumber, HandleInv
  <2>5. CASE PushResource
    BY <2>5 DEF PushResource, HandleInv
  <2>6. CASE ResourceLock
    BY <2>6 DEF ResourceLock, HandleInv
  <2>7. CASE ResourceEvent
    <3>1. /\ pc[Event] = "h_r1" /\ UNCHANGED <<resource, live, clearing, misuse, req>>
          /\ \/ pc'[Event] = "h_r2" /\ sending' = sending /\ sending # None
             \/ pc'[Event] \in {"h_mask", "ef_lock"}
      BY <2>7 DEF ResourceEvent
    <3> QED BY <3>1 DEF HandleInv
  <2>8. CASE ResourceFds
    <3>1. pc[Event] = "h_r2"
      BY <2>8 DEF ResourceFds
    <3>2. sending \in live
      BY <1>a, <2>a, <3>1 DEF HandleInv, Requesting
    <3>3. /\ pc'[Event] \in {"h_mask", "ef_lock"}
          /\ UNCHANGED <<resource, live, clearing, req, mine>> /\ misuse' = misuse
      BY <2>8, <3>2 DEF ResourceFds, Record
    <3> QED BY <3>1, <3>3 DEF HandleInv
  <2>9. CASE CountSent
    BY <2>9 DEF CountSent, HandleInv
  <2> QED BY <1>8, <2>1, <2>2, <2>3, <2>4, <2>5, <2>6, <2>7, <2>8, <2>9 DEF Request
<1>9. CASE Grant \/ Close \/ Read
  BY <1>1, <1>9 DEF Grant, Close, Producer, Read
<1>10. ASSUME NEW s \in Services, Ask(s) PROVE HandleInv'
  BY <1>1, <1>10 DEF Ask
<1>11. CASE SessionsUsedUp \/ NothingReady \/ UNCHANGED vars
  BY <1>1, <1>11 DEF SessionsUsedUp, NothingReady, vars
<1> QED
  BY <1>2, <1>3, <1>4, <1>5, <1>6, <1>8, <1>9, <1>10, <1>11
     DEF Next, RenderStep, EventStep

\* A part that is sent keeps the framing when it is no resource event, and no
\* descriptors are awaited from the event thread.
LEMMA SendKeepsFrame ==
    ASSUME TypeInv, FrameInv, calm, NEW t, NEW part \in Parts, Sends(t, part),
           UNCHANGED <<expects, split, producer>>,
           \/ pc[Event] # "h_r2" /\ part # "resource"
           \/ pc[Event] # "h_r2" /\ part = "resource" /\ pc'[Event] = "h_r2"
           \/ pc[Event] = "h_r2" /\ part = "fds"
    PROVE  FrameInv'
<1>1. /\ wire \in Seq(Parts) /\ wire' = Append(wire, part)
      /\ Len(wire') = Len(wire) + 1 /\ Len(wire) \in Nat
      /\ \A i \in 1 .. Len(wire) : wire'[i] = wire[i]
      /\ wire'[Len(wire) + 1] = part
      /\ wire' # <<>>
  BY DEF Sends, TypeInv, TypeOK, StreamOK
<1>2. CASE producer # "up"
  BY <1>2 DEF FrameInv
<1>3. CASE producer = "up"
  <2>1. ASSUME NEW i \in 1 .. Len(wire'), wire'[i] = "resource"
        PROVE  IF i = Len(wire') THEN pc'[Event] = "h_r2" ELSE wire'[i + 1] = "fds"
    <3>1. CASE i = Len(wire')
      BY <1>1, <2>1, <3>1
    <3>2. CASE i = Len(wire)
      <4>1. wire[i] = "resource" /\ i \in 1 .. Len(wire)
        BY <1>1, <2>1, <3>2
      <4>2. pc[Event] = "h_r2"
        BY <1>3, <3>2, <4>1 DEF FrameInv
      <4> QED BY <1>1, <3>2, <4>2
    <3>3. CASE i < Len(wire)
      <4>1. wire[i] = "resource" /\ i \in 1 .. Len(wire) /\ i + 1 \in 1 .. Len(wire) /\ i # Len(wire)
        BY <1>1, <2>1, <3>3
      <4>2. wire[i + 1] = "fds"
        BY <1>3, <4>1 DEF FrameInv
      <4> QED BY <1>1, <3>3, <4>1, <4>2
    <3> QED BY <1>1, <3>1, <3>2, <3>3
  <2>2. expects = "fds" => wire'[1] = "fds"
    <3>1. CASE wire = <<>>
      <4>1. Len(wire) = 0
        BY <3>1
      <4> QED BY <1>1, <1>3, <3>1, <4>1 DEF FrameInv
    <3>2. CASE wire # <<>>
      <4>1. 1 \in 1 .. Len(wire)
        BY <1>1, <3>2
      <4> QED BY <1>1, <1>3, <3>2, <4>1 DEF FrameInv
    <3> QED BY <3>1, <3>2
  <2> QED BY <1>1, <1>3, <2>1, <2>2 DEF FrameInv
<1> QED BY <1>2, <1>3

LEMMA FrameStep ==
    ASSUME TypeInv, LockInv, QuietInv, GateInv, HandleInv, FrameInv, [Next]_vars, calm'
    PROVE  FrameInv'
<1> USE ThreadsAssumption DEF Goto, Fallback, Return, TypeInv, TypeOK, ThreadsOK
<1>0. calm
  BY CalmBefore
\* Nothing is sent or read; a request that breaks off does so without a producer.
<1>1. ASSUME UNCHANGED <<wire, expects, split>>,
             producer' = "up" /\ pc[Event] = "h_r2" => pc'[Event] = "h_r2",
             producer' = "up" => producer = "up" \/ (wire = <<>> /\ expects = "message")
      PROVE  FrameInv'
  <2>1. CASE producer' = "up" /\ producer # "up"
    <3>1. Len(wire') = 0 /\ wire' = <<>> /\ expects' = "message"
      BY <1>1, <2>1
    <3> QED BY <1>1, <3>1 DEF FrameInv
  <2>2. CASE producer' = "up" /\ producer = "up"
    BY <1>1, <2>2 DEF FrameInv
  <2>3. CASE producer' # "up"
    BY <1>1, <2>3 DEF FrameInv
  <2> QED BY <2>1, <2>2, <2>3
\* The gate: no input event goes out between an event and its descriptors.
<1>2. ASSUME NEW t \in Threads, pc[t] \in {"i_send", "b1", "b2"}, t # Event PROVE pc[Event] # "h_r2"
  <2>1. CASE pc[t] = "i_send"
    <3> SUFFICES ASSUME pc[Event] = "h_r2" PROVE FALSE
      OBVIOUS
    <3>1. dataLock = Event /\ ~fallback
      BY DEF LockInv, Holds, QuietInv, SilentInv, Requesting
    <3>2. needsLock = FALSE
      BY <1>2, <2>1, <3>1 DEF GateInv
    <3>3. sent = Services
      BY <3>2 DEF ServicesOK
    <3>4. req \in Services /\ req \notin sent
      BY <3>1 DEF ServicesOK, PlaceInv, Requesting, GateInv
    <3> QED BY <3>3, <3>4
  <2>2. CASE pc[t] \in {"b1", "b2"}
    <3>1. t = Render
      BY <1>2, <2>2 DEF PlaceInv, Teardown, Sending
    <3> QED BY <2>2, <3>1 DEF QuietInv, AloneInv, Pushing
  <2> QED BY <1>2, <2>1, <2>2
<1>3. ASSUME NEW t \in Threads, EnterFallback(t) PROVE FrameInv'
  <2>1. CASE EfLock(t) \/ EfFree(t) \/ EfClear(t) \/ EfClose(t) \/ EfCallback(t)
    BY <1>1, <2>1 DEF EfLock, EfFree, EfClear, EfClose, EfCallback
  <2>2. CASE EfNew(t)
    BY <2>2 DEF EfNew, FrameInv
  <2> QED BY <1>3, <2>1, <2>2 DEF EnterFallback
<1>4. CASE GoUp
  <2>1. producer = "ready" /\ wire = <<>> /\ expects = "message"
    BY <1>4 DEF GoUp, QuietInv, ProducerInv
  <2> QED BY <1>1, <1>4, <2>1 DEF GoUp
<1>5. CASE StartEventThread \/ FenceTimeout
  BY <1>1, <1>5 DEF StartEventThread, FenceTimeout
<1>6. CASE PushBuffers
  <2>1. CASE UNCHANGED wire
    BY <1>1, <1>6, <2>1 DEF PushBuffers, PushPart, ReadFd
  <2>2. CASE PushPart("b1", "bufs", "b2_fd") /\ Sends(Render, "bufs")
    <3>1. pc[Render] = "b1" /\ UNCHANGED <<expects, split, producer>>
      BY <2>2 DEF PushPart
    <3> QED BY <1>2, <2>2, <3>1, <1>0, SendKeepsFrame DEF Parts
  <2>3. CASE PushPart("b2", "infos", "x_push") /\ Sends(Render, "infos")
    <3>1. pc[Render] = "b2" /\ UNCHANGED <<expects, split, producer>>
      BY <2>3 DEF PushPart
    <3> QED BY <1>2, <2>3, <3>1, <1>0, SendKeepsFrame DEF Parts
  <2> QED BY <1>6, <2>1, <2>2, <2>3 DEF PushBuffers, PushPart, ReadFd
<1>7. ASSUME NEW t \in Threads, t = Render \/ t \in Inputs, Push(t) PROVE FrameInv'
  BY <1>1, <1>7 DEF Push
<1>8. ASSUME NEW t \in Threads, InputStep(t) PROVE FrameInv'
  <2>1. t # Event
    BY <1>8 DEF InputStep, InputLock, InputSend, PlaceInv, Teardown, Requesting
  <2>2. CASE UNCHANGED wire
    BY <1>1, <1>8, <2>1, <2>2 DEF InputStep, InputLock, ReadFd, InputSend
  <2>3. CASE InputSend(t) /\ Sends(t, "input")
    <3>1. pc[t] = "i_send" /\ UNCHANGED <<expects, split, producer>>
      BY <2>3 DEF InputSend
    <3> QED BY <1>2, <2>1, <2>3, <3>1, <1>0, SendKeepsFrame DEF Parts
  <2> QED BY <1>8, <2>2, <2>3 DEF InputStep, InputLock, ReadFd, InputSend
<1>9. CASE PollRequest \/ TakeRequest \/ NoRequest \/ Hangup
  BY <1>1, <1>9 DEF PollRequest, TakeRequest, NoRequest, Hangup
<1>10. CASE Request
  <2>1. CASE Allocate \/ FreePrevious \/ SetResource \/ ReadNumber \/ PushResource \/ ResourceLock \/ CountSent
    BY <1>1, <2>1 DEF Allocate, FreePrevious, SetResource, ReadNumber, PushResource,
                      ResourceLock, CountSent
  <2>2. CASE ResourceEvent
    <3>1. pc[Event] = "h_r1" /\ UNCHANGED <<expects, split, producer>>
      BY <2>2 DEF ResourceEvent
    <3>2. mine = sending
      BY <3>1 DEF HandleInv
    <3>3. CASE mine # None /\ Sends(Event, "resource") /\ pc'[Event] = "h_r2"
      BY <3>1, <3>3, <1>0, SendKeepsFrame DEF Parts
    <3>4. CASE Sends(Event, "refusal")
      BY <3>1, <3>4, <1>0, SendKeepsFrame DEF Parts
    <3>5. CASE UNCHANGED wire
      BY <1>1, <3>1, <3>5
    <3> QED BY <2>2, <3>2, <3>3, <3>4, <3>5 DEF ResourceEvent
  <2>3. CASE ResourceFds
    <3>1. pc[Event] = "h_r2" /\ UNCHANGED <<expects, split, producer>>
      BY <2>3 DEF ResourceFds
    <3>2. CASE Sends(Event, "fds")
      BY <3>1, <3>2, <1>0, SendKeepsFrame DEF Parts
    <3>3. CASE SendFails(Event) /\ UNCHANGED wire
      <4>1. dataLock = Event /\ fd[Event] # 0
        BY <3>1 DEF LockInv, Holds
      <4>2. Current(Event)
        BY <3>1, <4>1 DEF LockInv, Holds
      <4>3. producer = "closed"
        BY <3>3, <4>2 DEF SendFails
      <4> QED BY <1>1, <3>1, <3>3, <4>3
    <3> QED BY <2>3, <3>2, <3>3 DEF ResourceFds
  <2> QED BY <1>10, <2>1, <2>2, <2>3 DEF Request
<1>11. CASE Grant
  BY <1>1, <1>11 DEF Grant, Producer
<1>a. CASE Close
  BY <1>a DEF Close, Producer, FrameInv
<1>12. CASE Read
  <2>1. /\ producer = "up" /\ producer' = "up" /\ pc' = pc /\ wire # <<>> /\ wire \in Seq(Parts)
        /\ wire' = Tail(wire) /\ expects' = Next2(Head(wire))
        /\ split' = split \cup
             (IF expects # "message" /\ Head(wire) # expects THEN {expects} ELSE {})
    BY <1>0, <1>12 DEF Read, StreamOK
  <2>2. /\ Len(wire) \in Nat /\ Len(wire) > 0 /\ Len(wire') = Len(wire) - 1 /\ Head(wire) = wire[1]
        /\ \A i \in 1 .. Len(wire') : wire'[i] = wire[i + 1]
    BY <2>1
  <2>3. "fds" \notin split'
    BY <2>1, <2>2 DEF FrameInv
  <2>4. ASSUME NEW i \in 1 .. Len(wire'), wire'[i] = "resource"
        PROVE  IF i = Len(wire') THEN pc'[Event] = "h_r2" ELSE wire'[i + 1] = "fds"
    <3>1. i + 1 \in 1 .. Len(wire) /\ wire[i + 1] = "resource" /\ (i = Len(wire') <=> i + 1 = Len(wire))
      BY <2>2, <2>4
    <3>2. IF i + 1 = Len(wire) THEN pc[Event] = "h_r2" ELSE wire[(i + 1) + 1] = "fds"
      BY <2>1, <3>1 DEF FrameInv
    <3>3. CASE i = Len(wire')
      BY <2>1, <3>1, <3>2, <3>3
    <3>4. CASE i # Len(wire')
      <4>1. i + 1 \in 1 .. Len(wire') /\ wire[(i + 1) + 1] = "fds"
        BY <2>2, <3>1, <3>2, <3>4
      <4>2. wire'[i + 1] = wire[(i + 1) + 1]
        BY <2>2, <4>1
      <4> QED BY <3>4, <4>1, <4>2
    <3> QED BY <3>3, <3>4
  <2>5. expects' = "fds" => IF wire' = <<>> THEN pc'[Event] = "h_r2" ELSE wire'[1] = "fds"
    <3> SUFFICES ASSUME expects' = "fds"
                 PROVE  IF wire' = <<>> THEN pc'[Event] = "h_r2" ELSE wire'[1] = "fds"
      OBVIOUS
    <3>1. wire[1] = "resource" /\ 1 \in 1 .. Len(wire)
      BY <2>1, <2>2 DEF Next2
    <3>2. IF 1 = Len(wire) THEN pc[Event] = "h_r2" ELSE wire[1 + 1] = "fds"
      BY <2>1, <3>1 DEF FrameInv
    <3>3. CASE Len(wire) = 1
      BY <2>1, <2>2, <3>2, <3>3
    <3>4. CASE Len(wire) # 1
      <4>1. 1 \in 1 .. Len(wire') /\ Len(wire') # 0
        BY <2>2, <3>4
      <4>2. wire' # <<>>
        BY <4>1
      <4> QED BY <2>2, <3>2, <3>4, <4>1, <4>2
    <3> QED BY <3>3, <3>4
  <2> QED BY <2>3, <2>4, <2>5 DEF FrameInv
<1>13. ASSUME NEW s \in Services, Ask(s) PROVE FrameInv'
  BY <1>1, <1>13 DEF Ask
<1>14. CASE SessionsUsedUp \/ NothingReady \/ UNCHANGED vars
  BY <1>1, <1>14 DEF SessionsUsedUp, NothingReady, vars
<1> QED
  BY <1>3, <1>4, <1>5, <1>6, <1>7, <1>8, <1>9, <1>10, <1>11, <1>a, <1>12, <1>13, <1>14
     DEF Next, RenderStep, EventStep

LEMMA Calm == Spec => []CalmInv
<1>1. TypeInv /\ LockInv /\ ClearInv /\ CalmInv /\ [Next]_vars => CalmInv'
  <2> SUFFICES ASSUME TypeInv, LockInv, ClearInv, CalmInv, [Next]_vars, calm' PROVE CalmInv'
    BY DEF CalmInv
  <2>1. QuietInv /\ GateInv /\ HandleInv /\ FrameInv
    BY CalmBefore DEF CalmInv
  <2>2. QuietInv'
    BY <2>1, SilentStep, AloneStep, ProducerStep DEF QuietInv
  <2> QED BY <2>1, <2>2, GateStep, HandleStep, FrameStep DEF CalmInv
<1> QED BY <1>1, CalmInit, Typed, Locked, Cleared, PTL DEF Spec

\* While it is calm, nothing comes between a resource event and its descriptors.
THEOREM FramingHolds == Spec => []ResourceFramed
<1>1. CalmInv => ResourceFramed
  BY DEF CalmInv, FrameInv, ResourceFramed
<1> QED BY <1>1, Calm, PTL

\* While it is calm, no handle is freed twice or sent after its free.
THEOREM HandlesSound == Spec => []ResourcesSound
<1>1. CalmInv => ResourcesSound
  BY DEF CalmInv, HandleInv, ResourcesSound
<1> QED BY <1>1, Calm, PTL

-----------------------------------------------------------------------------
(* The order of the two locks                                              *)

\* The steps at which a thread waits for a lock.
WaitsForState(t) == pc[t] = "ef_lock" \/ (t = Render /\ pc[t] = "idle")
WaitsForData(t) == pc[t] \in {"ef_close", "i_lock", "h_lock", "h_mask"}

\* state_lock is taken before data_lock, and whoever holds data_lock waits for no
\* lock: the teardown's two locks and the senders' one cannot be in a circle.
LocksOrdered == \A t \in Threads :
    /\ dataLock = t => ~WaitsForState(t) /\ ~WaitsForData(t)
    /\ stateLock = t => ~WaitsForState(t)

\* state_lock is held by the thread that is inside its teardown.
StateInv == \A t \in Threads : stateLock = t => pc[t] \in Inside

LEMMA StateStep == ASSUME TypeInv, StateInv, [Next]_vars PROVE StateInv'
<1> USE ThreadsAssumption DEF StateInv, Goto, Fallback, Return, TypeInv, TypeOK, ThreadsOK
<1>1. ASSUME NEW t \in Threads, EnterFallback(t) PROVE StateInv'
  <2>1. CASE EfLock(t)
    BY <1>1, <2>1 DEF EfLock
  <2>2. CASE EfFree(t) \/ EfClear(t) \/ EfClose(t) \/ EfCallback(t)
    BY <1>1, <2>2 DEF EfFree, EfClear, EfClose, EfCallback
  <2>3. CASE EfNew(t)
    BY <1>1, <2>3 DEF EfNew
  <2> QED BY <1>1, <2>1, <2>2, <2>3 DEF EnterFallback
<1>2. CASE RenderStep /\ ~Push(Render)
  BY <1>2 DEF RenderStep, GoUp, PushBuffers, PushPart, ReadFd, StartEventThread, FenceTimeout
<1>3. ASSUME NEW t \in Threads, Push(t) \/ InputStep(t) PROVE StateInv'
  BY <1>3 DEF Push, InputStep, InputLock, ReadFd, InputSend
<1>4. CASE EventStep
  <2>1. CASE PollRequest \/ TakeRequest \/ NoRequest \/ Hangup
    BY <2>1 DEF PollRequest, TakeRequest, NoRequest, Hangup
  <2>2. CASE Allocate \/ FreePrevious \/ SetResource \/ ReadNumber \/ PushResource \/ ResourceLock
    BY <2>2 DEF Allocate, FreePrevious, SetResource, ReadNumber, PushResource, ResourceLock
  <2>3. CASE ResourceEvent \/ ResourceFds \/ CountSent
    BY <2>3 DEF ResourceEvent, ResourceFds, CountSent
  <2> QED BY <1>4, <2>1, <2>2, <2>3 DEF EventStep, Request
<1>5. CASE Grant \/ Close \/ Read \/ \E s \in Services : Ask(s)
  BY <1>5 DEF Grant, Close, Producer, Read, Ask
<1>6. CASE SessionsUsedUp \/ NothingReady \/ UNCHANGED vars
  BY <1>6 DEF SessionsUsedUp, NothingReady, vars
<1> QED BY <1>1, <1>2, <1>3, <1>4, <1>5, <1>6 DEF Next, RenderStep

\* No thread holds data_lock while it waits for a lock, nor state_lock while it waits
\* for anything but data_lock.
THEOREM LockOrderHolds == Spec => []LocksOrdered
<1>1. Init => StateInv
  BY ThreadsAssumption DEF Init, StateInv
<1>2. LockInv /\ StateInv => LocksOrdered
  BY DEF LockInv, Holds, StateInv, LocksOrdered, WaitsForState, WaitsForData
<1> QED BY <1>1, <1>2, StateStep, Typed, Locked, PTL DEF Spec

-----------------------------------------------------------------------------
(* The session                                                             *)

\* A generation is in use, or its teardown under way, only once it was picked up.
SessionInv ==
    /\ stateLock # NoThread => fallback
    /\ (~fallback \/ stateLock # NoThread) => producer \in {"up", "closed"}

LEMMA SessionInit == Init => SessionInv /\ Session!DSInit
BY DEF Init, SessionInv, Session!DSInit, Phase

\* The steps that leave the descriptors and the locks alone.
LEMMA SessionStutter ==
    ASSUME SessionInv, UNCHANGED <<connection, stateLock, producer>>
    PROVE  SessionInv' /\ UNCHANGED Session!dsVars
BY DEF SessionInv, Phase, Session!dsVars

LEMMA SessionStep ==
    ASSUME TypeInv, SessionInv, [Next]_vars
    PROVE  SessionInv' /\ [Session!DSNext]_(Session!dsVars)
<1> USE DEF TypeInv, TypeOK, ConnectionOK
<1> DEFINE Shown == SessionInv' /\ (Session!DSNext \/ UNCHANGED Session!dsVars)
<1> SUFFICES Shown
  OBVIOUS
<1> USE DEF Shown
<1>1. ASSUME NEW t \in Threads, EnterFallback(t) PROVE Shown
  <2>1. CASE EfLock(t) /\ fallback
    BY <2>1, SessionStutter DEF EfLock
  <2>2. CASE EfLock(t) /\ ~fallback
    <3>1. Phase = "up" /\ Phase' = "torn" /\ session' = session
      BY <2>2 DEF EfLock, SessionInv, Phase
    <3> QED BY <2>2, <3>1 DEF EfLock, SessionInv, Session!DSNext, Session!Down
  <2>3. CASE EfFree(t) \/ EfClear(t) \/ EfClose(t)
    <3>1. UNCHANGED <<fallback, session, stateLock, producer>>
      BY <2>3 DEF EfFree, EfClear, EfClose
    <3> QED BY <3>1 DEF SessionInv, Phase, Session!dsVars
  <2>4. CASE EfNew(t)
    <3>1. stateLock = t /\ t # NoThread
      BY <2>4, ThreadsAssumption DEF EfNew, PlaceInv
    <3>2. Phase = "torn" /\ fallback /\ fallback' /\ stateLock' = NoThread
      BY <2>4, <3>1 DEF EfNew, SessionInv, Phase
    <3>3. CASE producer' = "hello" /\ session' = session + 1
      <4>1. Phase' = "offered"
        BY <3>3 DEF Phase
      <4> QED BY <3>2, <3>3, <4>1 DEF SessionInv, Session!DSNext, Session!Renew
    <3>4. CASE producer' = "closed" /\ session' = session
      <4>1. Phase' = "torn"
        BY <3>2, <3>4 DEF Phase
      <4> QED BY <3>2, <3>4, <4>1 DEF SessionInv, Session!dsVars
    <3> QED BY <2>4, <3>3, <3>4 DEF EfNew
  <2>5. CASE EfCallback(t)
    BY <2>5, SessionStutter DEF EfCallback
  <2> QED BY <1>1, <2>1, <2>2, <2>3, <2>4, <2>5 DEF EnterFallback
<1>2. CASE GoUp
  <2>1. Phase = "granted" /\ Phase' = "up" /\ session' = session
    BY <1>2 DEF GoUp, Phase
  <2> QED BY <1>2, <2>1 DEF GoUp, SessionInv, Session!DSNext, Session!Up
<1>3. CASE Grant
  <2>1. Phase = "offered" /\ Phase' = "granted" /\ session' = session
    BY <1>3 DEF Grant, Producer, Phase
  <2> QED BY <1>3, <2>1 DEF Grant, Producer, SessionInv, Session!DSNext, Session!Grant
<1>4. CASE Close
  <2>1. Phase' = Phase /\ session' = session
    BY <1>4 DEF Close, Producer, Phase
  <2> QED BY <1>4, <2>1 DEF Close, Producer, SessionInv, Session!dsVars
<1>5. CASE StartEventThread \/ FenceTimeout \/ PushBuffers
  BY <1>5, SessionStutter DEF StartEventThread, FenceTimeout, PushBuffers, PushPart, ReadFd
<1>6. ASSUME NEW t \in Threads, Push(t) \/ InputStep(t) PROVE Shown
  BY <1>6, SessionStutter DEF Push, InputStep, InputLock, ReadFd, InputSend
<1>7. CASE EventStep
  BY <1>7, SessionStutter
     DEF EventStep, PollRequest, TakeRequest, NoRequest, Hangup, Request, Allocate, FreePrevious,
         SetResource,
         ReadNumber, PushResource, ResourceLock, ResourceEvent, ResourceFds, CountSent
<1>8. CASE Read \/ \E s \in Services : Ask(s)
  BY <1>8, SessionStutter DEF Read, Ask
<1>9. CASE SessionsUsedUp \/ NothingReady \/ UNCHANGED vars
  BY <1>9, SessionStutter DEF SessionsUsedUp, NothingReady, vars
<1> QED BY <1>1, <1>2, <1>3, <1>4, <1>5, <1>6, <1>7, <1>8, <1>9 DEF Next, RenderStep

\* However the writers and the teardowns interleave, a generation of descriptors
\* is used once, after it was picked up, and only a torn one is replaced.
THEOREM ChannelImplementsSession == Spec => SessionSpec
<1>1. Init => SessionInv /\ Session!DSInit
  BY SessionInit
<1>2. TypeInv /\ SessionInv /\ [Next]_vars => SessionInv'
  BY SessionStep
<1>3. TypeInv /\ SessionInv /\ [Next]_vars => [Session!DSNext]_(Session!dsVars)
  BY SessionStep
<1> QED BY <1>1, <1>2, <1>3, Typed, PTL DEF Spec, SessionSpec, Session!DSSpec
=============================================================================
