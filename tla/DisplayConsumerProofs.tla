------------------------ MODULE DisplayConsumerProofs ------------------------
(***************************************************************************)
(* Theorems of DisplayConsumer, for any threads, buffers and bounds.       *)
(***************************************************************************)
EXTENDS DisplayConsumer, TLAPS

USE DEF Threads, Sessions, NoFd

-----------------------------------------------------------------------------
(* The inductive invariant                                                 *)

\* Who is inside state_lock, and that a generation is left to move to.
LockInv ==
    /\ \A t \in Threads : pc[t] \in Locked <=> stateLock = t
    /\ stateLock # NoThread => fallback /\ session < MaxSession
    /\ \A t \in Threads : pc[t] = "ef_new" => ~open

\* Whether the descriptors in place are on offer or picked up.
Offered == fallback /\ open /\ stateLock = NoThread /\ ready = {}
           /\ pc[Render] # "r_up" /\ peer[session] = "hello"

PickedUp == peer[session] \in Held \cup {"closed"}

\* FDS_READY is consumed once, between pick-up and the up-transition; a
\* generation being replaced, or whose replacement failed, was picked up.
SessionInv ==
    /\ Offered \/ PickedUp
    /\ ~open \/ stateLock # NoThread \/ ~fallback => ready = {} /\ pc[Render] # "r_up"
    /\ ~open => fallback
    /\ pc[Render] = "r_up" => ready = {}
    /\ ready \subseteq {session}
    /\ \A s \in Sessions : s > session => peer[s] = "none"
    /\ \A s \in Sessions : s < session => peer[s] \in Held \cup {"closed"}

\* What is known of the event thread's handle.
HandleInv ==
    /\ joinable <=> pc[Event] # "none"
    /\ pc[Render] = "x_spawn" => pc[Event] = "none"

IInv == LockInv /\ SessionInv /\ HandleInv

-----------------------------------------------------------------------------
(* Typing                                                                  *)

\* What a system call reaches is a session or nothing.
LEMMA ReachType ==
    ASSUME ContextTypeOK, ThreadTypeOK, NEW t \in Threads
    PROVE  /\ CurrentFd \in Sessions \cup {NoFd}
           /\ MayReach(t) \subseteq Sessions \cup {NoFd}
           /\ MaySend(t) \subseteq Sessions \cup {NoFd}
BY DEF ContextTypeOK, ThreadTypeOK, MayReach, MaySend, CurrentFd

\* A thread that goes to a step of its own code keeps every thread in its own.
LEMMA GotoType ==
    ASSUME ThreadTypeOK, NEW t \in Threads, NEW l \in StepsOf(t), Goto(t, l)
    PROVE  DOMAIN pc' = Threads /\ \A u \in Threads : pc'[u] \in StepsOf(u)
BY DEF ThreadTypeOK, Goto

\* What a step of one thread may do to the threads' own state.
LEMMA ThreadStepType ==
    ASSUME ThreadTypeOK, NEW t \in Threads, NEW l \in StepsOf(t), Goto(t, l),
           NEW r \in ReturnsTo(t), ret' = ret \/ ret' = [ret EXCEPT ![t] = r],
           NEW s \in Sessions \cup {NoFd}, fd' = fd \/ fd' = [fd EXCEPT ![t] = s],
           idx' \in Bufs
    PROVE  ThreadTypeOK'
BY GotoType DEF ThreadTypeOK, ReturnsTo

\* The initial state is typed.
LEMMA InitType == Init => TypeOK
<1> SUFFICES ASSUME Init PROVE TypeOK
    OBVIOUS
<1>0. FlagTypeOK
    BY DEF Init, FlagTypeOK
<1>1. ContextTypeOK
    BY BoundsAssumption DEF Init, ContextTypeOK
<1>2. ThreadTypeOK
    BY ThreadsDiffer, BufsAssumption
       DEF Init, ThreadTypeOK, StepsOf, ReturnsTo, RenderSteps, EventSteps, InputSteps
<1>3. WireTypeOK
    BY BufsAssumption DEF Init, WireTypeOK, Peers, Outs
<1> QED
    BY <1>0, <1>1, <1>2, <1>3 DEF TypeOK

\* enter_fallback, run by any thread, keeps the types.
LEMMA TearDownType ==
    ASSUME TypeOK, IInv, NEW t \in Threads, TearDown(t)
    PROVE  TypeOK'
<1> USE DEF TypeOK, Return, Fail, Capture
<1>0. /\ ret[t] \in StepsOf(t)
      /\ EFSteps \subseteq StepsOf(t)
    BY DEF ThreadTypeOK, StepsOf, ReturnsTo, RenderSteps, EventSteps, InputSteps
<1> USE DEF EFSteps, Locked
<1>1. CASE EnterFallback(t)
    <2>1. FlagTypeOK'
        BY <1>1 DEF EnterFallback, FlagTypeOK, conn, life, control
    <2>2. ContextTypeOK' /\ WireTypeOK'
        BY <1>1 DEF EnterFallback, ContextTypeOK, WireTypeOK, conn, control, wire
    <2>3. ThreadTypeOK'
        <3>1. \E l \in StepsOf(t) : Goto(t, l)
            BY <1>0, <1>1 DEF EnterFallback, AfterPush
        <3> QED
            BY <1>1, <1>0, <3>1, GotoType, ReachType DEF EnterFallback, ThreadTypeOK, ReturnsTo
    <2> QED
        BY <2>1, <2>2, <2>3
<1>2. CASE CloseFds(t)
    <2>1. FlagTypeOK'
        BY <1>2 DEF CloseFds, FlagTypeOK, conn, life, control
    <2>2. ContextTypeOK' /\ WireTypeOK'
        BY <1>2, BufsAssumption DEF CloseFds, Abandon, ContextTypeOK, WireTypeOK, Outs
    <2>3. ThreadTypeOK'
        <3>1. \E l \in StepsOf(t) : Goto(t, l)
            BY <1>0, <1>2 DEF CloseFds, AfterPush
        <3> QED
            BY <1>2, <1>0, <3>1, GotoType, ReachType DEF CloseFds, ThreadTypeOK, ReturnsTo
    <2> QED
        BY <2>1, <2>2, <2>3
<1>3. CASE Rehello(t)
    <2>1. FlagTypeOK'
        BY <1>3 DEF Rehello, Hello, ShmFails, Fault, FlagTypeOK, conn, life, control
    <2>2. ContextTypeOK' /\ WireTypeOK'
        <3>1. session < MaxSession
            BY <1>3, ThreadsDiffer DEF Rehello, Hello, ShmFails, Fault, IInv, LockInv
        <3>2. session + 1 \in Sessions
            BY <3>1, BoundsAssumption DEF ContextTypeOK
        <3>3. session' \in Sessions /\ peer' \in [Sessions -> Peers] /\ faults' \in Nat
            BY <1>3, <3>2 DEF Rehello, Hello, ShmFails, Fault, ContextTypeOK, WireTypeOK, Peers
        <3> QED
            BY <1>3, <3>3 DEF Rehello, Hello, ShmFails, Fault, ContextTypeOK, WireTypeOK
    <2>3. ThreadTypeOK'
        <3>1. \E l \in StepsOf(t) : Goto(t, l)
            BY <1>0, <1>3 DEF Rehello, Hello, ShmFails, Fault, AfterPush
        <3> QED
            BY <1>3, <1>0, <3>1, GotoType, ReachType DEF Rehello, Hello, ShmFails, Fault,
                ThreadTypeOK, ReturnsTo
    <2> QED
        BY <2>1, <2>2, <2>3
<1>4. CASE OnFallback(t)
    <2>1. FlagTypeOK'
        BY <1>4 DEF OnFallback, FlagTypeOK, conn, life, control
    <2>2. ContextTypeOK' /\ WireTypeOK'
        BY <1>4 DEF OnFallback, ContextTypeOK, WireTypeOK, conn, control, wire
    <2>3. ThreadTypeOK'
        <3>1. \E l \in StepsOf(t) : Goto(t, l)
            BY <1>0, <1>4 DEF OnFallback, AfterPush
        <3> QED
            BY <1>4, <1>0, <3>1, GotoType, ReachType DEF OnFallback, ThreadTypeOK, ReturnsTo
    <2> QED
        BY <2>1, <2>2, <2>3
<1> QED
    BY <1>1, <1>2, <1>3, <1>4 DEF TearDown

\* push_input_event keeps the types.
LEMMA PushType ==
    ASSUME TypeOK, IInv, NEW t \in Inputs \cup {Render}, Push(t)
    PROVE  TypeOK'
<1> USE DEF TypeOK, Return, Fail, Capture
<1>0. /\ PushSteps \cup {AfterPush(t), "ef_enter"} \subseteq StepsOf(t)
      /\ AfterPush(t) \in ReturnsTo(t)
    BY ThreadsDiffer DEF AfterPush, ReturnsTo, StepsOf, RenderSteps, InputSteps, EFSteps
<1> USE DEF PushSteps
<1>1. CASE PushCheck(t)
    <2>1. FlagTypeOK'
        BY <1>1 DEF PushCheck, FlagTypeOK, conn, life, control
    <2>2. ContextTypeOK' /\ WireTypeOK'
        BY <1>1 DEF PushCheck, ContextTypeOK, WireTypeOK, conn, control, wire
    <2>3. ThreadTypeOK'
        <3>1. \E l \in StepsOf(t) : Goto(t, l)
            BY <1>0, <1>1 DEF PushCheck, AfterPush
        <3> QED
            BY <1>1, <1>0, <3>1, GotoType, ReachType DEF PushCheck, ThreadTypeOK, ReturnsTo
    <2> QED
        BY <2>1, <2>2, <2>3
<1>2. CASE PushFd(t)
    <2>1. FlagTypeOK'
        BY <1>2 DEF PushFd, FlagTypeOK, conn, life, control
    <2>2. ContextTypeOK' /\ WireTypeOK'
        BY <1>2 DEF PushFd, ContextTypeOK, WireTypeOK, conn, control, wire
    <2>3. ThreadTypeOK'
        <3>1. \E l \in StepsOf(t) : Goto(t, l)
            BY <1>0, <1>2 DEF PushFd, AfterPush
        <3> QED
            BY <1>2, <1>0, <3>1, GotoType, ReachType DEF PushFd, ThreadTypeOK, ReturnsTo
    <2> QED
        BY <2>1, <2>2, <2>3
<1>3. CASE PushSend(t)
    <2>1. FlagTypeOK'
        BY <1>3 DEF PushSend, FlagTypeOK, conn, life, control
    <2>2. ContextTypeOK' /\ WireTypeOK'
        BY <1>3 DEF PushSend, ContextTypeOK, WireTypeOK, conn, control, wire
    <2>3. ThreadTypeOK'
        <3>1. \E l \in StepsOf(t) : Goto(t, l)
            BY <1>0, <1>3 DEF PushSend, AfterPush
        <3> QED
            BY <1>3, <1>0, <3>1, GotoType, ReachType DEF PushSend, ThreadTypeOK, ReturnsTo
    <2> QED
        BY <2>1, <2>2, <2>3
<1> QED
    BY <1>1, <1>2, <1>3 DEF Push

\* The render thread's own steps keep the types.
LEMMA RenderType ==
    ASSUME TypeOK, IInv, RenderOwn
    PROVE  TypeOK'
<1> USE DEF TypeOK, Return, Fail, Capture
<1>0. /\ StepsOf(Render) = RenderSteps /\ "ef_enter" \in RenderSteps
      /\ {"x_rate", "r_select"} \subseteq ReturnsTo(Render)
    BY DEF StepsOf, RenderSteps, EFSteps, ReturnsTo
<1> USE DEF RenderSteps
<1>1. CASE Select
    <2>1. FlagTypeOK'
        BY <1>1 DEF Select, FlagTypeOK, conn, life, control
    <2>2. ContextTypeOK' /\ WireTypeOK'
        BY <1>1 DEF Select, ContextTypeOK, WireTypeOK, conn, control, wire
    <2>3. ThreadTypeOK'
        <3>1. \E l \in StepsOf(Render) : Goto(Render, l)
            BY <1>0, <1>1 DEF Select, AfterPush
        <3> QED
            BY <1>1, <1>0, <3>1, GotoType, ReachType DEF Select, ThreadTypeOK, ReturnsTo
    <2> QED
        BY <2>1, <2>2, <2>3
<1>2. CASE TryExit
    <2>1. FlagTypeOK'
        BY <1>2 DEF TryExit, FlagTypeOK, conn, life, control
    <2>2. ContextTypeOK' /\ WireTypeOK'
        BY <1>2 DEF TryExit, ContextTypeOK, WireTypeOK, conn, control, wire
    <2>3. ThreadTypeOK'
        <3>1. \E l \in StepsOf(Render) : Goto(Render, l)
            BY <1>0, <1>2 DEF TryExit, AfterPush
        <3> QED
            BY <1>2, <1>0, <3>1, GotoType, ReachType DEF TryExit, ThreadTypeOK, ReturnsTo
    <2> QED
        BY <2>1, <2>2, <2>3
<1>3. CASE GoUp
    <2>1. FlagTypeOK'
        BY <1>3 DEF GoUp, FlagTypeOK, conn, life, control
    <2>2. ContextTypeOK' /\ WireTypeOK'
        BY <1>3 DEF GoUp, ContextTypeOK, WireTypeOK, conn, control, wire
    <2>3. ThreadTypeOK'
        <3>1. \E l \in StepsOf(Render) : Goto(Render, l)
            BY <1>0, <1>3 DEF GoUp, AfterPush
        <3> QED
            BY <1>3, <1>0, <3>1, GotoType, ReachType DEF GoUp, ThreadTypeOK, ReturnsTo
    <2> QED
        BY <2>1, <2>2, <2>3
<1>4. CASE PushBufs
    <2>1. FlagTypeOK'
        BY <1>4 DEF PushBufs, FlagTypeOK, conn, life, control
    <2>2. ContextTypeOK' /\ WireTypeOK'
        BY <1>4 DEF PushBufs, ContextTypeOK, WireTypeOK, conn, control, wire
    <2>3. ThreadTypeOK'
        <3>1. \E l \in StepsOf(Render) : Goto(Render, l)
            BY <1>0, <1>4 DEF PushBufs, AfterPush
        <3> QED
            BY <1>4, <1>0, <3>1, GotoType, ReachType DEF PushBufs, ThreadTypeOK, ReturnsTo
    <2> QED
        BY <2>1, <2>2, <2>3
<1>5. CASE PushInfos
    <2>1. FlagTypeOK'
        BY <1>5 DEF PushInfos, FlagTypeOK, conn, life, control
    <2>2. ContextTypeOK' /\ WireTypeOK'
        BY <1>5 DEF PushInfos, ContextTypeOK, WireTypeOK, conn, control, wire, Peers, Held
    <2>3. ThreadTypeOK'
        <3>1. \E l \in StepsOf(Render) : Goto(Render, l)
            BY <1>0, <1>5 DEF PushInfos, AfterPush
        <3> QED
            BY <1>5, <1>0, <3>1, GotoType, ReachType DEF PushInfos, ThreadTypeOK, ReturnsTo
    <2> QED
        BY <2>1, <2>2, <2>3
<1>6. CASE StartCheck
    <2>1. FlagTypeOK'
        BY <1>6 DEF StartCheck, FlagTypeOK, conn, life, control
    <2>2. ContextTypeOK' /\ WireTypeOK'
        BY <1>6 DEF StartCheck, Fault, ContextTypeOK, WireTypeOK, conn, control, wire
    <2>3. ThreadTypeOK'
        <3>1. \E l \in StepsOf(Render) : Goto(Render, l)
            BY <1>0, <1>6 DEF StartCheck, AfterPush
        <3> QED
            BY <1>6, <1>0, <3>1, GotoType, ReachType DEF StartCheck, ThreadTypeOK, ReturnsTo
    <2> QED
        BY <2>1, <2>2, <2>3
<1>7. CASE Join
    <2>1. FlagTypeOK'
        BY <1>7 DEF Join, FlagTypeOK, conn, life, control
    <2>2. ContextTypeOK' /\ WireTypeOK'
        BY <1>7 DEF Join, ContextTypeOK, WireTypeOK, conn, control, wire
    <2>3. ThreadTypeOK'
        <3>1. DOMAIN pc' = Threads /\ fd' = fd /\ ret' = ret /\ idx' = idx
            BY <1>7 DEF Join, ThreadTypeOK, Goto
        <3>2. \A t \in Threads : pc'[t] \in StepsOf(t)
            BY <1>0, <1>7, ThreadsDiffer DEF Join, ThreadTypeOK, Goto, StepsOf, EventSteps
        <3> QED
            BY <3>1, <3>2 DEF ThreadTypeOK
    <2> QED
        BY <2>1, <2>2, <2>3
<1>8. CASE Spawn
    <2>1. FlagTypeOK'
        BY <1>8 DEF Spawn, FlagTypeOK, conn, life, control
    <2>2. ContextTypeOK' /\ WireTypeOK'
        BY <1>8 DEF Spawn, Fault, ContextTypeOK, WireTypeOK, conn, control, wire
    <2>3. ThreadTypeOK'
        <3>1. DOMAIN pc' = Threads /\ fd' = fd /\ ret' = ret /\ idx' = idx
            BY <1>8 DEF Spawn, ThreadTypeOK, Goto
        <3>2. \A t \in Threads : pc'[t] \in StepsOf(t)
            BY <1>0, <1>8, ThreadsDiffer DEF Spawn, ThreadTypeOK, Goto, StepsOf, EventSteps
        <3> QED
            BY <3>1, <3>2 DEF ThreadTypeOK
    <2> QED
        BY <2>1, <2>2, <2>3
<1>9. CASE Recheck
    <2>1. FlagTypeOK'
        BY <1>9 DEF Recheck, FlagTypeOK, conn, life, control
    <2>2. ContextTypeOK' /\ WireTypeOK'
        BY <1>9 DEF Recheck, ContextTypeOK, WireTypeOK, conn, control, wire
    <2>3. ThreadTypeOK'
        <3>1. \E l \in StepsOf(Render) : Goto(Render, l)
            BY <1>0, <1>9 DEF Recheck, AfterPush
        <3> QED
            BY <1>9, <1>0, <3>1, GotoType, ReachType DEF Recheck, ThreadTypeOK, ReturnsTo
    <2> QED
        BY <2>1, <2>2, <2>3
<1>10. CASE Store
    <2>1. FlagTypeOK'
        BY <1>10 DEF Store, FlagTypeOK, conn, life, control
    <2>2. ContextTypeOK' /\ WireTypeOK'
        <3>1. PICK s \in Sessions : shm' = shm \/ shm' = [shm EXCEPT ![s] = idx]
            BY <1>10 DEF Store, ContextTypeOK, CurrentFd
        <3>2. shm' \in [Sessions -> Bufs]
            BY <3>1 DEF WireTypeOK, ThreadTypeOK
        <3> QED
            BY <1>10, <3>2 DEF Store, ContextTypeOK, WireTypeOK, conn
    <2>3. ThreadTypeOK'
        BY <1>0, <1>10, ThreadsDiffer DEF Store, ThreadTypeOK, Goto
    <2> QED
        BY <2>1, <2>2, <2>3
<1>11. CASE Signal
    <2>1. FlagTypeOK'
        BY <1>11 DEF Signal, FlagTypeOK, conn, life, control
    <2>2. ContextTypeOK' /\ WireTypeOK'
        BY <1>11 DEF Signal, ContextTypeOK, WireTypeOK, conn, control, wire
    <2>3. ThreadTypeOK'
        <3>1. \E l \in StepsOf(Render) : Goto(Render, l)
            BY <1>0, <1>11 DEF Signal, AfterPush
        <3> QED
            BY <1>11, <1>0, <3>1, GotoType, ReachType DEF Signal, ThreadTypeOK, ReturnsTo
    <2> QED
        BY <2>1, <2>2, <2>3
<1>12. CASE SetPending
    <2>1. FlagTypeOK'
        BY <1>12 DEF SetPending, FlagTypeOK, conn, life, control
    <2>2. ContextTypeOK' /\ WireTypeOK'
        BY <1>12 DEF SetPending, ContextTypeOK, WireTypeOK, conn, control, wire
    <2>3. ThreadTypeOK'
        <3>1. \E l \in StepsOf(Render) : Goto(Render, l)
            BY <1>0, <1>12 DEF SetPending, AfterPush
        <3> QED
            BY <1>12, <1>0, <3>1, GotoType, ReachType DEF SetPending, ThreadTypeOK, ReturnsTo
    <2> QED
        BY <2>1, <2>2, <2>3
<1>13. CASE RefreshCheck
    <2>1. FlagTypeOK'
        BY <1>13 DEF RefreshCheck, FlagTypeOK, conn, life, control
    <2>2. ContextTypeOK' /\ WireTypeOK'
        BY <1>13 DEF RefreshCheck, ContextTypeOK, WireTypeOK, conn, control, wire
    <2>3. ThreadTypeOK'
        <3>1. \E l \in StepsOf(Render) : Goto(Render, l)
            BY <1>0, <1>13 DEF RefreshCheck, AfterPush
        <3> QED
            BY <1>13, <1>0, <3>1, GotoType, ReachType DEF RefreshCheck, ThreadTypeOK, ReturnsTo
    <2> QED
        BY <2>1, <2>2, <2>3
<1>14. CASE PollFence
    <2>1. FlagTypeOK'
        BY <1>14 DEF PollFence, FlagTypeOK, conn, life, control
    <2>2. ContextTypeOK' /\ WireTypeOK'
        BY <1>14 DEF PollFence, ContextTypeOK, WireTypeOK, conn, control, wire
    <2>3. ThreadTypeOK'
        <3>1. PICK s \in Sessions \cup {NoFd} :
                 \/ Return(Render, "r_recv") /\ UNCHANGED ret
                 \/ Fail(Render, s, "r_select")
            BY <1>14, ReachType DEF PollFence
        <3>2. idx' = idx
            BY <1>14 DEF PollFence
        <3> QED
            BY <1>0, <3>1, <3>2, ThreadStepType DEF ThreadTypeOK
    <2> QED
        BY <2>1, <2>2, <2>3
<1>15. CASE RecvFence
    <2>1. FlagTypeOK'
        BY <1>15 DEF RecvFence, FlagTypeOK, conn, life, control
    <2>2. ContextTypeOK' /\ WireTypeOK'
        <3>1. ASSUME fence[session] # <<>>
              PROVE  Tail(fence[session]) \in Seq(Bufs)
            BY <3>1 DEF ContextTypeOK, WireTypeOK
        <3> QED
            BY <1>15, <3>1 DEF RecvFence, ContextTypeOK, WireTypeOK, conn, control, wire
    <2>3. ThreadTypeOK'
        <3>1. \/ Goto(Render, "r_select") /\ UNCHANGED <<ret, fd>>
              \/ Fail(Render, session, "r_select")
            BY <1>15 DEF RecvFence
        <3>2. idx' = idx /\ session \in Sessions
            BY <1>15 DEF RecvFence, ContextTypeOK
        <3> QED
            BY <1>0, <3>1, <3>2, ThreadStepType DEF ThreadTypeOK
    <2> QED
        BY <2>1, <2>2, <2>3
<1>16. CASE Load
    <2>1. FlagTypeOK'
        BY <1>16 DEF Load, FlagTypeOK, conn, life, control
    <2>2. ContextTypeOK' /\ WireTypeOK'
        BY <1>16 DEF Load, ContextTypeOK, WireTypeOK, conn, control, wire
    <2>3. ThreadTypeOK'
        BY <1>0, <1>16, ReachType, ThreadStepType DEF Load, ThreadTypeOK
    <2> QED
        BY <2>1, <2>2, <2>3
<1> QED
    BY <1>1, <1>2, <1>3, <1>4, <1>5, <1>6, <1>7, <1>8, <1>9, <1>10, <1>11, <1>12, <1>13, <1>14,
        <1>15, <1>16 DEF RenderOwn

\* What a recv_all leaves in the sockets, and where the event thread goes.
LEMMA ReadType ==
    ASSUME TypeOK, RecvData \/ RecvRest
    PROVE  /\ out' \in [Sessions -> Outs] /\ faults' \in Nat
           /\ \E s \in Sessions \cup {NoFd} :
                 \/ \E l \in {"e_top", "c_top"} : Return(Event, l) /\ UNCHANGED ret
                 \/ Fail(Event, s, "e_top")
                 \/ \E l \in {"e_rest", "c_rest"} : Blocks(s, l) /\ UNCHANGED ret
<1> USE DEF TypeOK, WireTypeOK, Outs, Fault
<1>1. MayReach(Event) \subseteq Sessions \cup {NoFd}
    BY ReachType
<1>2. CASE RecvData
    <2>1. PICK s \in MayReach(Event) :
             \/ EndOfFile(s)
             \/ ~Gone(s) /\ TakesMessage(s)
             \/ /\ ~Gone(s) /\ Leaves(s, IF out[s] = "some" THEN "cut" ELSE "empty")
                /\ Blocks(s, "e_rest") /\ UNCHANGED <<ret, faults>>
        BY <1>2 DEF RecvData
    <2>2. s \in Sessions \cup {NoFd} /\ (~Gone(s) => s \in Sessions)
        BY <1>1 DEF Gone
    <2>3. CASE EndOfFile(s)
        BY <2>2, <2>3 DEF EndOfFile
    <2>4. CASE ~Gone(s) /\ TakesMessage(s)
        BY <2>2, <2>4 DEF TakesMessage, Leaves
    <2>5. CASE /\ ~Gone(s) /\ Leaves(s, IF out[s] = "some" THEN "cut" ELSE "empty")
               /\ Blocks(s, "e_rest") /\ UNCHANGED <<ret, faults>>
        BY <2>2, <2>5 DEF Leaves
    <2> QED
        BY <2>1, <2>3, <2>4, <2>5
<1>3. CASE RecvRest
    <2>1. PICK s \in MayReach(Event) :
             \/ EndOfFile(s)
             \/ /\ ~Gone(s) /\ UNCHANGED <<ret, faults>>
                /\ \/ Leaves(s, "empty") /\ Return(Event, "e_top")
                   \/ Leaves(s, "cut") /\ Blocks(s, InRest)
             \/ ~Gone(s) /\ TakesForeign(s) /\ UNCHANGED faults
        BY <1>3 DEF RecvRest
    <2>2. s \in Sessions \cup {NoFd} /\ (~Gone(s) => s \in Sessions)
        BY <1>1 DEF Gone
    <2>3. CASE EndOfFile(s)
        BY <2>2, <2>3 DEF EndOfFile
    <2>4. CASE /\ ~Gone(s) /\ UNCHANGED <<ret, faults>>
               /\ \/ Leaves(s, "empty") /\ Return(Event, "e_top")
                  \/ Leaves(s, "cut") /\ Blocks(s, InRest)
        BY <2>2, <2>4 DEF Leaves, InRest
    <2>5. CASE ~Gone(s) /\ TakesForeign(s) /\ UNCHANGED faults
        BY <2>2, <2>5 DEF TakesForeign, Leaves, InRest
    <2> QED
        BY <2>1, <2>3, <2>4, <2>5
<1> QED
    BY <1>2, <1>3

\* The event thread's own steps keep the types.
LEMMA EventType ==
    ASSUME TypeOK, IInv, EventOwn
    PROVE  TypeOK'
<1> USE DEF TypeOK, Return, Fail, Capture
<1>0. /\ StepsOf(Event) = EventSteps /\ "ef_enter" \in EventSteps /\ "e_top" \in ReturnsTo(Event)
      /\ Reading \subseteq EventSteps
    BY ThreadsDiffer DEF StepsOf, EventSteps, EFSteps, ReturnsTo
<1> USE DEF EventSteps, Reading
<1>1. CASE EventTop
    <2>1. FlagTypeOK'
        BY <1>1 DEF EventTop, FlagTypeOK, conn, life, control
    <2>2. ContextTypeOK' /\ WireTypeOK'
        BY <1>1 DEF EventTop, Fault, ContextTypeOK, WireTypeOK, conn, control, wire
    <2>3. ThreadTypeOK'
        BY <1>0, <1>1, GotoType, ReachType DEF EventTop, ThreadTypeOK, ReturnsTo
    <2> QED
        BY <2>1, <2>2, <2>3
<1>2. CASE EventFd
    <2>1. FlagTypeOK'
        BY <1>2 DEF EventFd, FlagTypeOK, conn, life, control
    <2>2. ContextTypeOK' /\ WireTypeOK'
        BY <1>2 DEF EventFd, Fault, ContextTypeOK, WireTypeOK, conn, control, wire
    <2>3. ThreadTypeOK'
        <3>1. \E l \in EventSteps : Goto(Event, l)
            BY <1>2 DEF EventFd, FdHops
        <3> QED
            BY <1>0, <1>2, <3>1, GotoType, ReachType DEF EventFd, ThreadTypeOK, ReturnsTo
    <2> QED
        BY <2>1, <2>2, <2>3
<1>3. CASE PollData
    <2>1. FlagTypeOK'
        BY <1>3 DEF PollData, FlagTypeOK, conn, life, control
    <2>2. ContextTypeOK' /\ WireTypeOK'
        BY <1>3 DEF PollData, Fault, ContextTypeOK, WireTypeOK, conn, control, wire
    <2>3. ThreadTypeOK'
        <3>1. PICK s \in Sessions \cup {NoFd}, l \in {"e_recv0", "c_recv0", "e_top"} :
                 (Return(Event, l) /\ UNCHANGED ret) \/ Fail(Event, s, "e_top")
            BY <1>3, ReachType DEF PollData
        <3>2. idx' = idx
            BY <1>3 DEF PollData
        <3> QED
            BY <1>0, <3>1, <3>2, ThreadStepType DEF ThreadTypeOK
    <2> QED
        BY <2>1, <2>2, <2>3
<1>4. CASE RecvData \/ RecvRest
    <2>1. FlagTypeOK'
        BY <1>4 DEF RecvData, RecvRest, FlagTypeOK, conn, life
    <2>2. ContextTypeOK' /\ WireTypeOK'
        BY <1>4, ReadType DEF RecvData, RecvRest, ContextTypeOK, WireTypeOK, conn
    <2>3. ThreadTypeOK'
        <3>1. PICK s \in Sessions \cup {NoFd} :
                 \/ \E l \in {"e_top", "c_top"} : Return(Event, l) /\ UNCHANGED ret
                 \/ Fail(Event, s, "e_top")
                 \/ \E l \in {"e_rest", "c_rest"} : Blocks(s, l) /\ UNCHANGED ret
            BY <1>4, ReadType
        <3>2. idx' = idx
            BY <1>4 DEF RecvData, RecvRest
        <3> QED
            BY <1>0, <3>1, <3>2, ThreadStepType DEF ThreadTypeOK, Blocks
    <2> QED
        BY <2>1, <2>2, <2>3
<1>5. CASE EventBegin
    <2>1. FlagTypeOK'
        BY <1>5 DEF EventBegin, FlagTypeOK, conn, life, control
    <2>2. ContextTypeOK' /\ WireTypeOK'
        BY <1>5 DEF EventBegin, Fault, ContextTypeOK, WireTypeOK, conn, control, wire
    <2>3. ThreadTypeOK'
        BY <1>0, <1>5, GotoType, ReachType DEF EventBegin, ThreadTypeOK, ReturnsTo
    <2> QED
        BY <2>1, <2>2, <2>3
<1>6. CASE TextTop
    <2>1. FlagTypeOK'
        BY <1>6 DEF TextTop, FlagTypeOK, conn, life, control
    <2>2. ContextTypeOK' /\ WireTypeOK'
        BY <1>6 DEF TextTop, Fault, ContextTypeOK, WireTypeOK, conn, control, wire
    <2>3. ThreadTypeOK'
        BY <1>0, <1>6, GotoType, ReachType DEF TextTop, ThreadTypeOK, ReturnsTo
    <2> QED
        BY <2>1, <2>2, <2>3
<1> QED
    BY <1>1, <1>2, <1>3, <1>4, <1>5, <1>6 DEF EventOwn

\* What the event thread's own steps leave alone, and how it may end.
LEMMA EventMoves ==
    ASSUME TypeOK, EventOwn
    PROVE  /\ UNCHANGED <<conn, life, idx, crashed, overlapped, ready, peer, shm, sig, fence>>
           /\ pc[Event] \notin {"none", "exited"} \cup Locked
           /\ \E l \in EventSteps \ ({"none", "e_start"} \cup Locked) :
                 /\ Goto(Event, l)
                 /\ l = "exited" => pc[Event] = "e_start" \/ (pc[Event] = "e_top" /\ ~eventRunning)
           /\ \A t \in Threads \ {Event} : fd'[t] = fd[t]
<1> USE DEF Locked, EventSteps, Reading, EFSteps, wire
<1>1. CASE RecvData \/ RecvRest
    <2>1. /\ UNCHANGED <<conn, life, idx, crashed, overlapped, ready, peer, shm, sig, fence>>
          /\ pc[Event] \in Reading
        BY <1>1 DEF RecvData, RecvRest
    <2>2. \E l \in {"e_top", "c_top", "ef_enter", "e_rest", "c_rest"} : Goto(Event, l)
        BY <1>1, ReadType DEF Return, Fail, Blocks
    <2>3. \A t \in Threads \ {Event} : fd'[t] = fd[t]
        BY <1>1, ReadType DEF Return, Fail, Blocks, TypeOK, ThreadTypeOK
    <2> QED
        BY <2>1, <2>2, <2>3
<1>2. CASE EventBegin \/ EventTop \/ TextTop \/ PollData
    BY <1>2 DEF EventBegin, EventTop, TextTop, PollData, Return, Fail, TypeOK, ThreadTypeOK
<1>3. CASE EventFd
    BY <1>3 DEF EventFd, FdHops, Capture, TypeOK, ThreadTypeOK
<1> QED
    BY <1>1, <1>2, <1>3 DEF EventOwn

\* The daemon, the producers and their faults keep the types.
LEMMA EnvironmentType ==
    ASSUME TypeOK, Environment
    PROVE  TypeOK'
<1> USE DEF TypeOK
<1>1. /\ UNCHANGED <<conn, life, control>>
      /\ \/ \E s \in Sessions : Pickup(s) \/ Answer(s) \/ Report(s) \/ Finish(s)
                                  \/ Release(s)
         \/ Close \/ Stall \/ Desync
    BY DEF Environment, Pickup, Answer, Report, Finish, Release, Close, Stall, Desync
<1>2. FlagTypeOK' /\ ContextTypeOK' /\ ThreadTypeOK'
    BY <1>1 DEF conn, life, control, FlagTypeOK, ContextTypeOK, ThreadTypeOK
<1>3. WireTypeOK'
    <2> USE DEF WireTypeOK, ContextTypeOK, conn, wire
    <2>1. ASSUME NEW s \in Sessions, Pickup(s) PROVE WireTypeOK'
        BY <2>1 DEF Pickup, Peers, Held
    <2>2. ASSUME NEW s \in Sessions, Answer(s) PROVE WireTypeOK'
        <3>1. Append(fence[s], shm[s]) \in Seq(Bufs)
            OBVIOUS
        <3> QED
            BY <2>2, <3>1 DEF Answer
    <2>3. ASSUME NEW s \in Sessions, Report(s) \/ Finish(s) PROVE WireTypeOK'
        BY <2>3 DEF Report, Finish, Outs
    <2>4. ASSUME NEW s \in Sessions, Release(s) PROVE WireTypeOK'
        BY <2>4 DEF Release, Peers
    <2>5. CASE Close
        BY <2>5 DEF Close, Fault, Peers, Outs
    <2>6. CASE Stall
        BY <2>6 DEF Stall, Fault, Peers, Held
    <2>7. CASE Desync
        BY <2>7 DEF Desync, Fault, Outs
    <2> QED
        BY <1>1, <2>1, <2>2, <2>3, <2>4, <2>5, <2>6, <2>7
<1> QED
    BY <1>2, <1>3

\* No step takes a variable out of its type.
LEMMA TypeStep == TypeOK /\ IInv /\ [Next]_vars => TypeOK'
<1> SUFFICES ASSUME TypeOK, IInv, [Next]_vars PROVE TypeOK'
    OBVIOUS
<1>1. CASE RenderStep
    BY <1>1, RenderType, PushType, TearDownType DEF RenderStep
<1>2. CASE EventStep
    BY <1>2, EventType, TearDownType DEF EventStep
<1>3. ASSUME NEW t \in Inputs, InputStep(t) PROVE TypeOK'
    BY <1>3, PushType, TearDownType DEF InputStep
<1>4. CASE Environment
    BY <1>4, EnvironmentType
<1>5. CASE UNCHANGED vars
    BY <1>5 DEF vars, conn, life, control, wire, TypeOK, FlagTypeOK, ContextTypeOK,
                ThreadTypeOK, WireTypeOK
<1> QED
    BY <1>1, <1>2, <1>3, <1>4, <1>5 DEF Next, Stopped

-----------------------------------------------------------------------------
(* The invariant                                                           *)

\* A context begins in fallback, with nobody in a teardown.
LEMMA InitIInv == Init => IInv
<1> SUFFICES ASSUME Init PROVE IInv
    OBVIOUS
<1>1. LockInv
    BY ThreadsDiffer DEF Init, LockInv, Locked
<1>2. SessionInv
    BY ThreadsDiffer, BoundsAssumption DEF Init, SessionInv, Offered
<1>3. HandleInv
    BY ThreadsDiffer DEF Init, HandleInv
<1> QED
    BY <1>1, <1>2, <1>3 DEF IInv

\* Most steps move one thread, outside the lock and not into the
\* up-transition, and leave the connection and the producers alone.
LEMMA QuietStep ==
    ASSUME TypeOK, IInv, NEW t \in Threads, NEW l, Goto(t, l),
           UNCHANGED <<fallback, session, open, stateLock, joinable, ready, peer>>,
           pc[t] \notin Locked \cup {"none"},
           l \notin Locked \cup {"none", "r_up", "x_spawn"}
    PROVE  IInv'
<1> USE DEF TypeOK, ThreadTypeOK, Goto
<1>1. /\ \A u \in Threads : pc'[u] = IF u = t THEN l ELSE pc[u]
      /\ Render \in Threads /\ Event \in Threads
    OBVIOUS
<1>2. LockInv'
    BY <1>1 DEF IInv, LockInv, Locked
<1>3. SessionInv'
    BY <1>1 DEF IInv, SessionInv, Offered, PickedUp
<1>4. HandleInv'
    BY <1>1 DEF IInv, HandleInv
<1> QED
    BY <1>2, <1>3, <1>4 DEF IInv

\* enter_fallback keeps the invariant.
LEMMA TearDownIInv ==
    ASSUME TypeOK, IInv, NEW t \in Threads, TearDown(t)
    PROVE  IInv'
<1> USE DEF TypeOK, ThreadTypeOK, ContextTypeOK, WireTypeOK, FlagTypeOK, Return, Goto, IInv,
            LockInv, Locked, conn, life, wire
<1>0. /\ Render \in Threads /\ Event \in Threads
      /\ ret[t] \notin Locked \cup {"none", "r_up", "x_spawn"}
    BY DEF ReturnsTo
<1>1. CASE EnterFallback(t)
    <2>1. CASE fallback
        BY <1>0, <1>1, <2>1, QuietStep DEF EnterFallback
    <2>2. CASE ~fallback
        <3>1. /\ stateLock = NoThread /\ stateLock' = t /\ fallback' /\ session < MaxSession
              /\ \A u \in Threads : pc'[u] = IF u = t THEN "ef_close" ELSE pc[u]
              /\ pc[t] = "ef_enter"
              /\ UNCHANGED <<session, open, joinable, ready, peer>>
            BY <1>1, <2>2 DEF EnterFallback
        <3>2. LockInv'
            BY <3>1, ThreadsDiffer
        <3>3. SessionInv'
            BY <1>0, <2>2, <3>1, ThreadsDiffer DEF SessionInv, Offered, PickedUp
        <3>4. HandleInv'
            BY <1>0, <3>1 DEF HandleInv
        <3> QED
            BY <3>2, <3>3, <3>4
    <2> QED
        BY <2>1, <2>2
<1>2. CASE CloseFds(t)
    <2>1. /\ stateLock = t /\ fallback /\ ~open'
          /\ \A u \in Threads : pc'[u] = IF u = t THEN "ef_new" ELSE pc[u]
          /\ pc[t] = "ef_close"
          /\ UNCHANGED <<fallback, session, stateLock, joinable, ready, peer>>
        BY <1>2, ThreadsDiffer DEF CloseFds
    <2>2. LockInv'
        BY <2>1, ThreadsDiffer
    <2>3. SessionInv'
        BY <1>0, <2>1, ThreadsDiffer DEF SessionInv, Offered, PickedUp
    <2>4. HandleInv'
        BY <1>0, <2>1 DEF HandleInv
    <2> QED
        BY <2>2, <2>3, <2>4
<1>3. CASE Rehello(t)
    <2>1. /\ stateLock = t /\ fallback /\ ~open /\ stateLock' = NoThread
          /\ \A u \in Threads : pc'[u] = IF u = t THEN "ef_cb" ELSE pc[u]
          /\ pc[t] = "ef_new" /\ session < MaxSession
          /\ UNCHANGED <<fallback, joinable, ready>>
        BY <1>3, ThreadsDiffer DEF Rehello, Hello, ShmFails, Fault
    <2>2. LockInv'
        BY <2>1, ThreadsDiffer
    <2>3. SessionInv'
        <3>1. ready = {} /\ pc[Render] # "r_up" /\ pc'[Render] # "r_up" /\ PickedUp
            BY <1>0, <2>1, ThreadsDiffer DEF SessionInv, Offered
        <3>2. CASE UNCHANGED <<session, open, peer>>
            BY <2>1, <3>1, <3>2 DEF SessionInv, Offered, PickedUp
        <3>3. CASE /\ session' = session + 1 /\ open'
                   /\ peer' = [peer EXCEPT ![session + 1] = "hello"]
            <4>1. /\ session' \in Sessions
                  /\ \A s \in Sessions : peer'[s] = IF s = session + 1 THEN "hello" ELSE peer[s]
                BY <2>1, <3>3, BoundsAssumption
            <4>2. Offered'
                BY <2>1, <3>1, <3>3, <4>1 DEF Offered
            <4> QED
                BY <2>1, <3>1, <3>3, <4>1, <4>2 DEF SessionInv, PickedUp
        <3> QED
            BY <1>3, <3>2, <3>3 DEF Rehello, Hello, ShmFails, Fault
    <2>4. HandleInv'
        BY <1>0, <2>1 DEF HandleInv
    <2> QED
        BY <2>2, <2>3, <2>4
<1>4. CASE OnFallback(t)
    BY <1>0, <1>4, QuietStep DEF OnFallback
<1> QED
    BY <1>1, <1>2, <1>3, <1>4 DEF TearDown

\* push_input_event keeps the invariant.
LEMMA PushIInv ==
    ASSUME TypeOK, IInv, NEW t \in Inputs \cup {Render}, Push(t)
    PROVE  IInv'
<1>1. PICK l \in PushSteps \cup {"ef_enter", AfterPush(t)} : Goto(t, l)
    BY DEF Push, PushCheck, PushFd, PushSend, Return, Fail, PushSteps
<1>2. /\ UNCHANGED <<conn, life, wire>>
      /\ pc[t] \in PushSteps \cup {"idle", "x_rate"}
    BY DEF Push, PushCheck, PushFd, PushSend, PushSteps
<1> QED
    BY <1>1, <1>2, QuietStep DEF AfterPush, PushSteps, Locked, conn, life, wire

\* The event thread's own steps keep the invariant.
LEMMA EventIInv ==
    ASSUME TypeOK, IInv, EventOwn
    PROVE  IInv'
<1>1. PICK l \in EventSteps \ ({"none"} \cup Locked) : Goto(Event, l)
    BY EventMoves
<1>2. UNCHANGED <<conn, life, ready, peer>> /\ pc[Event] \notin {"none"} \cup Locked
    BY EventMoves
<1> QED
    BY <1>1, <1>2, QuietStep DEF EventSteps, Reading, EFSteps, Locked, conn, life

\* The render thread's own steps keep the invariant.
LEMMA RenderIInv ==
    ASSUME TypeOK, IInv, RenderOwn
    PROVE  IInv'
<1> USE DEF TypeOK, ThreadTypeOK, ContextTypeOK, WireTypeOK, Goto, IInv, LockInv, Locked,
            conn, life, wire
<1>0. Render \in Threads /\ Event \in Threads /\ Render # Event /\ NoThread \notin Threads
    BY ThreadsDiffer
<1>1. CASE Select \/ PushBufs \/ StartCheck \/ Recheck \/ Load \/ Signal \/ SetPending
           \/ RefreshCheck \/ PollFence \/ RecvFence
    <2>1. PICK l \in RenderSteps \ ({"r_up", "x_spawn"} \cup Locked) : Goto(Render, l)
        BY <1>1 DEF Select, PushBufs, StartCheck, Recheck, Load, Signal, SetPending,
                    RefreshCheck, PollFence, RecvFence, Return, Fail, Capture, RenderSteps,
                    EFSteps
    <2>2. /\ UNCHANGED <<fallback, session, open, stateLock, joinable, ready, peer>>
          /\ pc[Render] \notin Locked \cup {"none"}
        BY <1>1 DEF Select, PushBufs, StartCheck, Recheck, Load, Signal, SetPending,
                    RefreshCheck, PollFence, RecvFence
    <2> QED
        BY <1>0, <2>1, <2>2, QuietStep DEF RenderSteps, PushSteps, EFSteps
<1>2. CASE TryExit
    <2>1. CASE Goto(Render, "r_recheck") /\ UNCHANGED ready
        BY <1>0, <1>2, <2>1, QuietStep DEF TryExit
    <2>2. CASE /\ fallback /\ Goto(Render, "r_up")
               /\ \E s \in ready : ready' = ready \ {s}
        <3>0. ready = {session} /\ ready' = {}
            <4>1. ready \subseteq {session}
                BY DEF SessionInv
            <4>2. PICK s \in ready : ready' = ready \ {s}
                BY <2>2
            <4>3. s = session
                BY <4>1, <4>2
            <4>4. ready = {session}
                BY <4>1, <4>2, <4>3
            <4> QED
                BY <4>2, <4>3, <4>4
        <3>1. /\ ready = {session} /\ ready' = {}
              /\ \A u \in Threads : pc'[u] = IF u = Render THEN "r_up" ELSE pc[u]
              /\ UNCHANGED <<fallback, session, open, stateLock, joinable, peer>>
            BY <1>2, <2>2, <3>0 DEF TryExit
        <3>2. open /\ stateLock = NoThread /\ PickedUp
            BY <2>2, <3>1 DEF SessionInv, Offered
        <3>3. LockInv'
            BY <1>0, <1>2, <3>1 DEF TryExit
        <3>4. SessionInv'
            BY <1>0, <2>2, <3>1, <3>2 DEF SessionInv, PickedUp
        <3>5. HandleInv'
            BY <1>0, <3>1 DEF HandleInv
        <3> QED
            BY <3>3, <3>4, <3>5
    <2> QED
        BY <1>2, <2>1, <2>2 DEF TryExit
<1>3. CASE GoUp
    <2>1. /\ pc[Render] = "r_up" /\ stateLock = NoThread /\ ~fallback'
          /\ \A u \in Threads \ {Render} : pc'[u] = pc[u]
          /\ pc'[Render] \in {"r_bufs", "r_recheck"}
          /\ UNCHANGED <<session, open, stateLock, joinable, ready, peer>>
        BY <1>0, <1>3 DEF GoUp
    <2>2. open /\ ready = {} /\ PickedUp
        BY <2>1 DEF SessionInv, Offered
    <2>3. LockInv'
        BY <1>0, <2>1
    <2>4. SessionInv'
        BY <1>0, <2>1, <2>2 DEF SessionInv, PickedUp
    <2>5. HandleInv'
        BY <1>0, <2>1 DEF HandleInv
    <2> QED
        BY <2>3, <2>4, <2>5
<1>4. CASE PushInfos
    <2>1. /\ pc[Render] = "r_infos"
          /\ \A u \in Threads \ {Render} : pc'[u] = pc[u]
          /\ pc'[Render] \in {"ef_enter", "x_rate"}
          /\ UNCHANGED <<fallback, session, open, stateLock, joinable, ready>>
        BY <1>0, <1>4 DEF PushInfos, Fail, Return
    <2>2. \A s \in Sessions : \/ peer'[s] = peer[s]
                              \/ s = session /\ peer[s] = "live" /\ peer'[s] = "fed"
        BY <1>4 DEF PushInfos
    <2>3. LockInv'
        BY <1>0, <2>1
    <2>4. SessionInv'
        BY <1>0, <2>1, <2>2 DEF SessionInv, Offered, PickedUp, Held
    <2>5. HandleInv'
        BY <1>0, <2>1 DEF HandleInv
    <2> QED
        BY <2>3, <2>4, <2>5
<1>5. CASE Join
    <2>1. /\ pc[Render] = "x_join" /\ pc'[Render] = "x_spawn"
          /\ pc'[Event] = (IF joinable THEN "none" ELSE pc[Event])
          /\ joinable => pc[Event] = "exited"
          /\ \A u \in Threads \ {Render, Event} : pc'[u] = pc[u]
          /\ UNCHANGED <<fallback, session, open, stateLock, ready, peer>>
        BY <1>0, <1>5 DEF Join
    <2>2. ~joinable'
        BY <1>5 DEF Join
    <2>3. LockInv'
        BY <1>0, <2>1
    <2>4. SessionInv'
        BY <1>0, <2>1 DEF SessionInv, Offered, PickedUp
    <2>5. HandleInv'
        BY <1>0, <2>1, <2>2 DEF HandleInv
    <2> QED
        BY <2>3, <2>4, <2>5
<1>6. CASE Spawn
    <2>1. CASE Goto(Render, "r_recheck") /\ UNCHANGED joinable
        BY <1>0, <1>6, <2>1, QuietStep DEF Spawn
    <2>2. CASE /\ joinable'
               /\ pc' = [pc EXCEPT ![Render] = "r_recheck", ![Event] = "e_start"]
        <3>1. /\ pc[Render] = "x_spawn" /\ pc[Event] = "none"
              /\ pc'[Render] = "r_recheck" /\ pc'[Event] = "e_start"
              /\ \A u \in Threads \ {Render, Event} : pc'[u] = pc[u]
              /\ UNCHANGED <<fallback, session, open, stateLock, ready, peer>>
            BY <1>0, <1>6, <2>2 DEF Spawn, HandleInv
        <3>2. LockInv'
            BY <1>0, <3>1
        <3>3. SessionInv'
            BY <1>0, <3>1 DEF SessionInv, Offered, PickedUp
        <3>4. HandleInv'
            BY <1>0, <2>2, <3>1 DEF HandleInv
        <3> QED
            BY <3>2, <3>3, <3>4
    <2> QED
        BY <1>6, <2>1, <2>2 DEF Spawn
<1>7. CASE Store
    <2>1. CASE Goto(Render, "r_signal")
        BY <1>0, <1>7, <2>1, QuietStep DEF Store
    <2>2. CASE UNCHANGED pc
        BY <1>7, <2>2 DEF Store, SessionInv, Offered, PickedUp, HandleInv
    <2> QED
        BY <1>7, <2>1, <2>2 DEF Store, Return
<1> QED
    BY <1>1, <1>2, <1>3, <1>4, <1>5, <1>6, <1>7 DEF RenderOwn

\* The daemon and the producers keep the invariant: only the generation on
\* offer can be picked up.
LEMMA EnvironmentIInv ==
    ASSUME TypeOK, IInv, Environment
    PROVE  IInv'
<1> USE DEF TypeOK, ContextTypeOK, WireTypeOK, IInv, conn, life, control, wire
<1>1. CASE \E s \in Sessions : Pickup(s)
    <2>1. PICK s \in Sessions : Pickup(s)
        BY <1>1
    <2>2. s = session /\ Offered
        BY <2>1 DEF Pickup, SessionInv, PickedUp, Held
    <2>3. /\ UNCHANGED <<conn, life, control>> /\ ready' = {session}
          /\ \A u \in Sessions : peer'[u] = IF u = session THEN "live" ELSE peer[u]
        BY <2>1, <2>2 DEF Pickup, Offered
    <2>4. LockInv' /\ HandleInv'
        BY <2>3 DEF LockInv, HandleInv
    <2>5. SessionInv'
        BY <2>2, <2>3 DEF SessionInv, Offered, PickedUp, Held
    <2> QED
        BY <2>4, <2>5
<1>2. CASE \/ \E s \in Sessions : Answer(s) \/ Report(s) \/ Finish(s) \/ Release(s)
           \/ Close \/ Stall \/ Desync
    <2>1. /\ UNCHANGED <<conn, life, control, ready>>
          /\ \A u \in Sessions : \/ peer'[u] = peer[u]
                                 \/ peer[u] \in Held /\ peer'[u] \in Held \cup {"closed"}
        BY <1>2 DEF Answer, Report, Finish, Release, Close, Stall, Desync, Held
    <2>2. LockInv' /\ HandleInv'
        BY <2>1 DEF LockInv, HandleInv
    <2>3. SessionInv'
        BY <2>1 DEF SessionInv, Offered, PickedUp, Held
    <2> QED
        BY <2>2, <2>3
<1> QED
    BY <1>1, <1>2 DEF Environment

\* The invariant is inductive.
LEMMA IInvStep == TypeOK /\ IInv /\ [Next]_vars => IInv'
<1> SUFFICES ASSUME TypeOK, IInv, [Next]_vars PROVE IInv'
    OBVIOUS
<1>1. CASE RenderStep
    BY <1>1, RenderIInv, PushIInv, TearDownIInv DEF RenderStep
<1>2. CASE EventStep
    BY <1>2, EventIInv, TearDownIInv DEF EventStep
<1>3. ASSUME NEW t \in Inputs, InputStep(t) PROVE IInv'
    BY <1>3, PushIInv, TearDownIInv DEF InputStep
<1>4. CASE Environment
    BY <1>4, EnvironmentIInv
<1>5. CASE UNCHANGED vars
    BY <1>5 DEF vars, conn, life, control, wire, IInv, LockInv, SessionInv, HandleInv, Offered,
                PickedUp
<1> QED
    BY <1>1, <1>2, <1>3, <1>4, <1>5 DEF Next, Stopped

-----------------------------------------------------------------------------
(* Theorems                                                                *)

\* The typing and the invariant, which need each other.
LEMMA Inductive == Spec => [](TypeOK /\ IInv)
<1>1. Init => TypeOK /\ IInv
    BY InitType, InitIInv
<1>2. TypeOK /\ IInv /\ [Next]_vars => (TypeOK /\ IInv)'
    BY TypeStep, IInvStep
<1> QED
    BY <1>1, <1>2, PTL DEF Spec

\* Every thread is at a step of its own code and every value in its range,
\* whatever the threads, the faults and the number of generations.
THEOREM TypeCorrect == Spec => []TypeOK
BY Inductive, PTL

\* Descriptors are replaced by one thread at a time, and only in fallback.
THEOREM OneTearsDown == Spec => []TeardownExclusive
<1>1. TypeOK /\ IInv => TeardownExclusive
    BY DEF IInv, LockInv, SessionInv, TeardownExclusive
<1> QED
    BY <1>1, Inductive, PTL

\* An FDS_READY never outlives the generation it is about.
THEOREM NoStaleReady == Spec => []ReadyIsCurrent
<1>1. TypeOK /\ IInv => ReadyIsCurrent
    BY DEF IInv, SessionInv, ReadyIsCurrent
<1> QED
    BY <1>1, Inductive, PTL

\* Out of fallback, a producer holds the other ends or has closed them.
THEOREM UpIsPickedUp == Spec => []UpOnPickedUpFds
<1>1. TypeOK /\ IInv => UpOnPickedUpFds
    BY DEF IInv, SessionInv, Offered, PickedUp, UpOnPickedUpFds
<1> QED
    BY <1>1, Inductive, PTL

\* There is never a second event thread, nor a lost handle.
THEOREM EventThreadUnique == Spec => []OneEventThread
<1>1. TypeOK /\ IInv => OneEventThread
    BY DEF IInv, HandleInv, OneEventThread
<1> QED
    BY <1>1, Inductive, PTL

-----------------------------------------------------------------------------
(* The unlocked store, and the join                                        *)

\* A page the render thread has loaded is the one in place, or a teardown began.
PageInv ==
    /\ pc[Render] = "r_store" => fallback \/ fd[Render] = CurrentFd
    /\ crashed => fallback /\ pc[Render] = "r_store"

LEMMA PageStep ==
    ASSUME TypeOK, IInv, PageInv, [Next]_vars
    PROVE  PageInv'
<1> USE ThreadsDiffer DEF PageInv, CurrentFd, TypeOK, FlagTypeOK, ThreadTypeOK, ContextTypeOK,
        conn, control, life, wire
<1>1. ASSUME UNCHANGED <<fallback, session, open, crashed>>, pc'[Render] = pc[Render],
             fd'[Render] = fd[Render]
      PROVE  PageInv'
    BY <1>1
<1>2. ASSUME UNCHANGED crashed, ~crashed, pc'[Render] # "r_store"
      PROVE  PageInv'
    BY <1>2
<1>3. ASSUME NEW t \in Threads, TearDown(t), ~crashed PROVE PageInv'
    <2> USE DEF Goto, Return
    <2>1. CASE EnterFallback(t)
        BY <1>3, <2>1 DEF EnterFallback, ReturnsTo
    <2>2. CASE CloseFds(t)
        BY <1>3, <2>2 DEF CloseFds, IInv, LockInv, Locked
    <2>3. CASE Rehello(t)
        BY <1>3, <2>3 DEF Rehello, IInv, LockInv, Locked
    <2>4. CASE OnFallback(t)
        BY <1>3, <2>4 DEF OnFallback, ReturnsTo
    <2> QED
        BY <1>3, <2>1, <2>2, <2>3, <2>4 DEF TearDown
<1>4. ASSUME NEW t \in Inputs \cup {Render}, Push(t), ~crashed PROVE PageInv'
    BY <1>4 DEF Push, PushCheck, PushFd, PushSend, Capture, Goto, Return, Fail, AfterPush
<1>5. CASE RenderOwn /\ ~crashed
    <2>1. CASE Load
        BY <1>5, <2>1 DEF Load, Capture, Goto
    <2>2. CASE Store
        BY <1>5, <2>2 DEF Store, Goto, Return, IInv, SessionInv
    <2>3. CASE ~Load /\ ~Store
        BY <1>2, <1>5, <2>3
        DEF RenderOwn, Select, TryExit, GoUp, PushBufs, PushInfos, StartCheck, Join, Spawn,
            Recheck, Signal, SetPending, RefreshCheck, PollFence, RecvFence, Goto, Return, Fail
    <2> QED
        BY <2>1, <2>2, <2>3
<1>6. CASE EventOwn
    <2>1. pc'[Render] = pc[Render]
        BY <1>6, EventMoves DEF Goto
    <2> QED
        BY <1>1, <1>6, <2>1, EventMoves
<1>7. CASE Environment \/ UNCHANGED vars
    BY <1>1, <1>7 DEF Environment, Pickup, Answer, Report, Finish, Release, Close, Stall,
                      Desync, vars
<1>8. Render \in Threads /\ Event \in Threads /\ \A t \in Inputs : t \in Threads
    OBVIOUS
<1> QED
    BY <1>3, <1>4, <1>5, <1>6, <1>7, <1>8 DEF Next, RenderStep, EventStep, InputStep, Stopped

LEMMA PageKept == Spec => []PageInv
<1>1. Init => PageInv
    BY ThreadsDiffer DEF Init, PageInv
<1>2. TypeOK /\ IInv /\ PageInv /\ [Next]_vars => PageInv'
    BY PageStep
<1> QED
    BY <1>1, <1>2, Inductive, PTL DEF Spec

\* A store through a page that is NULL or unmapped happens only with `fallback`
\* set, though the teardown may be over by then: for any number of threads,
\* generations and faults, no connection that is up dies of the unlocked store.
THEOREM StoreKillsInFallback == Spec => []UpNeverCrashes
<1>1. PageInv => UpNeverCrashes
    BY DEF PageInv, UpNeverCrashes
<1> QED
    BY <1>1, PageKept, PTL

\* pthread_join of the event thread is called without state_lock, and only for a
\* thread that exists and was told to stop.
JoinsStopped ==
    pc[Render] = "x_join" =>
        /\ ~eventRunning /\ stateLock # Render
        /\ joinable => pc[Event] # "none"

\* Only the render thread sets event_running, in pthread_create.
StopInv == pc[Render] \in {"x_join", "x_spawn"} => ~eventRunning

LEMMA StopStep == ASSUME TypeOK, StopInv, [Next]_vars PROVE StopInv'
<1> USE ThreadsDiffer DEF StopInv, Goto, Return, Fail, TypeOK, ThreadTypeOK, StepsOf, ReturnsTo,
        RenderSteps, PushSteps, EFSteps, Locked, conn, control, life, wire
<1>1. ASSUME NEW t \in Threads, TearDown(t) PROVE StopInv'
    BY <1>1 DEF TearDown, EnterFallback, CloseFds, Rehello, OnFallback
<1>2. ASSUME NEW t \in Threads, Push(t) PROVE StopInv'
    BY <1>2 DEF Push, PushCheck, PushFd, PushSend, AfterPush, Capture
<1>3. CASE RenderOwn
    BY <1>3 DEF RenderOwn, Select, TryExit, GoUp, PushBufs, PushInfos, StartCheck, Join, Spawn,
                Recheck, Load, Store, Signal, SetPending, RefreshCheck, PollFence, RecvFence, Capture
<1>4. CASE EventOwn
    BY <1>4, EventMoves
<1>5. CASE Environment \/ UNCHANGED vars
    BY <1>5 DEF Environment, Pickup, Answer, Report, Finish, Release, Close, Stall,
                Desync, vars
<1> QED
    BY <1>1, <1>2, <1>3, <1>4, <1>5 DEF Next, RenderStep, EventStep, InputStep, Stopped

LEMMA StopKept == Spec => []StopInv
<1>1. Init => StopInv
    BY ThreadsDiffer DEF Init, StopInv
<1>2. TypeOK /\ StopInv /\ [Next]_vars => StopInv'
    BY StopStep
<1> QED
    BY <1>1, <1>2, Inductive, PTL DEF Spec

\* So the render thread's wait is never for a thread that nobody stops, nor for one
\* that waits for a lock the render thread holds.
THEOREM JoinIsForStopped == Spec => []JoinsStopped
<1>1. TypeOK /\ IInv /\ StopInv => JoinsStopped
    BY ThreadsDiffer DEF IInv, LockInv, HandleInv, Locked, StopInv, JoinsStopped
<1> QED
    BY <1>1, StopKept, Inductive, PTL DEF Spec

-----------------------------------------------------------------------------
(* DisplayConsumer implements EventThreadLife                              *)

LEMMA WorkerInit == Init => Worker!ETInit
BY ThreadsDiffer DEF Init, Worker!ETInit

\* Steps at which the event thread neither begins nor ends show at most that it is
\* told to stop.
LEMMA WorkerTold ==
    ASSUME joinable' = joinable, eventRunning' = eventRunning \/ eventRunning' = FALSE,
           \A l \in {"none", "e_start", "exited"} : (pc'[Event] = l) <=> (pc[Event] = l)
    PROVE  [Worker!ETNext]_(Worker!etVars)
BY DEF Worker!ETNext, Worker!Tell, Worker!etVars

\* Every step is a step of the abstract event thread or does not show in it.
LEMMA WorkerStep ==
    ASSUME TypeOK, IInv, StopInv, [Next]_vars
    PROVE  [Worker!ETNext]_(Worker!etVars)
<1> USE ThreadsDiffer, WorkerTold DEF Goto, Return, Fail, TypeOK, ThreadTypeOK, StepsOf,
        ReturnsTo, EventSteps, PushSteps, EFSteps, Locked, conn, control, life, wire
<1>1. ASSUME NEW t \in Threads, TearDown(t) PROVE [Worker!ETNext]_(Worker!etVars)
    BY <1>1 DEF TearDown, EnterFallback, CloseFds, Rehello, OnFallback
<1>2. ASSUME NEW t \in Threads, t # Event, Push(t) PROVE [Worker!ETNext]_(Worker!etVars)
    BY <1>2 DEF Push, PushCheck, PushFd, PushSend, Capture
<1>3. CASE Join
    <2>1. CASE joinable
        BY <1>3, <2>1 DEF Join, StopInv, Worker!ETNext, Worker!JoinIt
    <2>2. CASE ~joinable
        <3>1. joinable' = joinable /\ eventRunning' = eventRunning
            BY <1>3, <2>2 DEF Join, FlagTypeOK
        <3>2. pc[Event] = "none" /\ pc'[Event] = "none"
            BY <1>3, <2>2 DEF Join, IInv, HandleInv
        <3> QED
            BY <3>1, <3>2
    <2> QED
        BY <2>1, <2>2
<1>4. CASE Spawn
    <2>1. pc[Event] = "none" /\ eventRunning = FALSE
        BY <1>4 DEF Spawn, IInv, HandleInv, StopInv, FlagTypeOK
    <2>2. CASE eventRunning'
        <3>1. pc'[Event] = "e_start" /\ eventRunning' = TRUE /\ joinable' = TRUE
            BY <1>4, <2>2 DEF Spawn
        <3> QED
            BY <2>1, <3>1 DEF Worker!ETNext, Worker!Start
    <2>3. CASE ~eventRunning'
        BY <1>4, <2>3 DEF Spawn
    <2> QED
        BY <2>2, <2>3
<1>5. CASE RenderOwn /\ ~Join /\ ~Spawn
    BY <1>5 DEF RenderOwn, Select, TryExit, GoUp, PushBufs, PushInfos, StartCheck, Recheck,
                Load, Store, Signal, SetPending, RefreshCheck, PollFence, RecvFence, Capture
<1>6. CASE EventOwn
    <2>1. UNCHANGED <<joinable, eventRunning>>
        BY <1>6, EventMoves
    <2>2. PICK l \in EventSteps \ ({"none", "e_start"} \cup Locked) :
             /\ Goto(Event, l)
             /\ l = "exited" => pc[Event] = "e_start" \/ (pc[Event] = "e_top" /\ ~eventRunning)
        BY <1>6, EventMoves
    <2>3. pc'[Event] = l /\ pc[Event] \notin {"none", "exited"}
        BY <1>6, <2>2, EventMoves
    <2>4. CASE l = "exited"
        BY <2>1, <2>2, <2>3, <2>4 DEF Worker!ETNext, Worker!End, Worker!GiveUp
    <2>5. CASE l # "exited" /\ pc[Event] = "e_start"
        BY <2>1, <2>2, <2>3, <2>5 DEF Worker!ETNext, Worker!Begin
    <2>6. CASE l # "exited" /\ pc[Event] # "e_start"
        BY <2>1, <2>2, <2>3, <2>6
    <2> QED
        BY <2>4, <2>5, <2>6
<1>8. CASE Environment \/ UNCHANGED vars
    BY <1>8 DEF Environment, Pickup, Answer, Report, Finish, Release, Close, Stall,
                Desync, vars
<1> QED
    BY <1>1, <1>2, <1>3, <1>4, <1>5, <1>6, <1>8
    DEF Next, RenderStep, EventStep, InputStep, Stopped

\* Whichever threads fail, signal and start: one event thread at a time, joined
\* before the next, which listens until it is told to stop and is never revived.
THEOREM ImplementsEventThread == Spec => EventThreadSpec
<1>1. TypeOK /\ IInv /\ StopInv /\ [Next]_vars => [Worker!ETNext]_(Worker!etVars)
    BY WorkerStep
<1> QED
    BY <1>1, WorkerInit, StopKept, Inductive, PTL DEF Spec, EventThreadSpec, Worker!ETSpec

-----------------------------------------------------------------------------
(* DisplayConsumer implements DisplaySession                               *)

\* The initial generation is the one on offer.
LEMMA InitRefines == Init => Session!DSInit
BY BoundsAssumption, ThreadsDiffer DEF Init, Session!DSInit, Phase

\* Steps that leave the connection and its hello alone do not show.
LEMMA Stutter ==
    ASSUME UNCHANGED <<fallback, session, open, stateLock>>,
           (peer'[session] = "hello") <=> (peer[session] = "hello")
    PROVE  UNCHANGED Session!dsVars
BY DEF Phase, Session!dsVars

\* Every step is a step of the abstract session or does not show in it.
LEMMA StepRefines == TypeOK /\ IInv /\ [Next]_vars => [Session!DSNext]_(Session!dsVars)
<1> SUFFICES ASSUME TypeOK, IInv, [Next]_vars
             PROVE  Session!DSNext \/ UNCHANGED Session!dsVars
    OBVIOUS
<1> USE DEF TypeOK, ContextTypeOK, ThreadTypeOK, WireTypeOK, IInv, conn, life, control, wire
<1>1. ASSUME NEW t \in Threads, TearDown(t)
      PROVE  Session!DSNext \/ UNCHANGED Session!dsVars
    <2>1. CASE EnterFallback(t) /\ fallback
        BY <2>1, Stutter DEF EnterFallback
    <2>2. CASE EnterFallback(t) /\ ~fallback
        <3>1. Phase = "up" /\ Phase' = "torn" /\ session' = session
            BY <2>2, ThreadsDiffer DEF EnterFallback, Phase
        <3> QED
            BY <3>1 DEF Session!DSNext, Session!Down
    <2>3. CASE CloseFds(t)
        <3>1. Phase = "torn" /\ Phase' = "torn" /\ session' = session
            BY <2>3, ThreadsDiffer DEF CloseFds, Phase, LockInv, Locked
        <3> QED
            BY <3>1 DEF Session!dsVars
    <2>4. CASE Rehello(t)
        <3>1. Phase = "torn" /\ fallback' /\ stateLock' = NoThread
            BY <2>4, ThreadsDiffer DEF Rehello, Hello, ShmFails, Fault, Phase, LockInv, Locked
        <3>2. CASE session' = session + 1 /\ open' /\ peer' = [peer EXCEPT ![session + 1] = "hello"]
            <4>1. session + 1 \in Sessions
                BY <2>4, BoundsAssumption, ThreadsDiffer DEF Rehello, Hello, ShmFails, Fault,
                    LockInv, Locked
            <4>2. Phase' = "offered"
                BY <3>1, <3>2, <4>1 DEF Phase
            <4> QED
                BY <3>1, <3>2, <4>2 DEF Session!DSNext, Session!Renew
        <3>3. CASE UNCHANGED <<session, open, peer>>
            <4>1. Phase' = "torn"
                BY <2>4, <3>1, <3>3 DEF Rehello, Hello, ShmFails, Fault, Phase, LockInv, Locked
            <4> QED
                BY <3>1, <3>3, <4>1 DEF Session!dsVars
        <3> QED
            BY <2>4, <3>2, <3>3 DEF Rehello, Hello, ShmFails, Fault
    <2>5. CASE OnFallback(t)
        BY <2>5, Stutter DEF OnFallback
    <2> QED
        BY <1>1, <2>1, <2>2, <2>3, <2>4, <2>5 DEF TearDown
<1>2. ASSUME NEW t \in Threads, Push(t)
      PROVE  UNCHANGED Session!dsVars
    BY <1>2, Stutter DEF Push, PushCheck, PushFd, PushSend
<1>3. CASE RenderOwn
    <2>1. CASE GoUp
        <3>1. Phase = "granted" /\ Phase' = "up" /\ session' = session
            BY <2>1 DEF GoUp, Phase, SessionInv, Offered, PickedUp, Held
        <3> QED
            BY <3>1 DEF Session!DSNext, Session!Up
    <2>2. CASE PushInfos
        <3>1. (peer'[session] = "hello") <=> (peer[session] = "hello")
            BY <2>2 DEF PushInfos
        <3> QED
            BY <2>2, <3>1, Stutter DEF PushInfos
    <2>3. CASE ~GoUp /\ ~PushInfos
        <3>1. UNCHANGED <<fallback, session, open, stateLock, peer>>
            BY <1>3, <2>3 DEF RenderOwn, Select, TryExit, PushBufs, StartCheck, Join, Spawn,
                Recheck, Load, Store, Signal, SetPending, RefreshCheck, PollFence, RecvFence
        <3> QED
            BY <3>1, Stutter
    <2> QED
        BY <2>1, <2>2, <2>3
<1>4. CASE EventOwn
    BY <1>4, Stutter, EventMoves
<1>5. CASE \E s \in Sessions : Pickup(s)
    <2>1. PICK s \in Sessions : Pickup(s)
        BY <1>5
    <2>2. s = session /\ Offered
        BY <2>1 DEF Pickup, SessionInv, PickedUp, Held
    <2>3. Phase = "offered" /\ Phase' = "granted" /\ session' = session
        BY <2>1, <2>2 DEF Pickup, Offered, Phase
    <2> QED
        BY <2>3 DEF Session!DSNext, Session!Grant
<1>6. CASE \/ \E s \in Sessions : Answer(s) \/ Report(s) \/ Finish(s) \/ Release(s)
           \/ Close \/ Stall \/ Desync
    <2>1. /\ UNCHANGED <<fallback, session, open, stateLock>>
          /\ (peer'[session] = "hello") <=> (peer[session] = "hello")
        BY <1>6 DEF Answer, Report, Finish, Release, Close, Stall, Desync, Held
    <2> QED
        BY <2>1, Stutter
<1>7. CASE UNCHANGED vars
    BY <1>7, Stutter DEF vars
<1> QED
    BY <1>1, <1>2, <1>3, <1>4, <1>5, <1>6, <1>7
    DEF Next, RenderStep, EventStep, InputStep, Environment, Stopped

\* libdisplay_consumer with all its threads implements the session a user
\* sees: one offer per generation, used only after it was picked up.
THEOREM ImplementsSession == Spec => SessionSpec
<1>1. Init => Session!DSInit
    BY InitRefines
<1>2. TypeOK /\ IInv /\ [Next]_vars => [Session!DSNext]_(Session!dsVars)
    BY StepRefines
<1> QED
    BY <1>1, <1>2, Inductive, PTL DEF Spec, SessionSpec, Session!DSSpec
=============================================================================
