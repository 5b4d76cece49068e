------------------------- MODULE DisplayFenceProofs -------------------------
(***************************************************************************)
(* The render thread's fence is the fence of its frame, for any threads,   *)
(* buffers, generations and faults, as long as no buffer is signalled      *)
(* while another thread tears the session down.                            *)
(***************************************************************************)
EXTENDS DisplayConsumerProofs

USE DEF Threads, Sessions, NoFd

-----------------------------------------------------------------------------
(* The inductive invariant                                                 *)

\* Nothing of a frame is under way in the current session.
Clean == sig[session] = FALSE /\ fence[session] = <<>>

\* What is under way is the frame of the buffer the render thread holds.
Match ==
    /\ sig[session] = TRUE => shm[session] = idx
    /\ fence[session] # <<>> => Head(fence[session]) = idx

\* The render thread is on its way to the fence, or to the teardown that a
\* missing fence asks for.
Waiting ==
    /\ pc[Render] \in {"r_pend", "r_refresh", "r_poll", "r_recv", "ef_enter", "ef_close",
                       "ef_new"}
    /\ pc[Render] = "r_refresh" => pending = TRUE \/ fallback = TRUE
    /\ pc[Render] = "r_poll" => fd[Render] = session
    /\ pc[Render] = "r_recv" => fence[session] # <<>> \/ peer[session] = "closed"

\* Another thread's teardown made it forget the frame: it goes round without
\* signalling or waiting until that session is gone.
Forsaken ==
    /\ pc[Render] \in {"r_select", "r_try", "r_recheck", "r_refresh"}
    /\ pending = FALSE /\ fallback = TRUE

\* At most one token, a signal or its answer, is in a session, and only
\* between the signal and the end of the wait.
FrameInv ==
    /\ \A s \in Sessions : s > session => sig[s] = FALSE /\ fence[s] = <<>>
    /\ sig[session] = TRUE => fence[session] = <<>>
    /\ Len(fence[session]) <= 1
    /\ open = TRUE /\ fallback = TRUE /\ stateLock = NoThread => Clean
    /\ open = TRUE /\ ~Clean => (Match /\ Waiting) \/ Forsaken
    /\ pc[Render] = "r_signal" => fallback = TRUE \/ shm[session] = idx

FenceInv == overlapped = FALSE => FrameInv

\* Nothing is under way when a context begins.
LEMMA InitFenceInv == Init => FenceInv
BY BoundsAssumption, ThreadsDiffer DEF Init, FenceInv, FrameInv, Clean

\* Steps that leave the render thread and the frame's way alone.
LEMMA FrameQuiet ==
    ASSUME FrameInv, UNCHANGED <<conn, idx, shm, sig, fence>>,
           pc'[Render] = pc[Render], fd'[Render] = fd[Render],
           peer[session] = "closed" => peer'[session] = "closed"
    PROVE  FrameInv'
BY DEF FrameInv, Clean, Match, Waiting, Forsaken, conn

\* Steps of the render thread while nothing is under way.
LEMMA FrameIdle ==
    ASSUME FrameInv, open = TRUE => Clean, UNCHANGED <<session, open, stateLock, sig, fence>>,
           pc'[Render] # "r_signal"
    PROVE  FrameInv'
BY DEF FrameInv, Clean

\* A thread that is not the render thread moves alone.
LEMMA OtherMoves ==
    ASSUME ThreadTypeOK, NEW t \in Threads \ {Render}, NEW l, Goto(t, l)
    PROVE  pc'[Render] = pc[Render]
BY DEF ThreadTypeOK, Goto

\* Where a thread that moves is afterwards.
LEMMA Moves ==
    ASSUME ThreadTypeOK, NEW t \in Threads, NEW l, Goto(t, l)
    PROVE  pc'[t] = l
BY DEF ThreadTypeOK, Goto

-----------------------------------------------------------------------------
(* The steps                                                               *)

\* A teardown closes the session before its successor, which is clean, is in
\* place.
LEMMA TearDownFrame ==
    ASSUME TypeOK, IInv, FrameInv, NEW t \in Threads, TearDown(t)
    PROVE  FrameInv'
<1> USE DEF TypeOK, ThreadTypeOK, ContextTypeOK, FlagTypeOK, WireTypeOK
<1>0. Render \in Threads /\ \A l : Goto(t, l) =>
        /\ pc'[t] = l
        /\ t # Render => pc'[Render] = pc[Render]
    BY Moves, OtherMoves
<1>1. CASE EnterFallback(t)
  <2>1. UNCHANGED <<session, open, idx, shm, sig, fence, peer>>
    BY <1>1 DEF EnterFallback, conn, wire
  <2>2. t # Render => fd'[Render] = fd[Render]
    BY <1>1 DEF EnterFallback, Return
  <2>3. CASE fallback = TRUE
    <3>1. UNCHANGED conn /\ stateLock = NoThread /\ pc[t] = "ef_enter" /\ Goto(t, ret[t])
      BY <1>1, <2>3 DEF EnterFallback, Return
    <3>2. CASE t = Render
      <4>1. open = TRUE => Clean
        BY <2>3, <3>1 DEF FrameInv
      <4>2. pc'[Render] # "r_signal"
        BY <1>0, <3>1, <3>2 DEF ReturnsTo
      <4> QED
        BY <2>1, <3>1, <4>1, <4>2, FrameIdle DEF conn
    <3>3. CASE t # Render
      BY <1>0, <2>1, <2>2, <3>1, <3>3, FrameQuiet
    <3> QED
      BY <3>2, <3>3
  <2>4. CASE fallback = FALSE
    <3>1. /\ stateLock' = t /\ fallback' = TRUE /\ pending' = FALSE /\ pc[t] = "ef_enter"
          /\ Goto(t, "ef_close")
      BY <1>1, <2>4 DEF EnterFallback, Return
    <3>2. stateLock' # NoThread
      BY <3>1, ThreadsDiffer
    <3>3. open = TRUE /\ ~Clean => Match /\ Waiting
      BY <2>4 DEF FrameInv, Forsaken
    <3>4. pc'[Render] = pc[Render] \/ (pc[Render] = "ef_enter" /\ pc'[Render] = "ef_close")
      BY <1>0, <3>1
    <3>5. t = Render => pc'[Render] = "ef_close"
      BY <1>0, <3>1
    <3>6. Clean' <=> Clean
      BY <2>1 DEF Clean
    <3>7. Match' <=> Match
      BY <2>1 DEF Match
    <3>8. Waiting => Waiting'
      BY <2>1, <2>2, <3>1, <3>4, <3>5 DEF Waiting
    <3> QED
      BY <2>1, <3>1, <3>2, <3>3, <3>4, <3>6, <3>7, <3>8 DEF FrameInv
  <2> QED
    BY <2>3, <2>4
<1>2. CASE CloseFds(t)
  <2>1. open' = FALSE /\ pc[t] = "ef_close" /\ Goto(t, "ef_new")
        /\ UNCHANGED <<fallback, session>>
    BY <1>2 DEF CloseFds
  <2>2. fallback' = TRUE
    BY <2>1, ThreadsDiffer DEF IInv, LockInv, Locked
  <2>3. /\ sig'[session] = FALSE /\ fence'[session] = <<>>
        /\ \A s \in Sessions : s > session => sig'[s] = sig[s] /\ fence'[s] = fence[s]
    <3>1. /\ sig' = [sig EXCEPT ![session] = FALSE]
          /\ fence' = [fence EXCEPT ![session] = <<>>]
      BY <1>2 DEF CloseFds, Abandon
    <3>2. \A s \in Sessions : s > session => s # session
      BY BoundsAssumption
    <3> QED
      BY ONLY <3>1, <3>2, TypeOK DEF TypeOK, WireTypeOK, ContextTypeOK
  <2> QED
    BY <2>1, <2>2, <2>3 DEF FrameInv, Clean
<1>3. CASE Rehello(t)
  <2>1. /\ pc[t] = "ef_new" /\ Goto(t, "ef_cb") /\ fallback' = TRUE
        /\ UNCHANGED <<sig, fence>>
    <3>1. pc[t] = "ef_new" /\ Goto(t, "ef_cb") /\ UNCHANGED <<fallback, sig, fence>>
      BY <1>3 DEF Rehello
    <3>2. stateLock # NoThread
      BY <3>1, ThreadsDiffer DEF IInv, LockInv, Locked
    <3>3. fallback = TRUE
      BY <3>2 DEF IInv, LockInv
    <3> QED
      BY <3>1, <3>3
  <2>2. pc'[Render] = "r_signal" => fallback' = TRUE
    BY <2>1
  <2>3. CASE Hello
    <3>1. session' = session + 1
      BY <2>3 DEF Hello
    <3>2. session' \in Sessions
      BY <1>3, <3>1, BoundsAssumption, ThreadsDiffer DEF Rehello, IInv, LockInv, Locked
    <3>3. /\ Clean'
          /\ \A s \in Sessions : s > session' => sig[s] = FALSE /\ fence[s] = <<>>
      BY <2>1, <3>1, <3>2, BoundsAssumption DEF FrameInv, Clean
    <3> QED
      BY <2>1, <2>2, <3>3 DEF FrameInv, Clean
  <2>4. CASE ShmFails
    <3>1. open' = FALSE /\ session' = session
      BY <1>3, <2>4 DEF ShmFails, Rehello, IInv, LockInv
    <3> QED
      BY <2>1, <2>2, <3>1 DEF FrameInv
  <2> QED
    BY <1>3, <2>3, <2>4 DEF Rehello
<1>4. CASE OnFallback(t)
  <2>1. /\ UNCHANGED <<conn, fd, idx, wire>> /\ pc[t] = "ef_cb" /\ Goto(t, ret[t])
    BY <1>4 DEF OnFallback
  <2>2. CASE t = Render
    <3>1. open = TRUE => Clean
      BY <2>1, <2>2 DEF FrameInv, Waiting, Forsaken
    <3>2. pc'[Render] # "r_signal"
      BY <1>0, <2>1, <2>2 DEF ReturnsTo
    <3> QED
      BY <2>1, <3>1, <3>2, FrameIdle DEF conn, wire
  <2>3. CASE t # Render
    BY <1>0, <2>1, <2>3, FrameQuiet DEF wire
  <2> QED
    BY <2>2, <2>3
<1> QED
    BY <1>1, <1>2, <1>3, <1>4 DEF TearDown

\* push_input_event moves no frame.
LEMMA PushFrame ==
    ASSUME TypeOK, FrameInv, NEW t \in Inputs \cup {Render}, Push(t)
    PROVE  FrameInv'
<1> USE DEF TypeOK, ThreadTypeOK
<1>1. /\ UNCHANGED <<conn, idx, shm, sig, fence, peer>>
      /\ pc[t] \in {"idle", "x_rate", "p_fd", "p_send"}
      /\ \E l \in {"p_fd", "p_send", "ef_enter", AfterPush(t)} : Goto(t, l)
      /\ fd' = fd \/ \E f : fd' = [fd EXCEPT ![t] = f]
  BY DEF Push, PushCheck, PushFd, PushSend, Return, Fail, Capture, wire
<1>2. CASE t = Render
  <2>1. open = TRUE => Clean
    BY <1>1, <1>2 DEF FrameInv, Waiting, Forsaken
  <2>2. pc'[Render] # "r_signal"
    BY <1>1, <1>2 DEF Goto, AfterPush
  <2> QED
    BY <1>1, <2>1, <2>2, FrameIdle DEF conn
<1>3. CASE t # Render
  <2>1. pc'[Render] = pc[Render] /\ fd'[Render] = fd[Render]
    BY <1>1, <1>3 DEF Goto
  <2> QED
    BY <1>1, <2>1, FrameQuiet
<1> QED
  BY <1>2, <1>3

\* Nor does the event thread.
LEMMA EventFrame ==
    ASSUME TypeOK, FrameInv, EventOwn
    PROVE  FrameInv'
<1>1. UNCHANGED <<conn, idx, shm, sig, fence, peer>>
  BY EventMoves
<1>2. pc'[Render] = pc[Render] /\ fd'[Render] = fd[Render]
  BY EventMoves, ThreadsDiffer DEF Goto, TypeOK, ThreadTypeOK
<1> QED
  BY <1>1, <1>2, FrameQuiet

\* A producer answers the one signal there is with the buffer it names.
LEMMA EnvironmentFrame ==
    ASSUME TypeOK, FrameInv, Environment
    PROVE  FrameInv'
<1> USE DEF TypeOK, ContextTypeOK, WireTypeOK
<1>0. UNCHANGED <<conn, pc, fd, idx, pending, fallback, open, session, stateLock>>
  BY DEF Environment, Pickup, Answer, Report, Finish, Release, Close, Stall, Desync,
         control, conn
<1>1. ASSUME NEW s \in Sessions, Pickup(s) \/ Report(s) \/ Finish(s) \/ Release(s)
      PROVE  FrameInv'
  <2>1. UNCHANGED <<shm, sig, fence>>
    BY <1>1 DEF Pickup, Report, Finish, Release
  <2>2. peer[session] = "closed" => peer'[session] = "closed"
    BY <1>1 DEF Pickup, Report, Finish, Release
  <2> QED
    BY <1>0, <2>1, <2>2, FrameQuiet
<1>2. ASSUME NEW s \in Sessions, Answer(s)
      PROVE  FrameInv'
  <2>1. /\ sig[s] = TRUE /\ sig' = [sig EXCEPT ![s] = FALSE]
        /\ fence' = [fence EXCEPT ![s] = Append(@, shm[s])]
        /\ UNCHANGED <<shm, peer>>
    BY <1>2 DEF Answer
  <2>2. s = session
    BY <1>2 DEF Answer, CurrentFd
  <2>3. fence[session] = <<>> /\ ~Clean
    BY <2>1, <2>2 DEF FrameInv, Clean
  <2>4. sig'[session] = FALSE /\ fence'[session] = Append(<<>>, shm[session])
    BY <2>1, <2>2, <2>3
  <2>5. /\ Len(fence'[session]) = 1 /\ fence'[session] # <<>>
        /\ Head(fence'[session]) = shm[session]
    BY <2>4
  <2>6. \A u \in Sessions : u > session => sig'[u] = FALSE /\ fence'[u] = <<>>
    BY <2>1, <2>2 DEF FrameInv
  <2>7. open = TRUE => (Match' /\ Waiting') \/ Forsaken'
    BY <1>0, <2>1, <2>2, <2>3, <2>4, <2>5 DEF FrameInv, Match, Waiting, Forsaken
  <2> QED
    BY <1>0, <2>1, <2>3, <2>4, <2>5, <2>6, <2>7 DEF FrameInv
<1>3. CASE Close \/ Stall \/ Desync
  <2>1. UNCHANGED <<shm, sig, fence>>
    BY <1>3 DEF Close, Stall, Desync
  <2>2. peer[session] = "closed" => peer'[session] = "closed"
    BY <1>3 DEF Close, Stall, Desync
  <2> QED
    BY <1>0, <2>1, <2>2, FrameQuiet
<1> QED
  BY <1>1, <1>2, <1>3 DEF Environment

\* The render thread signals a frame, waits for its fence and takes it, or
\* goes round in fallback until the session is replaced.
LEMMA RenderFrame ==
    ASSUME TypeOK, IInv, PageInv, FrameInv, RenderOwn, overlapped' = FALSE
    PROVE  FrameInv'
<1> USE DEF TypeOK, ThreadTypeOK, ContextTypeOK, FlagTypeOK, WireTypeOK
<1>0. ASSUME NEW l, Goto(Render, l) PROVE pc'[Render] = l
  BY <1>0 DEF Goto
<1>1. CASE Select
  <2>1. /\ pc[Render] = "r_select"
        /\ UNCHANGED <<conn, sig, fence>>
        /\ pc'[Render] = IF fallback THEN "r_try" ELSE "r_load"
    BY <1>0, <1>1 DEF Select, wire
  <2>2. CASE open = TRUE => Clean
    BY <2>1, <2>2, FrameIdle DEF conn
  <2>3. CASE open = TRUE /\ ~Clean
    <3>1. Forsaken
      BY <2>1, <2>3 DEF FrameInv, Waiting
    <3> QED
      BY <2>1, <2>3, <3>1 DEF FrameInv, Clean, Forsaken, conn
  <2> QED
    BY <2>2, <2>3
<1>2. CASE TryExit
  <2>1. /\ pc[Render] = "r_try" /\ UNCHANGED <<conn, sig, fence>>
        /\ pc'[Render] \in {"r_up", "r_recheck"}
        /\ pc'[Render] = "r_up" => ready # {}
    BY <1>0, <1>2 DEF TryExit
  <2>2. CASE open = TRUE => Clean
    BY <2>1, <2>2, FrameIdle DEF conn
  <2>3. CASE open = TRUE /\ ~Clean
    <3>1. Forsaken
      BY <2>1, <2>3 DEF FrameInv, Waiting
    <3>2. ready = {}
      BY <2>3 DEF FrameInv, IInv, SessionInv
    <3> QED
      BY <2>1, <2>3, <3>1, <3>2 DEF FrameInv, Clean, Forsaken, conn
  <2> QED
    BY <2>2, <2>3
<1>3. CASE GoUp \/ PushBufs \/ PushInfos \/ StartCheck \/ Join \/ Spawn
  <2>1. /\ pc[Render] \in {"r_up", "r_bufs", "r_infos", "x_start", "x_join", "x_spawn"}
        /\ UNCHANGED <<session, open, stateLock, sig, fence>>
    BY <1>3 DEF GoUp, PushBufs, PushInfos, StartCheck, Join, Spawn, conn, wire
  <2>2. pc'[Render] # "r_signal"
    <3>1. CASE GoUp \/ PushBufs \/ PushInfos \/ StartCheck
      BY <3>1, <1>0 DEF GoUp, PushBufs, PushInfos, StartCheck, Fail, Return
    <3>2. CASE Join \/ Spawn
      BY <3>2, <1>0, ThreadsDiffer DEF Join, Spawn
    <3> QED
      BY <1>3, <3>1, <3>2
  <2>3. open = TRUE => Clean
    BY <2>1 DEF FrameInv, Waiting, Forsaken
  <2> QED
    BY <2>1, <2>2, <2>3, FrameIdle
<1>4. CASE Recheck
  <2>1. /\ pc[Render] = "r_recheck" /\ UNCHANGED <<conn, sig, fence>>
        /\ pc'[Render] = IF fallback THEN "r_refresh" ELSE "r_load"
    BY <1>0, <1>4 DEF Recheck, wire
  <2>2. CASE open = TRUE => Clean
    BY <2>1, <2>2, FrameIdle DEF conn
  <2>3. CASE open = TRUE /\ ~Clean
    <3>1. Forsaken
      BY <2>1, <2>3 DEF FrameInv, Waiting
    <3> QED
      BY <2>1, <2>3, <3>1 DEF FrameInv, Clean, Forsaken, conn
  <2> QED
    BY <2>2, <2>3
<1>5. CASE Load \/ Store
  <2>1. /\ pc[Render] \in {"r_load", "r_store"} /\ UNCHANGED <<conn, idx, sig, fence>>
        /\ open = TRUE => Clean
    BY <1>5 DEF Load, Store, FrameInv, Waiting, Forsaken, wire
  <2>2. CASE pc'[Render] # "r_signal"
    BY <2>1, <2>2, FrameIdle DEF conn
  <2>3. CASE pc'[Render] = "r_signal"
    <3>1. Store
      BY <1>0, <1>5, <2>3 DEF Load
    <3>2. fallback = TRUE \/ fd[Render] = CurrentFd
      BY <3>1 DEF Store, PageInv
    <3>3. fd[Render] = CurrentFd => shm' = [shm EXCEPT ![session] = idx]
      BY <2>3, <3>1, BoundsAssumption DEF Store, CurrentFd
    <3>4. fallback' = TRUE \/ shm'[session] = idx
      BY <2>1, <3>2, <3>3 DEF conn
    <3> QED
      BY <2>1, <3>4 DEF FrameInv, Clean, conn
  <2> QED
    BY <2>2, <2>3
<1>6. CASE Signal
  <2>1. /\ pc[Render] = "r_signal" /\ UNCHANGED <<conn, idx, shm, fence>>
        /\ pc'[Render] = "r_pend"
        /\ sig' = IF open THEN [sig EXCEPT ![session] = TRUE] ELSE sig
    BY <1>0, <1>6 DEF Signal
  <2>2. fallback = FALSE
    BY <1>6 DEF Signal
  <2>3. open = TRUE
    BY <2>2 DEF IInv, SessionInv
  <2>4. Clean /\ shm[session] = idx
    BY <2>1, <2>2, <2>3 DEF FrameInv, Waiting, Forsaken
  <2>5. sig'[session] = TRUE /\ fence'[session] = <<>>
    BY <2>1, <2>3, <2>4 DEF Clean
  <2>6. \A u \in Sessions : u > session => sig'[u] = FALSE /\ fence'[u] = <<>>
    BY <2>1, <2>3 DEF FrameInv
  <2>7. Match' /\ Waiting'
    BY <2>1, <2>4, <2>5 DEF Match, Waiting, conn
  <2> QED
    BY <2>1, <2>2, <2>5, <2>6, <2>7 DEF FrameInv, conn
<1>7. CASE SetPending
  <2>1. /\ pc[Render] = "r_pend" /\ pc'[Render] = "r_refresh" /\ pending' = TRUE
        /\ UNCHANGED <<session, open, fallback, stateLock, idx, shm, sig, fence>>
    BY <1>0, <1>7 DEF SetPending, wire
  <2> QED
    BY <2>1 DEF FrameInv, Clean, Match, Waiting, Forsaken
<1>8. CASE RefreshCheck
  <2>1. /\ pc[Render] = "r_refresh"
        /\ UNCHANGED <<conn, idx, shm, sig, fence>>
    BY <1>8 DEF RefreshCheck, wire
  <2>2. CASE pending = TRUE
    <3>1. pc'[Render] = "r_poll" /\ (open = TRUE => fd'[Render] = session)
      BY <1>0, <1>8, <2>2 DEF RefreshCheck, Capture, CurrentFd
    <3> QED
      BY <2>1, <2>2, <3>1 DEF FrameInv, Clean, Match, Waiting, Forsaken, conn
  <2>3. CASE pending = FALSE
    <3>1. pc'[Render] = "r_select"
      BY <1>0, <1>8, <2>3 DEF RefreshCheck
    <3> QED
      BY <2>1, <2>3, <3>1 DEF FrameInv, Clean, Match, Waiting, Forsaken, conn
  <2> QED
    BY <2>2, <2>3
<1>9. CASE PollFence
  <2>1. /\ pc[Render] = "r_poll"
        /\ UNCHANGED <<conn, idx, shm, sig, fence, peer>>
        /\ pc'[Render] \in {"r_recv", "ef_enter"}
    BY <1>0, <1>9 DEF PollFence, Return, Fail, wire
  <2>2. CASE open = TRUE => Clean
    BY <2>1, <2>2, FrameIdle DEF conn
  <2>3. CASE open = TRUE /\ ~Clean
    <3>1. Match /\ Waiting
      BY <2>1, <2>3 DEF FrameInv, Forsaken
    <3>2. MayReach(Render) = {session}
      BY <2>1, <2>3, <3>1, BoundsAssumption DEF Waiting, MayReach, CurrentFd
    <3>3. pc'[Render] = "r_recv" => fence[session] # <<>> \/ peer[session] = "closed"
      BY <1>0, <1>9, <2>3, <3>2, BoundsAssumption DEF PollFence, Fail, FenceReadable, CurrentFd
    <3>4. Match' /\ Waiting'
      BY <2>1, <3>1, <3>3 DEF Match, Waiting, conn
    <3> QED
      BY <2>1, <3>4 DEF FrameInv, Clean, conn
  <2> QED
    BY <2>2, <2>3
<1>10. CASE RecvFence
  <2>1. /\ pc[Render] = "r_recv" /\ UNCHANGED <<fallback, session, open, stateLock, idx, shm, sig, peer>>
        /\ pc'[Render] \in {"r_select", "ef_enter"}
    BY <1>0, <1>10 DEF RecvFence, Fail
  <2>2. CASE open = TRUE /\ fence[session] # <<>>
    <3>1. fence' = [fence EXCEPT ![session] = Tail(@)]
      BY <1>10, <2>2 DEF RecvFence
    <3>2. fence[session] \in Seq(Bufs) /\ Len(fence[session]) = 1
      <4>1. fence[session] \in Seq(Bufs) /\ fence[session] # <<>>
        BY <2>2
      <4>2. Len(fence[session]) \in Nat /\ Len(fence[session]) # 0
        BY <4>1
      <4>3. Len(fence[session]) <= 1
        BY <2>1 DEF FrameInv
      <4>4. \A n \in Nat : n # 0 /\ n <= 1 => n = 1
        OBVIOUS
      <4> QED
        BY <4>1, <4>2, <4>3, <4>4
    <3>3. fence'[session] = <<>>
      BY <3>1, <3>2
    <3>4. sig[session] = FALSE
      BY <2>2 DEF FrameInv
    <3>5. \A u \in Sessions : u > session => sig'[u] = FALSE /\ fence'[u] = <<>>
      BY <2>1, <3>1 DEF FrameInv
    <3> QED
      BY <2>1, <3>3, <3>4, <3>5 DEF FrameInv, Clean
  <2>3. CASE open = FALSE \/ fence[session] = <<>>
    <3>1. fence' = fence
      BY <1>10, <2>3 DEF RecvFence
    <3>2. CASE open = TRUE => Clean
      BY <2>1, <3>1, <3>2, FrameIdle
    <3>3. CASE open = TRUE /\ ~Clean
      <4>1. Match /\ Waiting
        BY <2>1, <3>3 DEF FrameInv, Forsaken
      <4>2. peer[session] = "closed"
        BY <2>1, <2>3, <3>3, <4>1 DEF Waiting
      <4>3. pc'[Render] = "ef_enter"
        BY <1>0, <1>10, <2>3, <3>3, <4>2 DEF RecvFence, Fail
      <4> QED
        BY <2>1, <3>1, <4>1, <4>3 DEF FrameInv, Clean, Match, Waiting
    <3> QED
      BY <3>2, <3>3
  <2> QED
    BY <2>2, <2>3
<1> QED
  BY <1>1, <1>2, <1>3, <1>4, <1>5, <1>6, <1>7, <1>8, <1>9, <1>10 DEF RenderOwn

\* Once overlapped, always overlapped.
LEMMA OverlapStays == TypeOK /\ [Next]_vars => (overlapped' = FALSE => overlapped = FALSE)
<1> SUFFICES ASSUME TypeOK, [Next]_vars, overlapped' = FALSE PROVE overlapped = FALSE
  OBVIOUS
<1>1. CASE Signal
  BY <1>1 DEF Signal, TypeOK, FlagTypeOK
<1>2. CASE overlapped' = overlapped
  BY <1>2
<1>3. ASSUME NEW t \in Threads, Push(t) \/ TearDown(t) PROVE overlapped' = overlapped
  BY <1>3 DEF Push, PushCheck, PushFd, PushSend, TearDown, EnterFallback, CloseFds, Rehello,
              OnFallback
<1>4. CASE EventOwn \/ Environment
  BY <1>4, EventMoves DEF Environment, Pickup, Answer, Report, Finish, Release, Close, Stall,
                          Desync, control
<1>5. RenderOwn => Signal \/ overlapped' = overlapped
  BY DEF RenderOwn, Select, TryExit, GoUp, PushBufs, PushInfos, StartCheck, Join, Spawn,
         Recheck, Load, Store, SetPending, RefreshCheck, PollFence, RecvFence
<1>6. CASE UNCHANGED vars
  BY <1>6 DEF vars, control
<1> QED
  BY <1>1, <1>2, <1>3, <1>4, <1>5, <1>6
     DEF Next, RenderStep, EventStep, InputStep, Stopped

\* Every step keeps the frame's way.
LEMMA FenceStep == TypeOK /\ IInv /\ PageInv /\ FenceInv /\ [Next]_vars => FenceInv'
<1> SUFFICES ASSUME TypeOK, IInv, PageInv, FrameInv, [Next]_vars, overlapped' = FALSE
             PROVE  FrameInv'
  BY OverlapStays DEF FenceInv
<1>1. CASE RenderStep
  BY <1>1, RenderFrame, PushFrame, TearDownFrame DEF RenderStep
<1>2. CASE EventStep
  BY <1>2, EventFrame, TearDownFrame DEF EventStep
<1>3. ASSUME NEW t \in Inputs, InputStep(t) PROVE FrameInv'
  BY <1>3, PushFrame, TearDownFrame DEF InputStep
<1>4. CASE Environment
  BY <1>4, EnvironmentFrame
<1>5. CASE UNCHANGED vars
  BY <1>5, FrameQuiet DEF vars, control, wire
<1> QED
  BY <1>1, <1>2, <1>3, <1>4, <1>5 DEF Next, Stopped

\* Unless a buffer was signalled during a teardown, a session's fence channel
\* never holds two fences, and the one refresh_done hands to queueBuffer is the
\* fence of the frame that is queued: timeouts, answers that come after them,
\* and sessions replaced by any thread notwithstanding.
THEOREM FenceIsTheFrames == Spec => []FenceMatchesFrame
<1>1. TypeOK /\ IInv /\ FenceInv => FenceMatchesFrame
  BY DEF TypeOK, FlagTypeOK, FenceInv, FrameInv, Match, Waiting, Forsaken,
         FenceMatchesFrame, FenceOfFrame, Clean
<1>2. Spec => []FenceInv
  <2>1. Init /\ [][Next]_vars /\ [](TypeOK /\ IInv) /\ []PageInv => []FenceInv
    BY InitFenceInv, FenceStep, PTL
  <2> QED
    BY <2>1, Inductive, PageKept, PTL DEF Spec
<1> QED
  BY <1>1, <1>2, Inductive, PTL
=============================================================================
