------------------------ MODULE NativeConsumerProofs ------------------------
(***************************************************************************)
(* Theorems of NativeConsumer, for any number of windows and any order of  *)
(* their callbacks.                                                        *)
(***************************************************************************)
EXTENDS NativeConsumer, TLAPS

\* What the UI thread has done to the render thread at each of its steps.
RenderInv ==
    /\ running => handle /\ render # "none" /\ ui = "idle"
    /\ ui \in {"start_join", "stop_join"} => render # "none"
    /\ ui \in {"start", "stop_event", "stop_reap"} => render = "none"
    /\ ui = "idle" /\ ~running => render = "none"
    /\ ui \in UISteps /\ (ui # "idle" => handle)

\* What is held, and when nothing is.
HeldInv ==
    /\ heap = IF ctx = None THEN {} ELSE {ctx}
    /\ ui = "idle" /\ ~running => ctx = None /\ dmabufs = FALSE /\ window = NoWindow
    /\ ~handle => window = NoWindow /\ ctx = None /\ dmabufs = FALSE
    /\ running => window \in surface
    /\ render \in {"collect", "helper"} => ctx = None

IInv == RenderInv /\ HeldInv /\ lastCtx \in Nat

\* An instance begins with nothing held and no thread.
LEMMA InitIInv == Init => IInv
BY DEF Init, IInv, RenderInv, HeldInv, UISteps, None

\* Android's callbacks and the start coroutine: they end the render thread
\* before they touch what it uses.
LEMMA CallbackIInv ==
    ASSUME IInv, WindowStep \/ StartDisplay \/ CancelledStart
    PROVE  IInv'
<1> USE DEF IInv, RenderInv, HeldInv, UISteps, LooperTurn, state, threads, memory, uiVars
<1>1. ASSUME NEW w \in Windows, SurfaceCreated(w) PROVE IInv'
    BY <1>1 DEF SurfaceCreated
<1>2. ASSUME NEW w \in Windows, SurfaceDestroyed(w) PROVE IInv'
    BY <1>2 DEF SurfaceDestroyed, StopDisplay
<1>3. ASSUME NEW w \in Windows, Back(w) PROVE IInv'
    BY <1>3 DEF Back, StopDisplay
<1>6. ASSUME NEW w \in Windows, Dismiss(w) PROVE IInv'
    BY <1>6 DEF Dismiss
<1>4. CASE StartDisplay
    BY <1>4 DEF StartDisplay
<1>5. CASE CancelledStart
    BY <1>5 DEF CancelledStart
<1> QED
    BY <1>1, <1>2, <1>3, <1>4, <1>5, <1>6 DEF WindowStep

\* The UI thread inside nativeStart and nativeStop.
LEMMA UIIInv == ASSUME IInv, UIStep PROVE IInv'
<1> USE DEF IInv, RenderInv, HeldInv, UISteps, android, state, threads, memory, uiVars
<1>1. CASE JoinRender
    BY <1>1 DEF JoinRender
<1>2. CASE StartRender
    BY <1>2 DEF StartRender, None
<1>3. CASE StopEvent
    BY <1>3 DEF StopEvent
<1>4. CASE StopReap
    BY <1>4 DEF StopReap, None
<1> QED
    BY <1>1, <1>2, <1>3, <1>4 DEF UIStep

\* The render thread: at most one context, and none it does not know.
LEMMA RenderIInv == ASSUME IInv, RenderStep PROVE IInv'
<1> USE DEF IInv, RenderInv, HeldInv, UISteps, android, state, threads, memory, uiVars
<1>1. CASE RenderLoop
    BY <1>1 DEF RenderLoop
<1>2. CASE Reap
    BY <1>2 DEF Reap, None
<1>3. CASE Collect
    BY <1>3 DEF Collect
<1>4. CASE Connect
    BY <1>4 DEF Connect, None
<1>5. CASE Frame
    BY <1>5 DEF Frame
<1>6. CASE StartEventThread
    BY <1>6 DEF StartEventThread, CreateEventThread
<1> QED
    BY <1>1, <1>2, <1>3, <1>4, <1>5, <1>6 DEF RenderStep

\* The event thread changes nothing the invariant speaks of.
LEMMA EventIInv == ASSUME IInv, EventStep PROVE IInv'
<1> USE DEF IInv, RenderInv, HeldInv, UISteps, android, state, threads, memory, uiVars
<1>1. CASE EventBegin
    BY <1>1 DEF EventBegin
<1>2. CASE EventTop
    BY <1>2 DEF EventTop
<1>3. CASE EventPoll
    BY <1>3 DEF EventPoll
<1>4. CASE EventFallback
    BY <1>4 DEF EventFallback
<1> QED
    BY <1>1, <1>2, <1>3, <1>4 DEF EventStep

\* Every step keeps the invariant.
LEMMA IInvStep == ASSUME IInv, [Next]_vars PROVE IInv'
<1>1. ASSUME UNCHANGED vars PROVE IInv'
    BY <1>1 DEF IInv, RenderInv, HeldInv, UISteps, vars, android, state, threads, memory, uiVars
<1> QED
    BY <1>1, CallbackIInv, UIIInv, RenderIInv, EventIInv DEF Next, Rest

\* The invariant holds in every state of every behaviour.
LEMMA Inductive == Spec => []IInv
BY InitIInv, IInvStep, PTL DEF Spec

\* pthread_create never overwrites the handle of a render thread that was not
\* joined: nativeStart and nativeStop end it before they go on.
THEOREM RenderThreadUnique == Spec => []OneRenderThread
<1>1. IInv => OneRenderThread
    BY DEF IInv, RenderInv, OneRenderThread
<1> QED
    BY <1>1, Inductive, PTL

\* A stopped instance holds no context, descriptor, window or render thread.
THEOREM StopReleases == Spec => []StoppedHoldsNothing
<1>1. IInv => StoppedHoldsNothing
    BY DEF IInv, RenderInv, HeldInv, StoppedHoldsNothing
<1> QED
    BY <1>1, Inductive, PTL

\* The render thread draws only into a surface that still exists.
THEOREM SurfaceOutlivesDrawing == Spec => []DrawsOnLiveSurface
<1>1. IInv => DrawsOnLiveSurface
    BY DEF IInv, RenderInv, HeldInv, DrawsOnLiveSurface
<1> QED
    BY <1>1, Inductive, PTL

-----------------------------------------------------------------------------
(* Types, and the life of the event thread                                 *)

\* Windows and the coroutines posted for them.
LEMMA AndroidType == ASSUME TypeOK, Next PROVE AndroidTypeOK'
<1> USE DEF TypeOK, AndroidTypeOK, android, state, uiVars
<1>1. ASSUME NEW w \in Windows, SurfaceCreated(w) PROVE AndroidTypeOK'
    BY <1>1 DEF SurfaceCreated
<1>2. ASSUME NEW w \in Windows, SurfaceDestroyed(w) PROVE AndroidTypeOK'
    BY <1>2 DEF SurfaceDestroyed, StopDisplay
<1>3. ASSUME NEW w \in Windows, Back(w) PROVE AndroidTypeOK'
    BY <1>3 DEF Back, StopDisplay
<1>4. ASSUME NEW w \in Windows, Dismiss(w) PROVE AndroidTypeOK'
    BY <1>4 DEF Dismiss
<1>5. CASE StartDisplay
    BY <1>5 DEF StartDisplay
<1>6. CASE CancelledStart
    BY <1>6 DEF CancelledStart
<1>7. CASE JoinRender
    BY <1>7 DEF JoinRender
<1>8. CASE StartRender
    BY <1>8 DEF StartRender
<1>9. CASE StopEvent
    BY <1>9 DEF StopEvent
<1>10. CASE StopReap
    BY <1>10 DEF StopReap
<1>11. CASE RenderLoop
    BY <1>11 DEF RenderLoop
<1>12. CASE Reap
    BY <1>12 DEF Reap
<1>13. CASE Collect
    BY <1>13 DEF Collect
<1>14. CASE Connect
    BY <1>14 DEF Connect
<1>15. CASE Frame
    BY <1>15 DEF Frame
<1>16. CASE StartEventThread
    BY <1>16 DEF StartEventThread, CreateEventThread
<1>17. CASE EventBegin \/ EventTop
    BY <1>17 DEF EventBegin, EventTop
<1>18. CASE EventPoll
    BY <1>18 DEF EventPoll
<1>19. CASE EventFallback
    BY <1>19 DEF EventFallback
<1>20. CASE Rest
    BY <1>20 DEF Rest, vars, uiVars
<1> QED
    BY <1>1, <1>2, <1>3, <1>4, <1>5, <1>6, <1>7, <1>8, <1>9, <1>10, <1>11, <1>12, <1>13,
       <1>14, <1>15, <1>16, <1>17, <1>18, <1>19, <1>20 DEF Next, WindowStep, UIStep,
       RenderStep, EventStep

\* Each thread is at a step of its own code.
LEMMA StepType == ASSUME TypeOK, Next PROVE StepTypeOK'
<1> USE DEF TypeOK, StepTypeOK, UISteps, RenderSteps, EventSteps, uiVars, threads
<1>1. ASSUME NEW w \in Windows, SurfaceCreated(w) PROVE StepTypeOK'
    BY <1>1 DEF SurfaceCreated
<1>2. ASSUME NEW w \in Windows, SurfaceDestroyed(w) PROVE StepTypeOK'
    BY <1>2 DEF SurfaceDestroyed, StopDisplay
<1>3. ASSUME NEW w \in Windows, Back(w) PROVE StepTypeOK'
    BY <1>3 DEF Back, StopDisplay
<1>4. ASSUME NEW w \in Windows, Dismiss(w) PROVE StepTypeOK'
    BY <1>4 DEF Dismiss
<1>5. CASE StartDisplay
    BY <1>5 DEF StartDisplay
<1>6. CASE CancelledStart
    BY <1>6 DEF CancelledStart
<1>7. CASE JoinRender
    BY <1>7 DEF JoinRender
<1>8. CASE StartRender
    BY <1>8 DEF StartRender
<1>9. CASE StopEvent
    BY <1>9 DEF StopEvent
<1>10. CASE StopReap
    BY <1>10 DEF StopReap
<1>11. CASE RenderLoop
    BY <1>11 DEF RenderLoop
<1>12. CASE Reap
    BY <1>12 DEF Reap
<1>13. CASE Collect
    BY <1>13 DEF Collect
<1>14. CASE Connect
    BY <1>14 DEF Connect
<1>15. CASE Frame
    BY <1>15 DEF Frame
<1>16. CASE StartEventThread
    BY <1>16 DEF StartEventThread, CreateEventThread
<1>17. CASE EventBegin \/ EventTop
    BY <1>17 DEF EventBegin, EventTop
<1>18. CASE EventPoll
    BY <1>18 DEF EventPoll
<1>19. CASE EventFallback
    BY <1>19 DEF EventFallback
<1>20. CASE Rest
    BY <1>20 DEF Rest, vars, uiVars
<1> QED
    BY <1>1, <1>2, <1>3, <1>4, <1>5, <1>6, <1>7, <1>8, <1>9, <1>10, <1>11, <1>12, <1>13,
       <1>14, <1>15, <1>16, <1>17, <1>18, <1>19, <1>20 DEF Next, WindowStep, UIStep,
       RenderStep, EventStep

\* Flags are flags.
LEMMA FlagType == ASSUME TypeOK, Next PROVE FlagTypeOK'
<1> USE DEF TypeOK, FlagTypeOK, state, threads, memory, history, InOrder
<1>1. ASSUME NEW w \in Windows, SurfaceCreated(w) PROVE FlagTypeOK'
    BY <1>1 DEF SurfaceCreated
<1>2. ASSUME NEW w \in Windows, SurfaceDestroyed(w) PROVE FlagTypeOK'
    BY <1>2 DEF SurfaceDestroyed, StopDisplay
<1>3. ASSUME NEW w \in Windows, Back(w) PROVE FlagTypeOK'
    BY <1>3 DEF Back, StopDisplay
<1>4. ASSUME NEW w \in Windows, Dismiss(w) PROVE FlagTypeOK'
    BY <1>4 DEF Dismiss
<1>5. CASE StartDisplay
    BY <1>5 DEF StartDisplay
<1>6. CASE CancelledStart
    BY <1>6 DEF CancelledStart
<1>7. CASE JoinRender
    BY <1>7 DEF JoinRender
<1>8. CASE StartRender
    BY <1>8 DEF StartRender
<1>9. CASE StopEvent
    BY <1>9 DEF StopEvent
<1>10. CASE StopReap
    BY <1>10 DEF StopReap
<1>11. CASE RenderLoop
    BY <1>11 DEF RenderLoop
<1>12. CASE Reap
    BY <1>12 DEF Reap
<1>13. CASE Collect
    BY <1>13 DEF Collect
<1>14. CASE Connect
    BY <1>14 DEF Connect
<1>15. CASE Frame
    BY <1>15 DEF Frame
<1>16. CASE StartEventThread
  <2>1. UNCHANGED <<handle, running, needReconnect, dmabufs, up, crashed, orderly, late>>
    BY <1>16 DEF StartEventThread
  <2>2. CASE UNCHANGED <<eventRunning, joinable, event, mute>>
    BY <2>1, <2>2
  <2>3. CASE mute' = TRUE /\ UNCHANGED <<eventRunning, joinable, event>>
    BY <2>1, <2>3
  <2>4. CASE eventRunning' = TRUE /\ joinable' = TRUE /\ mute' = FALSE
    BY <2>1, <2>4
  <2>5. CASE joinable' = FALSE /\ mute' = TRUE /\ UNCHANGED eventRunning
    BY <2>1, <2>5
  <2>6. \/ UNCHANGED <<eventRunning, joinable, event, mute>>
        \/ mute' = TRUE /\ UNCHANGED <<eventRunning, joinable, event>>
        \/ eventRunning' = TRUE /\ joinable' = TRUE /\ mute' = FALSE
        \/ joinable' = FALSE /\ mute' = TRUE /\ UNCHANGED eventRunning
    BY <1>16, ZenonT(30) DEF StartEventThread, CreateEventThread
  <2> HIDE DEF TypeOK, FlagTypeOK
  <2> QED
    BY ONLY <2>2, <2>3, <2>4, <2>5, <2>6
<1>17. CASE EventBegin \/ EventTop
  <2>1. CASE EventTop
    BY <2>1 DEF EventTop
  <2>2. CASE EventBegin
    <3>1. UNCHANGED <<handle, running, needReconnect, dmabufs, eventRunning, joinable, up,
                      crashed, orderly, late>>
      BY <2>2 DEF EventBegin
    <3>2. mute' = mute \/ mute' = TRUE
      BY <2>2, ZenonT(30) DEF EventBegin
    <3>3. CASE mute' = mute
      BY <3>1, <3>3
    <3>4. CASE mute' = TRUE
      BY <3>1, <3>4
    <3> QED BY <3>2, <3>3, <3>4
  <2> QED BY <1>17, <2>1, <2>2
<1>18. CASE EventPoll
    BY <1>18 DEF EventPoll
<1>19. CASE EventFallback
    BY <1>19 DEF EventFallback
<1>20. CASE Rest
    BY <1>20 DEF Rest, vars, uiVars
<1> QED
    BY <1>1, <1>2, <1>3, <1>4, <1>5, <1>6, <1>7, <1>8, <1>9, <1>10, <1>11, <1>12, <1>13,
       <1>14, <1>15, <1>16, <1>17, <1>18, <1>19, <1>20 DEF Next, WindowStep, UIStep,
       RenderStep, EventStep

\* No more contexts are allocated than there are numbers.
LEMMA MemoryType == ASSUME TypeOK, Next PROVE MemoryTypeOK'
<1> USE DEF TypeOK, MemoryTypeOK, Contexts, None, threads, memory
<1>1. ASSUME NEW w \in Windows, SurfaceCreated(w) PROVE MemoryTypeOK'
    BY <1>1, LimitsAssumption DEF SurfaceCreated
<1>2. ASSUME NEW w \in Windows, SurfaceDestroyed(w) PROVE MemoryTypeOK'
    BY <1>2, LimitsAssumption DEF SurfaceDestroyed, StopDisplay
<1>3. ASSUME NEW w \in Windows, Back(w) PROVE MemoryTypeOK'
    BY <1>3, LimitsAssumption DEF Back, StopDisplay
<1>4. ASSUME NEW w \in Windows, Dismiss(w) PROVE MemoryTypeOK'
    BY <1>4, LimitsAssumption DEF Dismiss
<1>5. CASE StartDisplay
    BY <1>5, LimitsAssumption DEF StartDisplay
<1>6. CASE CancelledStart
    BY <1>6, LimitsAssumption DEF CancelledStart
<1>7. CASE JoinRender
    BY <1>7, LimitsAssumption DEF JoinRender
<1>8. CASE StartRender
    BY <1>8, LimitsAssumption DEF StartRender
<1>9. CASE StopEvent
    BY <1>9, LimitsAssumption DEF StopEvent
<1>10. CASE StopReap
    BY <1>10, LimitsAssumption DEF StopReap
<1>11. CASE RenderLoop
    BY <1>11, LimitsAssumption DEF RenderLoop
<1>12. CASE Reap
    BY <1>12, LimitsAssumption DEF Reap
<1>13. CASE Collect
    BY <1>13, LimitsAssumption DEF Collect
<1>14. CASE Connect
  <2>1. CASE lastCtx < MaxContexts
    <3>1. lastCtx + 1 \in Contexts
      BY <2>1, LimitsAssumption
    <3> QED
      BY <1>14, <3>1 DEF Connect
  <2>2. CASE ~(lastCtx < MaxContexts)
    BY <1>14, <2>2 DEF Connect
  <2> QED
    BY <2>1, <2>2
<1>15. CASE Frame
    BY <1>15, LimitsAssumption DEF Frame
<1>16. CASE StartEventThread
    BY <1>16, LimitsAssumption DEF StartEventThread, CreateEventThread
<1>17. CASE EventBegin \/ EventTop
    BY <1>17, LimitsAssumption DEF EventBegin, EventTop
<1>18. CASE EventPoll
    BY <1>18, LimitsAssumption DEF EventPoll
<1>19. CASE EventFallback
    BY <1>19, LimitsAssumption DEF EventFallback
<1>20. CASE Rest
    BY <1>20 DEF Rest, vars, uiVars
<1> QED
    BY <1>1, <1>2, <1>3, <1>4, <1>5, <1>6, <1>7, <1>8, <1>9, <1>10, <1>11, <1>12, <1>13,
       <1>14, <1>15, <1>16, <1>17, <1>18, <1>19, <1>20 DEF Next, WindowStep, UIStep,
       RenderStep, EventStep

\* An instance begins well typed.
LEMMA InitTypeOK == Init => TypeOK
<1> SUFFICES ASSUME Init PROVE TypeOK
  OBVIOUS
<1>1. AndroidTypeOK
  BY DEF Init, AndroidTypeOK
<1>2. StepTypeOK
  BY DEF Init, StepTypeOK, UISteps, RenderSteps, EventSteps
<1>3. FlagTypeOK
  BY DEF Init, FlagTypeOK
<1>4. MemoryTypeOK
  BY LimitsAssumption DEF Init, MemoryTypeOK, Contexts, None
<1> QED
  BY <1>1, <1>2, <1>3, <1>4 DEF TypeOK

\* Every variable keeps its type.
THEOREM TypeCorrect == Spec => []TypeOK
<1>1. TypeOK /\ [Next]_vars => TypeOK'
  <2> SUFFICES ASSUME TypeOK, [Next]_vars PROVE TypeOK'
    OBVIOUS
  <2>1. CASE Next
    BY <2>1, AndroidType, StepType, FlagType, MemoryType DEF TypeOK
  <2>2. CASE UNCHANGED vars
    BY <2>2 DEF TypeOK, AndroidTypeOK, StepTypeOK, FlagTypeOK, MemoryTypeOK, vars, android,
                state, threads, memory, uiVars, history
  <2> QED
    BY <2>1, <2>2
<1> QED
    BY <1>1, InitTypeOK, PTL DEF Spec

\* A signalled event thread is never taken for a running one, and one that ended
\* unasked is known not to have started; a context comes
\* up only in the render thread's frames, and one that is to be replaced is
\* gone before.
LifeInv ==
    /\ eventRunning = TRUE => event # "none" /\ (event = "exited" => mute = TRUE)
    /\ ctx # None => (ui = "stop_reap" \/ render = "reap" => ~eventRunning)
    /\ ctx = None => ~up
    /\ needReconnect => ctx = None
    /\ render \in {"frame", "exit_fallback"} => ctx # None
    /\ render = "loop" => needReconnect \/ ctx # None
    /\ render \in {"reap", "collect", "helper"} => needReconnect

LInv == FlagTypeOK /\ StepTypeOK /\ IInv /\ LifeInv /\ Listens

\* Android's callbacks leave the threads alone; a start may push the refresh
\* rate and so tear the connection down.
LEMMA LifeCallback ==
    ASSUME LInv, WindowStep \/ StartDisplay \/ CancelledStart
    PROVE  LifeInv' /\ Listens'
<1> USE DEF LInv, FlagTypeOK, StepTypeOK, IInv, RenderInv, LifeInv, Listens, LooperTurn,
            state, threads, memory, uiVars, history
<1>1. ASSUME NEW w \in Windows, SurfaceCreated(w) PROVE LifeInv' /\ Listens'
    BY <1>1 DEF SurfaceCreated
<1>2. ASSUME NEW w \in Windows, SurfaceDestroyed(w) PROVE LifeInv' /\ Listens'
    BY <1>2 DEF SurfaceDestroyed, StopDisplay
<1>3. ASSUME NEW w \in Windows, Back(w) PROVE LifeInv' /\ Listens'
    BY <1>3 DEF Back, StopDisplay
<1>4. ASSUME NEW w \in Windows, Dismiss(w) PROVE LifeInv' /\ Listens'
    BY <1>4 DEF Dismiss
<1>5. CASE StartDisplay
    BY <1>5 DEF StartDisplay
<1>6. CASE CancelledStart
    BY <1>6 DEF CancelledStart
<1> QED
    BY <1>1, <1>2, <1>3, <1>4, <1>5, <1>6 DEF WindowStep

\* nativeStart and nativeStop take the context down with what they free.
LEMMA LifeUI == ASSUME LInv, UIStep PROVE LifeInv' /\ Listens'
<1> USE DEF LInv, FlagTypeOK, StepTypeOK, IInv, RenderInv, LifeInv, Listens, UISteps, android,
            state, threads, memory, uiVars, history
<1>1. CASE JoinRender
    BY <1>1 DEF JoinRender
<1>2. CASE StartRender
    BY <1>2 DEF StartRender
<1>3. CASE StopEvent
    BY <1>3 DEF StopEvent
<1>4. CASE StopReap
    BY <1>4 DEF StopReap
<1> QED
    BY <1>1, <1>2, <1>3, <1>4 DEF UIStep

\* The render thread brings the context up and sees to the event thread
\* before the next frame.
LEMMA LifeRender == ASSUME LInv, RenderStep PROVE LifeInv' /\ Listens'
<1> USE DEF LInv, FlagTypeOK, StepTypeOK, IInv, RenderInv, LifeInv, Listens, UISteps, android,
            state, threads, memory, uiVars, history
<1>1. CASE RenderLoop
    BY <1>1 DEF RenderLoop
<1>2. CASE Reap
    BY <1>2 DEF Reap
<1>3. CASE Collect
    BY <1>3 DEF Collect
<1>4. CASE Connect
  <2>1. ctx = None /\ ~up /\ needReconnect
    BY <1>4 DEF Connect
  <2>2. CASE render' = "frame"
    <3>1. ctx' # None /\ ~needReconnect' /\ ui' = ui /\ up' = up
      BY <1>4, <2>2 DEF Connect, None
    <3> QED
      BY <1>4, <2>1, <2>2, <3>1 DEF Connect
  <2>3. CASE render' = "loop"
    BY <1>4, <2>1, <2>3 DEF Connect
  <2> QED
    BY <1>4, <2>2, <2>3 DEF Connect
<1>5. CASE Frame
    BY <1>5 DEF Frame
<1>6. CASE StartEventThread
    BY <1>6 DEF StartEventThread, CreateEventThread
<1> QED
    BY <1>1, <1>2, <1>3, <1>4, <1>5, <1>6 DEF RenderStep

\* The event thread ends only when it was signalled.
LEMMA LifeEvent == ASSUME LInv, EventStep PROVE LifeInv' /\ Listens'
<1> USE DEF LInv, FlagTypeOK, StepTypeOK, IInv, RenderInv, LifeInv, Listens, UISteps, android,
            state, threads, memory, uiVars, history
<1>1. CASE EventBegin
    BY <1>1 DEF EventBegin
<1>2. CASE EventTop
    BY <1>2 DEF EventTop
<1>3. CASE EventPoll
    BY <1>3 DEF EventPoll
<1>4. CASE EventFallback
    BY <1>4 DEF EventFallback
<1> QED
    BY <1>1, <1>2, <1>3, <1>4 DEF EventStep

\* The life of the event thread, in every state of every behaviour.
LEMMA LInductive == Spec => []LInv
<1>1. Init => LInv
    BY InitTypeOK, InitIInv DEF TypeOK, Init, LInv, LifeInv, Listens, None
<1>2. LInv /\ TypeOK' /\ [Next]_vars => LInv'
  <2> SUFFICES ASSUME LInv, TypeOK', [Next]_vars PROVE LifeInv' /\ Listens'
    BY IInvStep DEF LInv, TypeOK
  <2>1. ASSUME UNCHANGED vars PROVE LifeInv' /\ Listens'
    BY <2>1 DEF LInv, LifeInv, Listens, vars, android, state, threads, memory, uiVars, history
  <2> QED
    BY <2>1, LifeCallback, LifeUI, LifeRender, LifeEvent DEF Next, Rest
<1> QED
    BY <1>1, <1>2, TypeCorrect, PTL DEF Spec

\* An instance that is up has an event thread that reads, unless a late
\* on_fallback ended it or it could not start (no thread could be created, or
\* none attached to the JVM): whatever the order of starts, stops and failures.
THEOREM UpListens == Spec => []Listens
<1>1. LInv => Listens
    BY DEF LInv
<1> QED
    BY <1>1, LInductive, PTL

-----------------------------------------------------------------------------
(* One window at a time whose start is never overtaken: the case in which  *)
(* nativeStart finds no context to free                                    *)

\* A start is posted only while the instance is stopped, so that nativeStart
\* has no thread to end and no context to free; a stop leaves no window that
\* waits to be served.
QuietStart ==
    /\ \/ posted = <<>>
       \/ ui = "idle" /\ ~running /\ \E w \in Windows : posted = <<w>> /\ surface = {w}
    /\ \A v, w \in surface : v = w
    /\ ui # "start_join"
    /\ ui = "start" => ctx = None /\ uiWindow \in surface
    /\ ui \in {"stop_join", "stop_event", "stop_reap"} => surface \subseteq finishing
    /\ posted = <<>> /\ ui = "idle" /\ ~running => surface \subseteq finishing

\* The event thread lives and dies with the context it polls.
EventInv ==
    /\ ctx = None => event = "none" /\ ~joinable
    /\ event # "none" => joinable
    /\ event \in InContext => eventCtx = ctx

Orderly ==
    /\ render = "exited" => ~running
    /\ orderly => QuietStart /\ EventInv

OInv == IInv /\ LifeInv /\ FlagTypeOK /\ AndroidTypeOK /\ Orderly

\* Android's callbacks find the instance as QuietStart says.
LEMMA OrderlyCallback ==
    ASSUME OInv, AndroidTypeOK', WindowStep \/ StartDisplay \/ CancelledStart
    PROVE  Orderly'
<1> USE DEF OInv, Orderly, IInv, RenderInv, HeldInv, LifeInv, QuietStart, EventInv, InContext,
            UISteps,
            FlagTypeOK, AndroidTypeOK, state, threads, memory, uiVars, history, LooperTurn,
            InOrder
<1>1. ASSUME NEW w \in Windows, SurfaceCreated(w) PROVE Orderly'
  <2>1. orderly' => orderly /\ posted = <<>> /\ surface = {}
    BY <1>1 DEF SurfaceCreated
  <2>2. surface' = surface \cup {w} /\ posted' = Append(posted, w)
    BY <1>1 DEF SurfaceCreated
  <2>3. ASSUME orderly' PROVE posted' = <<w>> /\ surface' = {w} /\ ~running /\ orderly
    BY <2>1, <2>2, <2>3
  <2>4. orderly' => posted' = <<w>> /\ surface' = {w} /\ ~running /\ orderly
    BY <2>3
  <2>5. ui' = "idle" /\ ui = "idle" /\ running' = running /\ render' = render
    BY <1>1 DEF SurfaceCreated
  <2>6. orderly' => QuietStart'
    BY <2>4, <2>5
  <2>7. orderly' => EventInv'
    BY <1>1, <2>4 DEF SurfaceCreated
  <2> QED
    BY <2>5, <2>6, <2>7
<1>2. ASSUME NEW w \in Windows, SurfaceDestroyed(w) PROVE Orderly'
    BY <1>2 DEF SurfaceDestroyed, StopDisplay
<1>3. ASSUME NEW w \in Windows, Back(w) PROVE Orderly'
    BY <1>3 DEF Back, StopDisplay
<1>4. ASSUME NEW w \in Windows, Dismiss(w) PROVE Orderly'
    BY <1>4 DEF Dismiss
<1>5. CASE StartDisplay
    BY <1>5 DEF StartDisplay
<1>6. CASE CancelledStart
    BY <1>6 DEF CancelledStart
<1> QED
    BY <1>1, <1>2, <1>3, <1>4, <1>5, <1>6 DEF WindowStep

\* nativeStart and nativeStop free a context only with its event thread ended.
LEMMA OrderlyUI == ASSUME OInv, UIStep PROVE Orderly'
<1> USE DEF OInv, Orderly, IInv, RenderInv, HeldInv, LifeInv, QuietStart, EventInv, InContext,
            UISteps,
            FlagTypeOK, AndroidTypeOK, state, threads, memory, uiVars, history, android
<1>1. CASE JoinRender
    BY <1>1 DEF JoinRender
<1>2. CASE StartRender
    BY <1>2 DEF StartRender
<1>3. CASE StopEvent
    BY <1>3 DEF StopEvent
<1>4. CASE StopReap
    BY <1>4 DEF StopReap
<1> QED
    BY <1>1, <1>2, <1>3, <1>4 DEF UIStep

\* The render thread frees a context only with its event thread ended, and
\* starts an event thread only for the context it has.
LEMMA OrderlyRender == ASSUME OInv, RenderStep PROVE Orderly'
<1> USE DEF OInv, Orderly, IInv, RenderInv, HeldInv, LifeInv, QuietStart, EventInv, InContext,
            UISteps,
            FlagTypeOK, AndroidTypeOK, state, threads, memory, uiVars, history, android
<1>1. CASE RenderLoop
    BY <1>1 DEF RenderLoop
<1>2. CASE Reap
    BY <1>2 DEF Reap
<1>3. CASE Collect
    BY <1>3 DEF Collect
<1>4. CASE Connect
  <2>1. ctx = None
    BY <1>4 DEF Connect
  <2>2. orderly => QuietStart'
    BY <1>4 DEF Connect
  <2>3. orderly => event = "none" /\ ~joinable
    BY <2>1
  <2>4. event' = event /\ joinable' = joinable /\ orderly' = orderly /\ render' # "exited"
    BY <1>4 DEF Connect
  <2> QED
    BY <2>2, <2>3, <2>4
<1>5. CASE Frame
    BY <1>5 DEF Frame
<1>6. CASE StartEventThread
    BY <1>6 DEF StartEventThread, CreateEventThread
<1> QED
    BY <1>1, <1>2, <1>3, <1>4, <1>5, <1>6 DEF RenderStep

\* The event thread polls the context it finds.
LEMMA OrderlyEvent == ASSUME OInv, EventStep PROVE Orderly'
<1> USE DEF OInv, Orderly, IInv, RenderInv, HeldInv, LifeInv, QuietStart, EventInv, InContext,
            UISteps,
            FlagTypeOK, AndroidTypeOK, state, threads, memory, uiVars, history, android
<1>1. CASE EventBegin
    BY <1>1 DEF EventBegin
<1>2. CASE EventTop
    BY <1>2 DEF EventTop
<1>3. CASE EventPoll
    BY <1>3 DEF EventPoll
<1>4. CASE EventFallback
    BY <1>4 DEF EventFallback
<1> QED
    BY <1>1, <1>2, <1>3, <1>4 DEF EventStep

\* The orderly invariant holds in every state of every behaviour.
LEMMA OrderlyInductive == Spec => []OInv
<1>1. Init => OInv
  <2>1. Init => LifeInv /\ Orderly
    BY DEF Init, LifeInv, Orderly, QuietStart, EventInv, InContext, None
  <2> QED
    BY <2>1, InitTypeOK, InitIInv DEF OInv, TypeOK
<1>2. OInv /\ LInv /\ LInv' /\ TypeOK' /\ [Next]_vars => OInv'
  <2> SUFFICES ASSUME OInv, LInv', TypeOK', [Next]_vars PROVE Orderly'
    BY DEF OInv, LInv, TypeOK
  <2>1. ASSUME UNCHANGED vars PROVE Orderly'
    BY <2>1 DEF OInv, Orderly, QuietStart, EventInv, InContext, vars, android, state, threads,
                memory,
                uiVars, history
  <2> QED
    BY <2>1, OrderlyCallback, OrderlyUI, OrderlyRender, OrderlyEvent DEF Next, Rest, TypeOK
<1> QED
    BY <1>1, <1>2, LInductive, TypeCorrect, PTL DEF Spec

\* One window at a time, never overtaken: no thread is ever inside a context
\* that was freed ...
THEOREM OrderlySafe == Spec => []OrderlyNoUseAfterFree
<1>1. OInv => OrderlyNoUseAfterFree
    BY DEF OInv, Orderly, IInv, HeldInv, LifeInv, EventInv, InContext,
           OrderlyNoUseAfterFree, NoUseAfterFree
<1> QED
    BY <1>1, OrderlyInductive, PTL

\* ... and whenever the UI thread is idle, the window on screen has a render
\* thread that has not given up.
THEOREM OrderlyIsServed == Spec => []OrderlyServed
<1>1. OInv => OrderlyServed
    BY DEF OInv, Orderly, IInv, RenderInv, QuietStart, OrderlyServed, EveryWindowServed
<1> QED
    BY <1>1, OrderlyInductive, PTL

-----------------------------------------------------------------------------
(* Who waits for whom                                                      *)

\* The handle of the event thread is kept until the thread is joined.
HandleInv == joinable <=> event # "none"

LEMMA HandleStep == ASSUME HandleInv, [Next]_vars PROVE HandleInv'
<1> USE DEF HandleInv, state, threads, memory, uiVars
<1>1. CASE WindowStep \/ StartDisplay \/ CancelledStart
    BY <1>1 DEF WindowStep, SurfaceCreated, SurfaceDestroyed, Back, Dismiss, StopDisplay,
                StartDisplay, CancelledStart
<1>2. CASE UIStep
    BY <1>2 DEF UIStep, JoinRender, StartRender, StopEvent, StopReap
<1>3. CASE RenderStep
    BY <1>3 DEF RenderStep, RenderLoop, Reap, Collect, Connect, Frame, StartEventThread,
                CreateEventThread
<1>4. CASE EventStep
    BY <1>4 DEF EventStep, EventBegin, EventTop, EventPoll, EventFallback
<1>5. CASE UNCHANGED vars
    BY <1>5 DEF vars
<1> QED
    BY <1>1, <1>2, <1>3, <1>4, <1>5 DEF Next, Rest

\* The steps that call join_event_thread and find a thread to join.
JoinsEvent ==
    /\ joinable
    /\ \/ ui = "stop_reap" /\ ctx # None
       \/ render = "reap" /\ ctx # None
       \/ render = "exit_fallback" /\ ~eventRunning

\* The UI thread waits for the render thread and either waits for the event
\* thread, which waits for neither; whoever is waited for exists and was told to
\* stop.
JoinsStopped ==
    /\ ui \in {"start_join", "stop_join"} => render # "none" /\ ~running
    /\ JoinsEvent => event # "none" /\ ~eventRunning

\* No join is for a thread that is not there, or that goes on running.
THEOREM JoinsAreForStopped == Spec => []JoinsStopped
<1>1. Init => HandleInv
    BY DEF Init, HandleInv
<1>2. LInv /\ HandleInv => JoinsStopped
    BY DEF LInv, IInv, RenderInv, LifeInv, HandleInv, JoinsEvent, JoinsStopped
<1> QED
    BY <1>1, <1>2, HandleStep, LInductive, PTL DEF Spec

-----------------------------------------------------------------------------
(* The event thread                                                        *)

\* Steps at which the event thread neither begins nor ends show at most that it is
\* told to stop.
LEMMA WorkerTold ==
    ASSUME joinable' = joinable, eventRunning' = eventRunning \/ eventRunning' = FALSE,
           event' = "none" <=> event = "none", event' = "exited" <=> event = "exited",
           event' = "begin" <=> event = "begin"
    PROVE  [Worker!ETNext]_(Worker!etVars)
BY DEF Worker!ETNext, Worker!Tell, Worker!etVars

LEMMA WorkerStep ==
    ASSUME LInv, HandleInv, [Next]_vars
    PROVE  [Worker!ETNext]_(Worker!etVars)
<1> USE WorkerTold DEF LInv, FlagTypeOK, LifeInv, HandleInv, state, threads, memory, uiVars
<1>1. CASE WindowStep \/ StartDisplay \/ CancelledStart
    BY <1>1 DEF WindowStep, SurfaceCreated, SurfaceDestroyed, Back, Dismiss, StartDisplay,
                CancelledStart
<1>2. CASE (StopReap \/ Reap) /\ ctx # None /\ joinable
    <2>1. event = "exited" /\ event' = "none" /\ joinable' = FALSE
        BY <1>2 DEF StopReap, Reap
    <2>2. eventRunning = FALSE /\ eventRunning' = FALSE
        BY <1>2 DEF StopReap, Reap
    <2> QED
        BY <2>1, <2>2 DEF Worker!ETNext, Worker!JoinIt
<1>3. CASE (StopReap \/ Reap) /\ (ctx = None \/ ~joinable)
    BY <1>3 DEF StopReap, Reap
<1>4. CASE JoinRender \/ StartRender \/ StopEvent
    BY <1>4 DEF JoinRender, StartRender, StopEvent
<1>5. CASE StartEventThread
    <2>1. CASE UNCHANGED <<eventRunning, joinable, event>>
        BY <2>1
    <2>2. CASE ~eventRunning /\ event \in {"none", "exited"} /\ CreateEventThread
        <3>1. CASE event' = "begin"
            BY <2>2, <3>1 DEF CreateEventThread, Worker!ETNext, Worker!Start
        <3>2. CASE event' = "none"
            BY <2>2, <3>2 DEF CreateEventThread, Worker!ETNext, Worker!JoinIt, Worker!etVars
        <3> QED
            BY <2>2, <3>1, <3>2 DEF CreateEventThread
    <2> QED
        BY <1>5, <2>1, <2>2 DEF StartEventThread
<1>6. CASE RenderLoop \/ Collect \/ Connect \/ Frame
    BY <1>6 DEF RenderLoop, Collect, Connect, Frame
<1>7. CASE EventBegin
    BY <1>7 DEF EventBegin, Worker!ETNext, Worker!Begin, Worker!GiveUp
<1>8. CASE EventTop /\ ~eventRunning
    BY <1>8 DEF EventTop, Worker!ETNext, Worker!End
<1>9. CASE (EventTop /\ eventRunning) \/ EventPoll \/ EventFallback
    BY <1>9 DEF EventTop, EventPoll, EventFallback
<1>10. CASE UNCHANGED vars
    BY <1>10 DEF vars
<1> QED
    BY <1>1, <1>2, <1>3, <1>4, <1>5, <1>6, <1>7, <1>8, <1>9, <1>10
    DEF Next, UIStep, RenderStep, EventStep, Rest

\* Whatever the windows' callbacks do: one event thread at a time, joined before
\* the next, never ended unasked once it listens, and never revived.
THEOREM ConsumerImplementsEventThread == Spec => EventThreadSpec
<1>1. Init => HandleInv /\ Worker!ETInit
    BY DEF Init, HandleInv, Worker!ETInit
<1>2. LInv /\ HandleInv /\ [Next]_vars => [Worker!ETNext]_(Worker!etVars)
    BY WorkerStep
<1> QED
    BY <1>1, <1>2, HandleStep, LInductive, PTL DEF Spec, EventThreadSpec, Worker!ETSpec

-----------------------------------------------------------------------------
(* The instance its windows see                                            *)

LEMMA InitInstance == Init => Instance!DIInit
BY DEF Init, Instance!DIInit, Target, Link

\* A start or a stop shows as an order; other callbacks do not show.
LEMMA CallbackInstance ==
    ASSUME IInv, WindowStep \/ StartDisplay \/ CancelledStart, AndroidTypeOK
    PROVE  Instance!DINext \/ UNCHANGED Instance!diVars
<1> USE DEF IInv, RenderInv, HeldInv, LooperTurn, state, threads, memory, uiVars
<1>1. ASSUME NEW w \in Windows, SurfaceCreated(w) \/ Dismiss(w)
      PROVE  UNCHANGED Instance!diVars
    BY <1>1 DEF SurfaceCreated, Dismiss, Instance!diVars, Target, Link
<1>2. ASSUME ui = "idle", StopDisplay, UNCHANGED <<window, render, ctx, handle>>
      PROVE  Instance!DINext \/ UNCHANGED Instance!diVars
    <2>1. CASE handle
        <3>1. ui' # "idle" /\ Target' = NoWindow /\ Link' = Link
            BY <1>2, <2>1 DEF StopDisplay, Target, Link
        <3> QED
            BY <1>2, <3>1 DEF Instance!DINext, Instance!Order
    <2>2. CASE ~handle
        <3>1. ui' = "idle" /\ Target' = Target /\ Link' = Link
            BY <1>2, <2>2 DEF StopDisplay, Target, Link
        <3> QED
            BY <1>2, <3>1 DEF Instance!diVars
    <2> QED
        BY <2>1, <2>2
<1>3. ASSUME NEW w \in Windows, SurfaceDestroyed(w) \/ Back(w)
      PROVE  Instance!DINext \/ UNCHANGED Instance!diVars
    BY <1>2, <1>3 DEF SurfaceDestroyed, Back
<1>4. CASE StartDisplay
    <2>1. uiWindow' \in Windows
        BY <1>4 DEF StartDisplay, AndroidTypeOK
    <2>2. ui' \in {"start_join", "start"} /\ Target' = uiWindow' /\ Link' = Link
        BY <1>4 DEF StartDisplay, Target, Link
    <2> QED
        BY <1>4, <2>1, <2>2 DEF StartDisplay, Instance!DINext, Instance!Order
<1>5. CASE CancelledStart
    BY <1>5 DEF CancelledStart, Instance!diVars, Target, Link
<1> QED
    BY <1>1, <1>3, <1>4, <1>5 DEF WindowStep

\* The UI thread carries the order out when the render thread has ended.
LEMMA UIInstance ==
    ASSUME IInv, UIStep
    PROVE  Instance!DINext \/ UNCHANGED Instance!diVars
<1> USE DEF IInv, RenderInv, HeldInv, UISteps, state, threads, memory, uiVars
<1>1. CASE JoinRender
    BY <1>1 DEF JoinRender, Instance!diVars, Target, Link
<1>2. CASE StartRender
    <2>1. ui = "start" /\ ui' = "idle" /\ Link # "trying" /\ Link' = "none"
        BY <1>2 DEF StartRender, Link, None
    <2>2. Target' \in {Target, NoWindow}
        BY <1>2 DEF StartRender, Target
    <2> QED
        BY <2>1, <2>2 DEF Instance!DINext, Instance!Obey
<1>3. CASE StopEvent
    BY <1>3 DEF StopEvent, Instance!diVars, Target, Link
<1>4. CASE StopReap
    <2>1. ui = "stop_reap" /\ ui' = "idle" /\ Link # "trying" /\ Link' = "none"
        BY <1>4 DEF StopReap, Link, None
    <2>2. Target' = NoWindow
        BY <1>4 DEF StopReap, Target
    <2> QED
        BY <2>1, <2>2 DEF Instance!DINext, Instance!Obey
<1> QED
    BY <1>1, <1>2, <1>3, <1>4 DEF UIStep

\* The render thread begins an attempt only while nobody waits for its end.
LEMMA RenderInstance ==
    ASSUME IInv, LifeInv, RenderStep, AndroidTypeOK
    PROVE  Instance!DINext \/ UNCHANGED Instance!diVars
<1> USE DEF IInv, RenderInv, HeldInv, LifeInv, state, threads, memory, uiVars
<1>1. CASE RenderLoop /\ render' = "reap"
    <2>1. ui = "idle" /\ ui' = "idle" /\ Link = "none" /\ Link' = "trying"
        BY <1>1 DEF RenderLoop, Link
    <2>2. Target = window /\ Target' = Target /\ window \in Windows
        BY <1>1 DEF RenderLoop, Target, AndroidTypeOK
    <2>3. Target # NoWindow
        BY <2>2, WindowsAssumption
    <2> QED
        BY <2>1, <2>2, <2>3 DEF Instance!DINext, Instance!Attempt
<1>2. CASE RenderLoop /\ render' # "reap"
    BY <1>2 DEF RenderLoop, Instance!diVars, Target, Link
<1>3. CASE Reap
    BY <1>3 DEF Reap, Instance!diVars, Target, Link
<1>4. CASE Collect
    <2>1. Target' = Target /\ ui' = ui /\ Link = "trying" /\ Link' \in {"trying", "none"}
        BY <1>4 DEF Collect, Target, Link
    <2> QED
        BY <2>1 DEF Instance!DINext, Instance!Outcome, Instance!diVars
<1>5. CASE Connect
    <2>1. Target' = Target /\ ui' = ui /\ Link = "trying" /\ Link' \in {"none", "connected"}
        BY <1>5 DEF Connect, Target, Link, None
    <2> QED
        BY <2>1 DEF Instance!DINext, Instance!Outcome
<1>6. CASE Frame \/ StartEventThread
    BY <1>6 DEF Frame, StartEventThread, Instance!diVars, Target, Link
<1> QED
    BY <1>1, <1>2, <1>3, <1>4, <1>5, <1>6 DEF RenderStep

LEMMA StepInstance ==
    ASSUME IInv, LifeInv, AndroidTypeOK, [Next]_vars
    PROVE  [Instance!DINext]_(Instance!diVars)
<1>1. CASE EventStep
    BY <1>1 DEF EventStep, EventBegin, EventTop, EventPoll, EventFallback, Instance!diVars,
                Target, Link,
                state, threads, memory, uiVars
<1>2. CASE UNCHANGED vars
    BY <1>2 DEF vars, state, threads, memory, uiVars, Instance!diVars, Target, Link
<1> QED
    BY <1>1, <1>2, CallbackInstance, UIInstance, RenderInstance DEF Next, Rest

\* However the windows' callbacks interleave, the instance connects only for the
\* window it was last told to show, and no connection outlives the next order.
THEOREM ConsumerImplementsInstance == Spec => InstanceSpec
<1>1. Init => Instance!DIInit
    BY InitInstance
<1>2. LInv /\ TypeOK /\ [Next]_vars => [Instance!DINext]_(Instance!diVars)
    BY StepInstance DEF TypeOK, LInv
<1> QED
    BY <1>1, <1>2, LInductive, TypeCorrect, PTL DEF Spec, InstanceSpec, Instance!DISpec
=============================================================================
