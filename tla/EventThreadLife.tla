--------------------------- MODULE EventThreadLife ---------------------------
(***************************************************************************)
(* What start_event_thread, stop_event_thread and join_event_thread promise *)
(* together: there is at most one event thread, its handle is kept until it *)
(* was joined, it ends only after it was told to or when it could not begin, *)
(* and one that has ended is joined only once it was told.  One that was    *)
(* told is not revived by the next start.  Anybody may tell it, it itself   *)
(* too.                                                                    *)
(***************************************************************************)

VARIABLES
    thread,    \* it begins, listens, has returned, or is joined
    wanted,    \* event_running
    handle     \* event_thread_joinable

etVars == <<thread, wanted, handle>>

ETTypeOK ==
    /\ thread \in {"none", "starting", "alive", "ended"}
    /\ wanted \in BOOLEAN /\ handle \in BOOLEAN

ETInit == thread = "none" /\ wanted = FALSE /\ handle = FALSE

\* A new thread; one that has ended is joined first.
Start ==
    /\ ~wanted /\ thread \in {"none", "ended"}
    /\ thread' = "starting" /\ wanted' = TRUE /\ handle' = TRUE

\* It is attached to the JVM and listens.
Begin == thread = "starting" /\ thread' = "alive" /\ UNCHANGED <<wanted, handle>>

\* It could not be attached: it ends, and is still wanted.
GiveUp == thread = "starting" /\ thread' = "ended" /\ UNCHANGED <<wanted, handle>>

Tell == wanted' = FALSE /\ UNCHANGED <<thread, handle>>

End == ~wanted /\ thread = "alive" /\ thread' = "ended" /\ UNCHANGED <<wanted, handle>>

JoinIt == ~wanted /\ thread = "ended" /\ thread' = "none" /\ handle' = FALSE /\ UNCHANGED wanted

ETNext == Start \/ Begin \/ GiveUp \/ Tell \/ End \/ JoinIt

ETSpec == ETInit /\ [][ETNext]_etVars
=============================================================================
