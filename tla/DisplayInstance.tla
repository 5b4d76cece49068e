--------------------------- MODULE DisplayInstance ---------------------------
(***************************************************************************)
(* What one consumer instance promises the activity that shows it, without *)
(* windows, sockets or helpers: it tries to connect only for what it was   *)
(* last told to show, one attempt at a time; to be told something else is  *)
(* to wait for the attempt's end; and no connection outlives a new order.  *)
(***************************************************************************)

CONSTANTS Targets, Nothing

VARIABLES
    target,     \* what it was last told to show
    joining,    \* whoever told it waits for the render thread
    link        \* its connection to the daemon

diVars == <<target, joining, link>>

DITypeOK ==
    /\ target \in Targets \cup {Nothing}
    /\ joining \in BOOLEAN
    /\ link \in {"none", "trying", "connected"}

DIInit == target = Nothing /\ joining = FALSE /\ link = "none"

\* A start or a stop: from here on it is waited for.
Order(t) ==
    /\ ~joining /\ joining' = TRUE
    /\ target' = t
    /\ UNCHANGED link

\* The wait is over once no attempt runs, and the connection is gone.  There may
\* be nothing to show any more.
Obey ==
    /\ joining /\ joining' = FALSE
    /\ link # "trying" /\ link' = "none"
    /\ target' \in {target, Nothing}

\* An attempt, for the order that was carried out last.
Attempt ==
    /\ ~joining /\ target # Nothing
    /\ link = "none" /\ link' = "trying"
    /\ UNCHANGED <<target, joining>>

\* It ends, maybe after the next order was given.
Outcome ==
    /\ link = "trying" /\ link' \in {"none", "connected"}
    /\ UNCHANGED <<target, joining>>

\* The process is killed.
Crash == target' = Nothing /\ joining' = FALSE /\ link' = "none"

DINext ==
    \/ \E t \in Targets \cup {Nothing} : Order(t)
    \/ Obey \/ Attempt \/ Outcome \/ Crash

DISpec == DIInit /\ [][DINext]_diVars
=============================================================================
