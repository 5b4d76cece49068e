----------------------------- MODULE RootHelper -----------------------------
(***************************************************************************)
(* "Connect with root": the app may not connect to the daemon's socket, so *)
(* an attempt listens on a bridge socket, queues the helper in the root    *)
(* shell and waits 30 s.  The helper connects to the daemon, then to the   *)
(* bridge, and sends the first connection over the second.  There is one   *)
(* root shell, which the containers' scripts use too, and one bridge path. *)
(* This is what module NativeConsumer has as its step Connect.             *)
(***************************************************************************)
EXTENDS Integers, Sequences

CONSTANTS
    Containers,      \* containers with a display daemon
    NoContainer,
    MaxHelpers,      \* bound: helpers waiting for the root shell
    MaxFaults        \* bound: scripts, deaths and delays

ASSUME ContainersAssumption == NoContainer \notin Containers
ASSUME HelpersAssumption == MaxHelpers \in Nat \ {0} /\ MaxFaults \in Nat

VARIABLES
    shown,       \* the container of the window on screen
    configured,  \* the container of cfg_socket_path, which outlives a stop
    joining,     \* the UI thread waits for the render thread's end
    session,     \* the container whose daemon the instance is connected to
    attempt,     \* the render thread in do_connect
    bridge,      \* the file at the bridge path
    backlog,     \* connections to the bridge not accepted yet
    accepted,    \* the connection accepted
    waiting,     \* helpers in line for the root shell, per container
    shell, job,  \* what the root shell runs, and for which container
    daemons,     \* containers whose daemon is alive
    faults

ui == <<shown, configured, joining>>
socket == <<bridge, backlog, accepted>>
root == <<waiting, shell, job>>
vars == <<ui, session, attempt, socket, root, daemons, faults>>

Backlog == 1     \* listen(lfd, 1): Linux lets one more in
NoConnection == [to |-> NoContainer, sent |-> FALSE]
HelperSteps == {"daemon", "bridge", "send"}

Init ==
    /\ shown = NoContainer /\ configured = NoContainer /\ joining = FALSE
    /\ session = NoContainer
    /\ attempt = "none" /\ bridge = "none"
    /\ backlog = <<>> /\ accepted = NoConnection
    /\ waiting = [c \in Containers |-> 0]
    /\ shell = "idle" /\ job = NoContainer
    /\ daemons = Containers
    /\ faults = 0

Helpers == {c \in Containers : waiting[c] > 0}

-----------------------------------------------------------------------------
(* The UI thread                                                           *)

\* nativeConfigure and nativeStart for container c.
Show(c) ==
    /\ ~joining
    /\ shown' = c /\ configured' = c
    /\ joining' = TRUE
    /\ UNCHANGED <<session, attempt, socket, root, daemons, faults>>

\* nativeStop.
Leave ==
    /\ ~joining /\ shown # NoContainer
    /\ shown' = NoContainer
    /\ joining' = TRUE
    /\ UNCHANGED <<configured, session, attempt, socket, root, daemons, faults>>

\* Mutant: the old connection is kept.
JoinedConnected ==
    /\ joining /\ attempt = "none"
    /\ joining' = FALSE
    /\ UNCHANGED <<shown, configured, session, attempt, socket, root, daemons, faults>>

\* The render thread has ended; its connection goes with it.
Joined ==
    /\ joining /\ attempt = "none"
    /\ joining' = FALSE
    /\ session' = NoContainer
    /\ UNCHANGED <<shown, configured, attempt, socket, root, daemons, faults>>

-----------------------------------------------------------------------------
(* The render thread: an attempt to connect                                *)

\* The render thread finds itself running and without a connection; by the
\* time it goes on, it may have been told to stop.
Try ==
    /\ ~joining /\ shown # NoContainer /\ session = NoContainer
    /\ attempt = "none" /\ attempt' = "try"
    /\ UNCHANGED <<ui, session, socket, root, daemons, faults>>

\* Room is left in the line, a bound of the model.
RoomForHelper == \A c \in Containers : waiting[c] < MaxHelpers

\* Mutant: the bridge path is not unlinked first, and bind fails on it.
BeginOnStale ==
    /\ attempt = "try" /\ RoomForHelper /\ bridge # "stale"
    /\ bridge' = "listening"
    /\ waiting' = [waiting EXCEPT ![configured] = @ + 1]
    /\ attempt' = "poll"
    /\ UNCHANGED <<ui, session, backlog, accepted, shell, job, daemons, faults>>

\* Unlinks the path, listens, and hands the helper's command for the
\* configured container to a thread that waits for the root shell.
Begin ==
    /\ attempt = "try" /\ RoomForHelper
    /\ bridge' = "listening"
    /\ waiting' = [waiting EXCEPT ![configured] = @ + 1]
    /\ attempt' = "poll"
    /\ UNCHANGED <<ui, session, backlog, accepted, shell, job, daemons, faults>>

\* The buffers, the socket or its path cannot be had.
GiveUp ==
    /\ attempt = "try" /\ faults < MaxFaults
    /\ faults' = faults + 1
    /\ attempt' = "none"
    /\ bridge' \in {bridge, "none"}
    /\ UNCHANGED <<ui, session, backlog, accepted, root, daemons>>

\* The listener is closed, and what was not accepted with it; the path is
\* unlinked.
EndAttempt ==
    /\ attempt' = "none"
    /\ bridge' = "none" /\ backlog' = <<>> /\ accepted' = NoConnection

Accept ==
    /\ attempt = "poll" /\ backlog # <<>>
    /\ attempt' = "recv"
    /\ accepted' = Head(backlog) /\ backlog' = Tail(backlog)
    /\ UNCHANGED <<ui, session, bridge, root, daemons, faults>>

\* The 30 s are enough for every helper in line, unless a script has the
\* shell or the device is slow.
HelperComing == shell \in HelperSteps \/ (shell = "idle" /\ Helpers # {})

\* Mutant: after the timeout the poll is tried again.
TimeOutRetry ==
    /\ attempt = "poll" /\ backlog = <<>>
    /\ UNCHANGED vars

\* The poll ends without a connection.
TimeOut ==
    /\ attempt = "poll" /\ backlog = <<>>
    /\ HelperComing => faults < MaxFaults
    /\ faults' = IF HelperComing THEN faults + 1 ELSE faults
    /\ EndAttempt
    /\ UNCHANGED <<ui, session, root, daemons>>

\* Mutant: the listener is not closed after a success.
ReceiveLeak ==
    /\ attempt = "recv" /\ accepted.sent
    /\ session' = IF accepted.to \in daemons THEN accepted.to ELSE NoContainer
    /\ attempt' = "none" /\ bridge' = "none" /\ accepted' = NoConnection
    /\ UNCHANGED <<ui, backlog, root, daemons, faults>>

\* Mutant: the result of a failed hello is kept as a connection.
ReceiveError ==
    /\ attempt = "recv" /\ accepted.sent
    /\ session' = IF accepted.to \in daemons THEN accepted.to ELSE -1
    /\ EndAttempt
    /\ UNCHANGED <<ui, root, daemons, faults>>

\* recv_fds waits for the helper's message, without a timeout; the hello to
\* the daemon then works or not.
Receive ==
    /\ attempt = "recv" /\ accepted.sent
    /\ session' = IF accepted.to \in daemons THEN accepted.to ELSE NoContainer
    /\ EndAttempt
    /\ UNCHANGED <<ui, root, daemons, faults>>

RenderStep == Try \/ Begin \/ Accept \/ TimeOut \/ Receive

-----------------------------------------------------------------------------
(* The root shell and the helper                                           *)

Exit == shell' = "idle" /\ job' = NoContainer

\* The shell runs one command at a time, in no order that can be relied on.
TakeHelper(c) ==
    /\ shell = "idle" /\ waiting[c] > 0
    /\ waiting' = [waiting EXCEPT ![c] = @ - 1]
    /\ shell' = "daemon" /\ job' = c
    /\ UNCHANGED <<ui, session, attempt, socket, daemons, faults>>

\* A container's start, stop or extraction script.
TakeScript ==
    /\ shell = "idle" /\ faults < MaxFaults
    /\ faults' = faults + 1
    /\ shell' = "script"
    /\ UNCHANGED <<ui, session, attempt, socket, waiting, job, daemons>>

EndScript ==
    /\ shell = "script" /\ Exit
    /\ UNCHANGED <<ui, session, attempt, socket, waiting, daemons, faults>>

ConnectDaemon ==
    /\ shell = "daemon"
    /\ IF job \in daemons THEN shell' = "bridge" /\ UNCHANGED job ELSE Exit
    /\ UNCHANGED <<ui, session, attempt, socket, waiting, daemons, faults>>

\* Connects to whoever listens at the path; waits while the backlog is full.
ConnectBridge ==
    /\ shell = "bridge" /\ Len(backlog) <= Backlog
    /\ \/ /\ bridge = "listening"
          /\ backlog' = Append(backlog, [to |-> job, sent |-> FALSE])
          /\ shell' = "send" /\ UNCHANGED job
       \/ /\ bridge # "listening" /\ Exit
          /\ UNCHANGED backlog
    /\ UNCHANGED <<ui, session, attempt, bridge, accepted, waiting, daemons, faults>>

\* Only the helper that is running has a connection without a descriptor; its
\* message is lost if that connection was closed.
SendFd ==
    /\ shell = "send" /\ Exit
    /\ backlog' = [i \in DOMAIN backlog |-> [to |-> backlog[i].to, sent |-> TRUE]]
    /\ accepted' = [accepted EXCEPT !.sent = attempt = "recv"]
    /\ UNCHANGED <<ui, session, attempt, bridge, waiting, daemons, faults>>

ShellStep ==
    \/ \E c \in Containers : TakeHelper(c)
    \/ EndScript \/ ConnectDaemon \/ ConnectBridge \/ SendFd

-----------------------------------------------------------------------------
(* Deaths                                                                  *)

DaemonDies(c) ==
    /\ c \in daemons /\ faults < MaxFaults
    /\ faults' = faults + 1
    /\ daemons' = daemons \ {c}
    /\ UNCHANGED <<ui, session, attempt, socket, root>>

\* The app is killed and its root shell with it: only the file is left.
AppDies ==
    /\ faults < MaxFaults
    /\ faults' = faults + 1
    /\ shown' = NoContainer /\ configured' = NoContainer /\ joining' = FALSE
    /\ session' = NoContainer /\ attempt' = "none"
    /\ bridge' = IF bridge = "none" THEN "none" ELSE "stale"
    /\ backlog' = <<>> /\ accepted' = NoConnection
    /\ waiting' = [c \in Containers |-> 0] /\ Exit
    /\ UNCHANGED daemons

Next ==
    \/ \E c \in Containers : Show(c)
    \/ Leave \/ Joined \/ RenderStep \/ GiveUp \/ ShellStep \/ TakeScript
    \/ \E c \in Containers : DaemonDies(c)
    \/ AppDies

Spec == Init /\ [][Next]_vars

\* Threads and processes that can run do, and scripts end.
FairSpec ==
    /\ Spec
    /\ WF_vars(Joined) /\ WF_vars(RenderStep) /\ WF_vars(ShellStep)

-----------------------------------------------------------------------------
(* Properties                                                              *)

Connections == [to : Containers \cup {NoContainer}, sent : BOOLEAN]

\* Every variable has its type.
TypeOK ==
    /\ {shown, configured, session, job} \subseteq Containers \cup {NoContainer}
    /\ joining \in BOOLEAN
    /\ attempt \in {"none", "try", "poll", "recv"}
    /\ bridge \in {"none", "listening", "stale"}
    /\ backlog \in Seq(Connections) /\ accepted \in Connections
    /\ waiting \in [Containers -> 0 .. MaxHelpers]
    /\ shell \in {"idle", "script"} \cup HelperSteps
    /\ daemons \subseteq Containers /\ faults \in Nat

\* While nothing is late, dies or is in the way, the instance is connected to
\* the daemon of the container on screen, however the user switches.
RightUndisturbed ==
    faults = 0 /\ ~joining => session \in {NoContainer, shown}

\* An attempt ends, so that the UI thread can join the render thread.
AttemptEnds == []<>(attempt = "none")

\* No helper keeps the root shell, which the containers' scripts need.
ShellComesFree == []<>(shell = "idle")

\* A window that stays on screen gets connected if its daemon is alive, after
\* whatever timeouts, late helpers and crashes came before.
Connects ==
    <>[](~joining /\ shown \in daemons) => <>[](session # NoContainer)

Link == IF attempt # "none" THEN "trying"
        ELSE IF session = NoContainer THEN "none" ELSE "connected"

\* It connects only for the container on screen, one attempt at a time; the UI
\* thread waits out the attempt, and no connection outlives it.
Instance == INSTANCE DisplayInstance WITH
    Targets <- Containers, Nothing <- NoContainer, target <- shown, link <- Link
InstanceSpec == Instance!DISpec
=============================================================================
