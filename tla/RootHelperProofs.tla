-------------------------- MODULE RootHelperProofs --------------------------
(***************************************************************************)
(* Theorems of RootHelper, for any number of containers and any switching  *)
(* between their windows: typing; that undisturbed attempts reach the      *)
(* right daemon; and, with every fault there is, what an attempt shows of  *)
(* itself and that its unbounded recv_fds is about to be served.           *)
(***************************************************************************)
EXTENDS RootHelper, TLAPS

\* The connections the model builds are connections.
LEMMA ConnectionTypes ==
    /\ NoConnection \in Connections
    /\ \A c \in Containers \cup {NoContainer} :
          [to |-> c, sent |-> FALSE] \in Connections /\ [to |-> c, sent |-> TRUE] \in Connections
    /\ \A d \in Connections :
          /\ d.to \in Containers \cup {NoContainer}
          /\ \A b \in BOOLEAN : [d EXCEPT !.sent = b] \in Connections
BY DEF Connections, NoConnection

\* A step of any actor gives each variable a value of its type.
LEMMA TypeStep == TypeOK /\ [Next]_vars => TypeOK'
<1> SUFFICES ASSUME TypeOK, [Next]_vars PROVE TypeOK'
    OBVIOUS
<1> USE HelpersAssumption, ConnectionTypes DEF TypeOK, HelperSteps
<1>1. CASE UNCHANGED vars
    BY <1>1 DEF vars, ui, socket, root
<1>2. ASSUME NEW c \in Containers, Show(c) PROVE TypeOK'
    BY <1>2 DEF Show, socket, root
<1>3. CASE Leave \/ Joined
    BY <1>3 DEF Leave, Joined, socket, root
<1>4. CASE Begin
    <2>1. waiting' \in [Containers -> 0 .. MaxHelpers]
        <3>1. waiting \in [Containers -> Nat] /\ \A c \in Containers : waiting[c] + 1 \in 0 .. MaxHelpers
            BY <1>4 DEF Begin, RoomForHelper
        <3>2. waiting' = [waiting EXCEPT ![configured] = @ + 1]
            BY <1>4 DEF Begin
        <3> QED
            BY <3>1, <3>2
    <2> QED
        BY <1>4, <2>1 DEF Begin, ui
<1>5. CASE Accept
    BY <1>5 DEF Accept, ui, root
<1>6. CASE TimeOut
    BY <1>6 DEF TimeOut, EndAttempt, ui, root
<1>7. CASE Receive
    BY <1>7 DEF Receive, EndAttempt, ui, root
<1>8. ASSUME NEW c \in Containers, TakeHelper(c) PROVE TypeOK'
    BY <1>8 DEF TakeHelper, ui, socket
<1>9. CASE EndScript
    BY <1>9 DEF EndScript, Exit, ui, socket
<1>10. CASE ConnectDaemon
    BY <1>10 DEF ConnectDaemon, Exit, ui, socket
<1>11. CASE ConnectBridge
    <2>1. [to |-> job, sent |-> FALSE] \in Connections
        OBVIOUS
    <2>2. backlog' \in Seq(Connections)
        <3> DEFINE new == [to |-> job, sent |-> FALSE]
        <3>1. backlog' = backlog \/ backlog' = Append(backlog, new)
            BY <1>11 DEF ConnectBridge
        <3> HIDE DEF new
        <3>2. new \in Connections /\ backlog \in Seq(Connections)
            BY <2>1 DEF new
        <3>3. Append(backlog, new) \in Seq(Connections)
            BY ONLY <3>2
        <3> QED
            BY ONLY <3>1, <3>2, <3>3
    <2> QED
        BY <1>11, <2>2 DEF ConnectBridge, Exit, ui
<1>12. CASE SendFd
    <2>1. backlog \in Seq(Connections) /\ DOMAIN backlog = 1 .. Len(backlog)
        OBVIOUS
    <2>2. \A i \in 1 .. Len(backlog) : [to |-> backlog[i].to, sent |-> TRUE] \in Connections
        <3> TAKE i \in 1 .. Len(backlog)
        <3>1. backlog[i] \in Connections
            BY <2>1
        <3> QED
            BY <3>1
    <2>3. backlog' \in Seq(Connections)
        BY <1>12, <2>1, <2>2 DEF SendFd
    <2>4. accepted' \in Connections
        BY <1>12 DEF SendFd
    <2> QED
        BY <1>12, <2>3, <2>4 DEF SendFd, Exit, ui
<1>13. CASE TakeScript
    BY <1>13 DEF TakeScript, ui, socket
<1>14. ASSUME NEW c \in Containers, DaemonDies(c) PROVE TypeOK'
    BY <1>14 DEF DaemonDies, ui, socket, root
<1>15. CASE AppDies
    <2>1. waiting' \in [Containers -> 0 .. MaxHelpers]
        BY <1>15 DEF AppDies
    <2>2. accepted' \in Connections /\ backlog' \in Seq(Connections)
        BY <1>15 DEF AppDies
    <2>3. {shown, configured, session, job}' \subseteq Containers \cup {NoContainer} /\ joining' \in BOOLEAN
        BY <1>15 DEF AppDies, Exit
    <2>4. (attempt \in {"none", "try", "poll", "recv"})' /\ (bridge \in {"none", "listening", "stale"})'
        BY <1>15 DEF AppDies
    <2>5. (shell \in {"idle", "script"} \cup HelperSteps)' /\ daemons' \subseteq Containers
            /\ faults' \in Nat
        BY <1>15 DEF AppDies, Exit
    <2> QED
        BY <2>1, <2>2, <2>3, <2>4, <2>5
<1>16. CASE Try \/ GiveUp
    BY <1>16 DEF Try, GiveUp, ui, socket, root
<1> QED
    BY <1>1, <1>2, <1>3, <1>4, <1>5, <1>6, <1>7, <1>8, <1>9, <1>10, <1>11, <1>12, <1>13, <1>14,
       <1>15, <1>16 DEF Next, RenderStep, ShellStep

\* Every variable keeps its type, and the line of helpers its bound.
THEOREM TypeCorrect == Spec => []TypeOK
<1>1. ASSUME Init PROVE TypeOK
    <2>1. waiting \in [Containers -> 0 .. MaxHelpers]
        BY <1>1, HelpersAssumption DEF Init
    <2>2. accepted \in Connections /\ backlog \in Seq(Connections)
        BY <1>1, ConnectionTypes DEF Init
    <2>3. {shown, configured, session, job} \subseteq Containers \cup {NoContainer}
        BY <1>1 DEF Init
    <2>4. joining \in BOOLEAN /\ daemons \subseteq Containers /\ faults \in Nat
        BY <1>1 DEF Init
    <2>5. /\ attempt \in {"none", "try", "poll", "recv"} /\ bridge \in {"none", "listening", "stale"}
          /\ shell \in {"idle", "script"} \cup HelperSteps
        BY <1>1 DEF Init
    <2> QED
        BY <2>1, <2>2, <2>3, <2>4, <2>5 DEF TypeOK
<1> QED
    BY <1>1, TypeStep, PTL DEF Spec

-----------------------------------------------------------------------------
\* The single helper of the attempt, for container t, in its stages: in line,
\* in the shell, connected to the bridge, and done.
Waiting(t) ==
    /\ waiting = [c \in Containers |-> IF c = t THEN 1 ELSE 0]
    /\ shell = "idle" /\ backlog = <<>>

Alone == waiting = [c \in Containers |-> 0]

Running(t) == Alone /\ shell \in {"daemon", "bridge"} /\ job = t /\ backlog = <<>>

Connected(t) ==
    Alone /\ shell = "send" /\ job = t /\ backlog = <<[to |-> t, sent |-> FALSE]>>

Offered(t) == Alone /\ shell = "idle" /\ backlog = <<[to |-> t, sent |-> TRUE]>>

Polling(t) == Waiting(t) \/ Running(t) \/ Connected(t) \/ Offered(t)

Receiving(t) ==
    /\ Alone /\ backlog = <<>>
    /\ \/ shell = "send" /\ job = t /\ accepted = [to |-> t, sent |-> FALSE]
       \/ shell = "idle" /\ accepted = [to |-> t, sent |-> TRUE]

\* An attempt for t, which is the container on screen unless the UI thread
\* already waits for the attempt's end.
AttemptFor(t) ==
    /\ bridge = "listening"
    /\ session = NoContainer
    /\ joining \/ shown = t
    /\ \/ attempt = "poll" /\ Polling(t)
       \/ attempt = "recv" /\ Receiving(t)

Between ==
    /\ \/ attempt = "none"
       \/ /\ attempt = "try" /\ session = NoContainer
          /\ configured \in Containers /\ (joining \/ shown = configured)
    /\ Alone /\ shell = "idle" /\ backlog = <<>>
    /\ joining \/ session \in {NoContainer, shown}

Undisturbed ==
    /\ daemons = Containers
    /\ shown \in {NoContainer, configured} /\ configured \in Containers \cup {NoContainer}
    /\ Between \/ \E t \in Containers : AttemptFor(t)

IInv == faults \in Nat /\ (faults = 0 => Undisturbed)

\* A queue of one element loses it.
LEMMA HeadTail == ASSUME NEW x PROVE Head(<<x>>) = x /\ Tail(<<x>>) = <<>>
OBVIOUS

\* A function on 1 .. 1 is a sequence of one element.
LEMMA Singleton == ASSUME NEW x PROVE [i \in 1 .. 1 |-> x] = <<x>>
OBVIOUS

\* At the start no attempt has been made.
LEMMA InitIInv == Init => IInv
BY DEF Init, IInv, Undisturbed, Between, Alone

\* Faults are counted and never forgotten.
LEMMA FaultsGrow ==
    ASSUME IInv, [Next]_vars
    PROVE  faults' \in Nat /\ (faults' = 0 => faults = 0 /\ UNCHANGED <<faults, daemons>>)
<1> USE DEF IInv
<1>1. CASE UNCHANGED vars
    BY <1>1 DEF vars
<1>2. ASSUME NEW c \in Containers, Show(c)
      PROVE faults' \in Nat /\ (faults' = 0 => faults = 0 /\ UNCHANGED <<faults, daemons>>)
    BY <1>2 DEF Show
<1>3. CASE Leave \/ Joined
    BY <1>3 DEF Leave, Joined
<1>4. CASE RenderStep
    BY <1>4 DEF RenderStep, Try, Begin, Accept, TimeOut, Receive, EndAttempt
<1>5. CASE ShellStep
    BY <1>5 DEF ShellStep, TakeHelper, EndScript, ConnectDaemon, ConnectBridge, SendFd
<1>6. CASE GiveUp \/ TakeScript \/ AppDies \/ \E c \in Containers : DaemonDies(c)
    BY <1>6 DEF GiveUp, TakeScript, AppDies, DaemonDies
<1> QED
    BY <1>1, <1>2, <1>3, <1>4, <1>5, <1>6 DEF Next

\* The UI thread's steps leave the attempt alone.
LEMMA UIUndisturbed ==
    ASSUME Undisturbed,
           Leave \/ Joined \/ \E c \in Containers : Show(c)
    PROVE  Undisturbed'
<1> USE DEF Undisturbed, Between, AttemptFor, Polling, Receiving, Waiting, Running, Connected,
            Offered, Alone, socket, root
<1>1. CASE Joined
    BY <1>1 DEF Joined
<1>2. CASE Leave
    BY <1>2 DEF Leave
<1>3. ASSUME NEW c \in Containers, Show(c) PROVE Undisturbed'
    BY <1>3 DEF Show
<1> QED
    BY <1>1, <1>2, <1>3

\* The render thread's steps: an attempt begins with its helper in line and
\* ends only with the descriptor of that helper.
LEMMA RenderUndisturbed ==
    ASSUME Undisturbed, RenderStep, UNCHANGED <<faults, daemons>>, faults = 0
    PROVE  Undisturbed'
<1> USE ContainersAssumption DEF Undisturbed
<1>1. CASE Begin
    <2>1. Between /\ configured \in Containers
        BY <1>1 DEF Begin, Between, AttemptFor
    <2>2. Waiting(configured)'
        BY <1>1, <2>1 DEF Begin, Between, Waiting, Alone, ui
    <2>3. AttemptFor(configured)'
        BY <1>1, <2>1, <2>2 DEF Begin, Between, AttemptFor, Polling, ui
    <2> QED
        BY <1>1, <2>1, <2>3 DEF Begin, ui
<1>2. CASE Accept
    <2>1. PICK t \in Containers : AttemptFor(t)
        BY <1>2 DEF Accept, Between
    <2>2. Connected(t) \/ Offered(t)
        BY <1>2, <2>1 DEF Accept, AttemptFor, Polling, Waiting, Running
    <2>3. Receiving(t)'
        <3>1. accepted' = Head(backlog) /\ backlog' = Tail(backlog) /\ UNCHANGED <<waiting, shell, job>>
            BY <1>2 DEF Accept, root
        <3>2. CASE Connected(t)
            <4>1. accepted' = [to |-> t, sent |-> FALSE] /\ backlog' = <<>>
                BY <3>1, <3>2, HeadTail DEF Connected
            <4> QED
                BY <3>1, <3>2, <4>1 DEF Connected, Receiving, Alone
        <3>3. CASE Offered(t)
            <4>1. accepted' = [to |-> t, sent |-> TRUE] /\ backlog' = <<>>
                BY <3>1, <3>3, HeadTail DEF Offered
            <4> QED
                BY <3>1, <3>3, <4>1 DEF Offered, Receiving, Alone
        <3> QED
            BY <2>2, <3>2, <3>3
    <2> QED
        BY <1>2, <2>1, <2>3 DEF Accept, AttemptFor, ui
<1>3. CASE TimeOut
    <2>1. PICK t \in Containers : AttemptFor(t)
        BY <1>3 DEF TimeOut, Between
    <2>2. Waiting(t) \/ Running(t)
        BY <1>3, <2>1 DEF TimeOut, AttemptFor, Polling, Connected, Offered
    <2>3. HelperComing
        <3>1. CASE Waiting(t)
            BY <3>1 DEF Waiting, HelperComing, Helpers
        <3> QED
            BY <2>2, <3>1 DEF Running, HelperComing, HelperSteps
    <2> QED
        BY <1>3, <2>3 DEF TimeOut
<1>4. CASE Receive
    <2>1. PICK t \in Containers : AttemptFor(t)
        BY <1>4 DEF Receive, Between
    <2>2. Receiving(t) /\ accepted = [to |-> t, sent |-> TRUE]
        BY <1>4, <2>1 DEF Receive, AttemptFor, Receiving
    <2>3. session' = t
        BY <1>4, <2>2 DEF Receive
    <2>4. Between'
        BY <1>4, <2>1, <2>2, <2>3 DEF Receive, EndAttempt, Between, AttemptFor, Receiving, Alone,
                                      ui, root
    <2> QED
        BY <1>4, <2>4 DEF Receive, ui
<1>5. CASE Try
    <2>1. Between /\ shown = configured /\ configured \in Containers
        BY <1>5 DEF Try, Between, AttemptFor
    <2>2. Between'
        BY <1>5, <2>1 DEF Try, Between, Alone, ui, socket, root
    <2> QED
        BY <1>5, <2>2 DEF Try, ui
<1> QED
    BY <1>1, <1>2, <1>3, <1>4, <1>5 DEF RenderStep

\* The helper goes from stage to stage.
LEMMA ShellUndisturbed ==
    ASSUME Undisturbed, ShellStep
    PROVE  Undisturbed'
<1> USE ContainersAssumption DEF Undisturbed
<1>1. PICK t \in Containers : AttemptFor(t)
    BY DEF ShellStep, Between, Alone, TakeHelper, EndScript, ConnectDaemon, ConnectBridge, SendFd
<1>2. ASSUME NEW c \in Containers, TakeHelper(c) PROVE Undisturbed'
    <2>1. Waiting(t) /\ c = t
        BY <1>1, <1>2 DEF TakeHelper, AttemptFor, Polling, Receiving, Waiting, Running, Connected,
                          Offered, Alone
    <2>2. Running(t)'
        BY <1>2, <2>1 DEF TakeHelper, Waiting, Running, Alone, socket
    <2>3. attempt = "poll"
        BY <1>1, <2>1 DEF AttemptFor, Receiving, Waiting, Alone
    <2>4. AttemptFor(t)'
        BY <1>1, <1>2, <2>2, <2>3 DEF TakeHelper, AttemptFor, Polling, ui, socket
    <2> QED
        BY <1>2, <2>4 DEF TakeHelper, ui
<1>3. CASE EndScript
    BY <1>1, <1>3 DEF EndScript, AttemptFor, Polling, Receiving, Waiting, Running, Connected,
                      Offered
<1>4. CASE ConnectDaemon
    <2>1. attempt = "poll" /\ Running(t)
        BY <1>1, <1>4 DEF ConnectDaemon, AttemptFor, Polling, Receiving, Waiting, Connected, Offered
    <2>2. Running(t)'
        BY <1>4, <2>1 DEF ConnectDaemon, Running, Alone, socket
    <2>3. AttemptFor(t)'
        BY <1>1, <1>4, <2>1, <2>2 DEF ConnectDaemon, AttemptFor, Polling, ui, socket
    <2> QED
        BY <1>4, <2>3 DEF ConnectDaemon, ui
<1>5. CASE ConnectBridge
    <2>1. attempt = "poll" /\ Running(t) /\ bridge = "listening"
        BY <1>1, <1>5 DEF ConnectBridge, AttemptFor, Polling, Receiving, Waiting, Connected, Offered
    <2>2. Connected(t)'
        BY <1>5, <2>1 DEF ConnectBridge, Running, Connected, Alone
    <2>3. AttemptFor(t)'
        BY <1>1, <1>5, <2>1, <2>2 DEF ConnectBridge, AttemptFor, Polling, ui
    <2> QED
        BY <1>5, <2>3 DEF ConnectBridge, ui
<1>6. CASE SendFd
    <2>1. CASE attempt = "poll"
        <3>1. Connected(t)
            BY <1>1, <1>6, <2>1 DEF SendFd, AttemptFor, Polling, Waiting, Running, Offered
        <3> DEFINE old == [to |-> t, sent |-> FALSE]
        <3>0. DOMAIN <<old>> = 1 .. 1 /\ <<old>>[1] = old /\ old.to = t
            OBVIOUS
        <3>2. backlog' = [i \in 1 .. 1 |-> [to |-> t, sent |-> TRUE]]
            <4>1. backlog' = [i \in 1 .. 1 |-> [to |-> <<old>>[i].to, sent |-> TRUE]]
                BY <1>6, <3>0, <3>1 DEF SendFd, Connected
            <4>2. \A i \in 1 .. 1 : i = 1
                OBVIOUS
            <4> QED
                BY <3>0, <4>1, <4>2
        <3>3. backlog' = <<[to |-> t, sent |-> TRUE]>>
            BY <3>2, Singleton
        <3>4. Offered(t)'
            BY <1>6, <3>1, <3>3 DEF SendFd, Exit, Connected, Offered, Alone
        <3>5. AttemptFor(t)'
            BY <1>1, <1>6, <2>1, <3>4 DEF SendFd, AttemptFor, Polling, ui
        <3> QED
            BY <1>6, <3>5 DEF SendFd, ui
    <2>2. CASE attempt = "recv"
        <3>1. Receiving(t) /\ accepted = [to |-> t, sent |-> FALSE]
            BY <1>1, <1>6, <2>2 DEF SendFd, AttemptFor, Receiving
        <3>2. accepted' = [to |-> t, sent |-> TRUE]
            BY <1>6, <2>2, <3>1 DEF SendFd
        <3>3. backlog' = <<>>
            BY <1>6, <3>1 DEF SendFd, Receiving
        <3>4. Receiving(t)'
            BY <1>6, <3>1, <3>2, <3>3 DEF SendFd, Exit, Receiving, Alone
        <3>5. AttemptFor(t)'
            BY <1>1, <1>6, <2>2, <3>4 DEF SendFd, AttemptFor, ui
        <3> QED
            BY <1>6, <3>5 DEF SendFd, ui
    <2> QED
        BY <1>1, <2>1, <2>2 DEF AttemptFor
<1> QED
    BY <1>2, <1>3, <1>4, <1>5, <1>6 DEF ShellStep

\* Every step keeps the invariant.
LEMMA IInvStep == IInv /\ [Next]_vars => IInv'
<1> SUFFICES ASSUME IInv, [Next]_vars, faults' = 0 PROVE Undisturbed'
    BY FaultsGrow DEF IInv
<1>1. Undisturbed /\ faults = 0 /\ UNCHANGED <<faults, daemons>>
    BY FaultsGrow DEF IInv
<1>2. CASE UNCHANGED vars
    BY <1>1, <1>2 DEF vars, ui, socket, root, Undisturbed, Between, AttemptFor, Polling, Receiving,
                      Waiting, Running, Connected, Offered, Alone
<1>3. CASE GiveUp \/ TakeScript \/ AppDies \/ \E c \in Containers : DaemonDies(c)
    BY <1>1, <1>3 DEF GiveUp, TakeScript, AppDies, DaemonDies
<1> QED
    BY <1>1, <1>2, <1>3, UIUndisturbed, RenderUndisturbed, ShellUndisturbed DEF Next

\* While nothing is late, dies or is in the way, one attempt suffices and the
\* instance is connected to the daemon of the container on screen.
THEOREM UndisturbedIsRight == Spec => []RightUndisturbed
<1>1. IInv => RightUndisturbed
    BY DEF IInv, Undisturbed, Between, AttemptFor, RightUndisturbed
<1>2. Spec => []IInv
    BY InitIInv, IInvStep, PTL DEF Spec
<1> QED
    BY <1>1, <1>2, PTL

-----------------------------------------------------------------------------
(* With faults: the attempt, its listener and its connections              *)

\* The listener, its backlog and the accepted connection are the attempt's own.
AttemptInv ==
    /\ attempt # "none" => session = NoContainer
    /\ bridge = "listening" <=> attempt \in {"poll", "recv"}
    /\ bridge # "listening" => backlog = <<>>
    /\ attempt # "recv" => accepted = NoConnection

\* Of the connections not closed yet, only the last one made can be without its
\* descriptor, and only while its helper is at the sendmsg.
UnsentInv ==
    /\ \A i \in 1 .. Len(backlog) :
          backlog[i].sent \/ (shell = "send" /\ i = Len(backlog))
    /\ attempt = "recv" => accepted.sent \/ (shell = "send" /\ backlog = <<>>)

\* recv_fds has no timeout: it waits only for a helper that has connected and is
\* about to send, never for one that is gone or still in line.
ReceiverIsServed == attempt = "recv" => accepted.sent \/ shell = "send"

\* At the start no attempt has been made.
LEMMA PendingInit == Init => AttemptInv /\ UnsentInv
BY DEF Init, AttemptInv, UnsentInv

\* An attempt opens its listener and closes it with all its connections.
LEMMA AttemptStep == ASSUME TypeOK, AttemptInv, [Next]_vars PROVE AttemptInv'
<1> USE DEF AttemptInv, ui, socket, root
<1>1. CASE RenderStep \/ GiveUp
    BY <1>1, ContainersAssumption
       DEF RenderStep, Try, Begin, Accept, TimeOut, Receive, EndAttempt, GiveUp
<1>2. ASSUME NEW c \in Containers, Show(c) PROVE AttemptInv'
    BY <1>2 DEF Show
<1>3. CASE Leave \/ Joined
    BY <1>3 DEF Leave, Joined
<1>4. CASE ConnectBridge
    BY <1>4 DEF ConnectBridge
<1>5. CASE SendFd
    <2>1. attempt # "recv" => accepted' = NoConnection
        <3> SUFFICES ASSUME attempt # "recv" PROVE accepted' = NoConnection
            OBVIOUS
        <3>1. accepted = [to |-> NoContainer, sent |-> FALSE] /\ (attempt = "recv") = FALSE
            BY DEF NoConnection
        <3>2. accepted' = [accepted EXCEPT !.sent = FALSE]
            BY <1>5, <3>1 DEF SendFd
        <3> QED
            BY <3>1, <3>2 DEF NoConnection
    <2>2. bridge # "listening" => backlog' = <<>>
        BY <1>5 DEF SendFd
    <2> QED
        BY <1>5, <2>1, <2>2 DEF SendFd
<1>6. CASE ShellStep /\ ~ConnectBridge /\ ~SendFd
    BY <1>6 DEF ShellStep, TakeHelper, EndScript, ConnectDaemon
<1>7. CASE TakeScript \/ AppDies \/ \E c \in Containers : DaemonDies(c)
    BY <1>7 DEF TakeScript, AppDies, DaemonDies
<1>8. CASE UNCHANGED vars
    BY <1>8 DEF vars
<1> QED
    BY <1>1, <1>2, <1>3, <1>4, <1>5, <1>6, <1>7, <1>8 DEF Next

\* One connection at a time is made, and the next only when that one was served.
LEMMA UnsentStep ==
    ASSUME TypeOK, AttemptInv, UnsentInv, [Next]_vars
    PROVE  UnsentInv'
<1> USE DEF UnsentInv, ui, socket, root
<1>0. backlog \in Seq(Connections) /\ Len(backlog) \in Nat /\ accepted \in Connections
    BY DEF TypeOK
<1>1. ASSUME UNCHANGED <<backlog, accepted, attempt>>, shell = "send" => shell' = "send"
      PROVE  UnsentInv'
    BY <1>1
<1>2. ASSUME backlog' = <<>>, attempt' # "recv" PROVE UnsentInv'
    BY <1>2
<1>3. CASE Accept
    <2>1. backlog # <<>> /\ accepted' = backlog[1] /\ backlog' = Tail(backlog) /\ shell' = shell
        BY <1>0, <1>3 DEF Accept
    <2>2. /\ Len(backlog) # 0 /\ Len(backlog') = Len(backlog) - 1
          /\ \A i \in 1 .. Len(backlog') : backlog'[i] = backlog[i + 1]
        BY <1>0, <2>1
    <2>3. \A i \in 1 .. Len(backlog') :
             backlog'[i].sent \/ (shell' = "send" /\ i = Len(backlog'))
        <3> TAKE i \in 1 .. Len(backlog')
        <3>1. i + 1 \in 1 .. Len(backlog) /\ (i + 1 = Len(backlog) => i = Len(backlog'))
            BY <1>0, <2>2
        <3> QED
            BY <2>1, <2>2, <3>1
    <2>4. accepted'.sent \/ (shell' = "send" /\ backlog' = <<>>)
        <3>1. 1 \in 1 .. Len(backlog)
            BY <1>0, <2>2
        <3>2. 1 = Len(backlog) => backlog' = <<>>
            BY <1>0, <2>1
        <3> QED
            BY <2>1, <3>1, <3>2
    <2> QED
        BY <2>3, <2>4
<1>4. CASE RenderStep /\ ~Accept
    BY <1>1, <1>2, <1>4 DEF RenderStep, Try, Begin, TimeOut, Receive, EndAttempt, AttemptInv
<1>5. CASE ConnectBridge
    <2>1. CASE bridge = "listening"
        <3> DEFINE new == [to |-> job, sent |-> FALSE]
        <3>1. backlog' = Append(backlog, new) /\ shell = "bridge" /\ shell' = "send"
            BY <1>5, <2>1 DEF ConnectBridge
        <3>2. /\ Len(backlog') = Len(backlog) + 1
              /\ \A i \in 1 .. Len(backlog) : backlog'[i] = backlog[i]
            <4> HIDE DEF new
            <4> QED
                BY <1>0, <3>1
        <3>3. \A i \in 1 .. Len(backlog') : i \in 1 .. Len(backlog) \/ i = Len(backlog')
            BY <1>0, <3>2
        <3> QED
            BY <1>5, <3>1, <3>2, <3>3 DEF ConnectBridge
    <2>2. CASE bridge # "listening"
        BY <1>5, <2>2 DEF ConnectBridge, AttemptInv
    <2> QED
        BY <2>1, <2>2
<1>6. CASE SendFd
    <2>1. /\ DOMAIN backlog = 1 .. Len(backlog)
          /\ backlog' = [i \in DOMAIN backlog |-> [to |-> backlog[i].to, sent |-> TRUE]]
        BY <1>0, <1>6 DEF SendFd
    <2>2. Len(backlog') = Len(backlog) /\ \A i \in 1 .. Len(backlog) : backlog'[i].sent
        <3>1. backlog' \in Seq(Connections)
            BY TypeStep DEF TypeOK
        <3>2. DOMAIN backlog' = 1 .. Len(backlog') /\ Len(backlog') \in Nat
            BY <3>1
        <3>3. DOMAIN backlog' = DOMAIN backlog
            BY ONLY <2>1
        <3>4. \A i \in DOMAIN backlog : backlog'[i].sent
            BY ONLY <2>1
        <3>5. \A n, k \in Nat : 1 .. k = 1 .. n => k = n
            OBVIOUS
        <3> QED
            BY ONLY <1>0, <2>1, <3>2, <3>3, <3>4, <3>5
    <2>3. attempt = "recv" => accepted'.sent
        BY <1>0, <1>6 DEF SendFd, Connections
    <2> QED
        BY <1>6, <2>2, <2>3 DEF SendFd
<1>7. CASE ShellStep /\ ~ConnectBridge /\ ~SendFd
    BY <1>1, <1>7 DEF ShellStep, TakeHelper, EndScript, ConnectDaemon, Exit
<1>8. CASE AppDies
    BY <1>2, <1>8 DEF AppDies
<1>9. CASE Leave \/ Joined \/ TakeScript
    BY <1>1, <1>9 DEF Leave, Joined, TakeScript
<1>10. ASSUME NEW c \in Containers, Show(c) \/ DaemonDies(c) PROVE UnsentInv'
    BY <1>1, <1>10 DEF Show, DaemonDies
<1>11. CASE GiveUp
    BY <1>1, <1>11 DEF GiveUp
<1>12. CASE UNCHANGED vars
    BY <1>1, <1>12 DEF vars
<1> QED
    BY <1>3, <1>4, <1>5, <1>6, <1>7, <1>8, <1>9, <1>10, <1>11, <1>12 DEF Next

LEMMA Pending == Spec => [](AttemptInv /\ UnsentInv)
BY PendingInit, AttemptStep, UnsentStep, TypeCorrect, PTL DEF Spec

\* Whatever dies, is late or has the root shell: the wait without a timeout is one
\* for a helper that runs and is past its last connect.
THEOREM ReceiveIsServed == Spec => []ReceiverIsServed
<1>1. UnsentInv => ReceiverIsServed
    BY DEF UnsentInv, ReceiverIsServed
<1> QED
    BY <1>1, Pending, PTL

-----------------------------------------------------------------------------
(* The instance the windows see                                            *)

LEMMA InitInstance == Init => Instance!DIInit
BY DEF Init, Instance!DIInit, Link

LEMMA StepInstance ==
    ASSUME TypeOK, AttemptInv, [Next]_vars
    PROVE  [Instance!DINext]_(Instance!diVars)
<1> USE DEF AttemptInv, Link, ui, socket, root
<1>1. ASSUME NEW c \in Containers, Show(c) PROVE Instance!DINext
    BY <1>1 DEF Show, Instance!DINext, Instance!Order
<1>2. CASE Leave
    BY <1>2 DEF Leave, Instance!DINext, Instance!Order
<1>3. CASE Joined
    BY <1>3 DEF Joined, Instance!DINext, Instance!Obey
<1>4. CASE Try
    BY <1>4 DEF Try, Instance!DINext, Instance!Attempt
<1>5. CASE TimeOut \/ Receive \/ GiveUp
    BY <1>5 DEF TimeOut, Receive, GiveUp, EndAttempt, Instance!DINext, Instance!Outcome
<1>6. CASE Begin \/ Accept
    BY <1>6 DEF Begin, Accept, Instance!diVars
<1>7. CASE ShellStep
    BY <1>7 DEF ShellStep, TakeHelper, EndScript, ConnectDaemon, ConnectBridge, SendFd,
                Instance!diVars
<1>8. CASE TakeScript \/ \E c \in Containers : DaemonDies(c)
    BY <1>8 DEF TakeScript, DaemonDies, Instance!diVars
<1>9. CASE AppDies
    BY <1>9 DEF AppDies, Instance!DINext, Instance!Crash
<1>10. CASE UNCHANGED vars
    BY <1>10 DEF vars, Instance!diVars
<1> QED
    BY <1>1, <1>2, <1>3, <1>4, <1>5, <1>6, <1>7, <1>8, <1>9, <1>10 DEF Next, RenderStep

\* What the attempts do with helpers, root shell and bridge is what NativeConsumer
\* takes a connection attempt to be: the same instance, seen from its windows.
THEOREM AttemptsImplementInstance == Spec => InstanceSpec
<1>1. Init => Instance!DIInit
    BY InitInstance
<1>2. TypeOK /\ AttemptInv /\ [Next]_vars => [Instance!DINext]_(Instance!diVars)
    BY StepInstance
<1> QED
    BY <1>1, <1>2, Pending, TypeCorrect, PTL DEF Spec, InstanceSpec, Instance!DISpec
=============================================================================
