------------------------ MODULE ContainerLifecycle ------------------------
(***************************************************************************)
(* The life cycle of containers: the list and the buttons of MainActivity, *)
(* the scripts they run in the one root shell, the boot program and the    *)
(* init processes it leaves behind.                                        *)
(*                                                                         *)
(* A button starts a coroutine, here a job.  Its script waits for the root *)
(* shell, runs there step by step, and what follows it in the coroutine is *)
(* a later callback on the main thread.  The coroutine is cancelled with   *)
(* the activity, its script is not.  containers and the preferences in     *)
(* memory are always assigned together and are one variable, list.         *)
(***************************************************************************)
EXTENDS Integers, FiniteSets

CONSTANTS
    Ids,       \* containers: the UUID and the directory made from it
    Pids,      \* process numbers; the kernel uses free ones again
    Jobs,      \* bound: coroutines at a time
    MaxFaults, \* bound: steps out of the ordinary
    Nobody, NoPid

ASSUME NobodyAssumption == Nobody \notin Ids
ASSUME NoPidAssumption == NoPid \notin Pids
ASSUME FaultsAssumption == MaxFaults \in Nat

VARIABLES
    list, shown,   \* MainActivity: containers and runningContainers
    disk,          \* KEY_CONTAINERS in the preferences file
    \* for each job: the button, its container, the step of its script,
    \* whether the output holds "ERROR", who waits for it
    op, target, at, failed, owner,
    \* the file system: root directories, container.pid, "ERROR" in container.log
    dirs, pid, log,
    of, ready,     \* the container of each process, and whether it executes init
    orderly,       \* history: nothing out of the ordinary since the device booted
    faults         \* counted for the bound

screen == <<list, shown, disk>>
jobs == <<op, target, at, failed, owner>>
files == <<dirs, pid, log>>
procs == <<of, ready>>
history == <<orderly, faults>>
vars == <<screen, jobs, files, procs, history>>

Ops == {"none", "extract", "start", "stop", "delete"}
Steps == {"waiting", "unpack", "boot", "log", "kill", "unlink", "remove", "done"}
Owners == {"activity", "app", "none"}

Init ==
    /\ list = {} /\ shown = {} /\ disk = {}
    /\ op = [j \in Jobs |-> "none"] /\ target = [j \in Jobs |-> Nobody]
    /\ at = [j \in Jobs |-> "done"] /\ failed = [j \in Jobs |-> FALSE]
    /\ owner = [j \in Jobs |-> "none"]
    /\ dirs = {} /\ pid = [c \in Ids |-> NoPid] /\ log = [c \in Ids |-> FALSE]
    /\ of = [p \in Pids |-> Nobody] /\ ready = [p \in Pids |-> FALSE]
    /\ orderly = TRUE /\ faults = 0

\* A step out of the ordinary, and one that may spoil the order.
Fault == faults < MaxFaults /\ faults' = faults + 1
Disorder == Fault /\ orderly' = FALSE

Busy(c) == \E j \in Jobs : op[j] # "none" /\ target[j] = c
Inits(c) == {p \in Pids : of[p] = c}
Idle(j) == op[j] = "none"

\* A UUID nobody knows: ids forgotten everywhere stand for new ones.
Fresh(c) == c \notin list \cup shown \cup disk \cup dirs /\ ~Busy(c) /\ Inits(c) = {}

-----------------------------------------------------------------------------
(* Buttons                                                                 *)

Launch(j, o, c) ==
    /\ Idle(j)
    /\ op' = [op EXCEPT ![j] = o]
    /\ target' = [target EXCEPT ![j] = c]
    /\ at' = [at EXCEPT ![j] = "waiting"]
    /\ failed' = [failed EXCEPT ![j] = FALSE]
    /\ owner' = [owner EXCEPT ![j] = "activity"]

\* isExtracting: while it is set the floating button does nothing, and the picker
\* it opens covers the other buttons.
Extracting == \E j \in Jobs : op[j] = "extract" /\ owner[j] = "activity"

\* The picker returns a tarball to extract under a new id.
PickTarball(j, c) ==
    /\ ~Extracting /\ Fresh(c)
    /\ Launch(j, "extract", c)
    /\ UNCHANGED <<screen, files, procs, history>>

\* Mutant: Delete is offered for a running container too.
PressDeleteAlways(j, c) ==
    /\ c \in list /\ ~Busy(c)
    /\ Launch(j, "delete", c)
    /\ UNCHANGED <<screen, files, procs, history>>

\* Start, Stop and Delete stay enabled while a script of their container is
\* under way; a user in order does not press them then.
Press(j, o, c) ==
    /\ c \in list
    /\ Launch(j, o, c)
    /\ IF Busy(c) THEN Disorder ELSE UNCHANGED history
    /\ UNCHANGED <<screen, files, procs>>

PressStart(j, c) == c \notin shown /\ Press(j, "start", c)
PressStop(j, c) == c \in shown /\ Press(j, "stop", c)
PressDelete(j, c) == c \notin shown /\ Press(j, "delete", c)

UserStep == \E j \in Jobs, c \in Ids :
    PickTarball(j, c) \/ PressStart(j, c) \/ PressStop(j, c) \/ PressDelete(j, c)

-----------------------------------------------------------------------------
(* The root shell                                                          *)

\* Jobs whose script runs in the shell of this app; a script of an app that
\* died goes on in its own.
InShell == {j \in Jobs : op[j] # "none" /\ owner[j] # "none" /\ at[j] \notin {"waiting", "done"}}

FirstStep(o) == CASE o = "extract" -> "unpack" [] o = "start" -> "boot"
                  [] o = "stop" -> "kill" [] o = "delete" -> "remove"

\* libsu runs one command at a time.
Begin(j) ==
    /\ ~Idle(j) /\ at[j] = "waiting" /\ InShell = {}
    /\ at' = [at EXCEPT ![j] = FirstStep(op[j])]
    /\ UNCHANGED <<screen, op, target, failed, owner, files, procs, history>>

\* mkdir and tar.  The copy to the cache may throw before the directory is
\* made; tar reports on stderr, which libsu may or may not hand over.
Unpack(j) ==
    /\ at[j] = "unpack"
    /\ \/ /\ dirs' = dirs \cup {target[j]}
          /\ failed' \in {failed, [failed EXCEPT ![j] = TRUE]}
       \/ dirs' = dirs /\ failed' = [failed EXCEPT ![j] = TRUE]
    /\ at' = [at EXCEPT ![j] = "done"]
    /\ log' = [log EXCEPT ![target[j]] = FALSE]
    /\ pid' = [pid EXCEPT ![target[j]] = NoPid]
    /\ UNCHANGED <<screen, op, target, owner, procs, history>>

\* The boot program forks an init, writes container.pid and returns.  The child
\* truncates container.log first.  A pid file that cannot be written, like
\* an error that is not handed over, is out of order.
BootForks(j, c) ==
    /\ c \in dirs
    /\ \E p \in Pids :
        /\ of[p] = Nobody
        /\ of' = [of EXCEPT ![p] = c]
        /\ ready' = [ready EXCEPT ![p] = FALSE]
        /\ \/ pid' = [pid EXCEPT ![c] = p] /\ UNCHANGED history
           \/ pid' = pid /\ Disorder
    /\ log' = [log EXCEPT ![c] = FALSE]
    /\ UNCHANGED failed

\* There is no root file system, no boot program, or unshare or fork fails.
BootFails(j, c) ==
    /\ \/ failed' = [failed EXCEPT ![j] = TRUE] /\ UNCHANGED history
       \/ c \in dirs /\ UNCHANGED failed /\ Disorder
    /\ UNCHANGED <<of, ready, pid, log>>

Boot(j) ==
    /\ at[j] = "boot"
    /\ BootForks(j, target[j]) \/ BootFails(j, target[j])
    /\ at' = [at EXCEPT ![j] = "log"]
    /\ UNCHANGED <<screen, op, target, owner, dirs>>

\* Mutant: the script boots again for as long as that fails.
ReadLogRetries(j) ==
    /\ at[j] = "log"
    /\ at' = [at EXCEPT ![j] = IF failed[j] \/ log[target[j]] THEN "boot" ELSE "done"]
    /\ UNCHANGED <<screen, op, target, failed, owner, files, procs, history>>

\* sleep 3; cat container.log.  The child is through its setup by then, or this
\* is out of order.
ReadLog(j) ==
    /\ at[j] = "log"
    /\ failed' = [failed EXCEPT ![j] = @ \/ log[target[j]]]
    /\ at' = [at EXCEPT ![j] = "done"]
    /\ IF \A p \in Inits(target[j]) : ready[p] THEN UNCHANGED history ELSE Disorder
    /\ UNCHANGED <<screen, op, target, owner, files, procs>>

\* Mutant: Stop always uses pkill.
KillByName(j) ==
    /\ at[j] = "kill"
    /\ \E gone \in SUBSET Pids :
        /\ \A p \in gone : of[p] # Nobody /\ ready[p]
        /\ of' = [p \in Pids |-> IF p \in gone THEN Nobody ELSE of[p]]
        /\ ready' = [p \in Pids |-> p \notin gone /\ ready[p]]
    /\ at' = [at EXCEPT ![j] = "unlink"]
    /\ UNCHANGED <<screen, op, target, failed, owner, files, history>>

\* kill -9 of what container.pid names; without one, a SIGTERM to every
\* process with /sbin/init in its command line, which it may ignore.
Kill(j) ==
    /\ at[j] = "kill"
    /\ \E gone \in SUBSET Pids :
        /\ IF pid[target[j]] # NoPid
           THEN gone = {pid[target[j]]}
           ELSE \A p \in gone : of[p] # Nobody /\ ready[p]
        /\ of' = [p \in Pids |-> IF p \in gone THEN Nobody ELSE of[p]]
        /\ ready' = [p \in Pids |-> p \notin gone /\ ready[p]]
    /\ at' = [at EXCEPT ![j] = "unlink"]
    /\ UNCHANGED <<screen, op, target, failed, owner, files, history>>

\* rm -f container.pid, the unmounts and "Container Stopped!".
Unlink(j) ==
    /\ at[j] = "unlink"
    /\ pid' = [pid EXCEPT ![target[j]] = NoPid]
    /\ at' = [at EXCEPT ![j] = "done"]
    /\ UNCHANGED <<screen, op, target, failed, owner, dirs, log, procs, history>>

\* rm -rf of the container's directory.
Remove(j) ==
    /\ at[j] = "remove"
    /\ dirs' = dirs \ {target[j]}
    /\ pid' = [pid EXCEPT ![target[j]] = NoPid]
    /\ log' = [log EXCEPT ![target[j]] = FALSE]
    /\ at' = [at EXCEPT ![j] = "done"]
    /\ UNCHANGED <<screen, op, target, failed, owner, procs, history>>

ScriptStep(j) == ~Idle(j) /\
    (Unpack(j) \/ Boot(j) \/ ReadLog(j) \/ Kill(j) \/ Unlink(j) \/ Remove(j))

-----------------------------------------------------------------------------
(* The processes of a container                                            *)

\* The mounts fail, or /sbin/init cannot be executed; the log says so.
SetupFails(p) ==
    /\ of[p] # Nobody /\ ~ready[p]
    /\ of' = [of EXCEPT ![p] = Nobody]
    /\ log' = [log EXCEPT ![of[p]] = of[p] \in dirs]
    /\ UNCHANGED <<screen, jobs, dirs, pid, ready, history>>

\* Init is executed.  Out of order: a mount that is not essential failed, and the
\* log says "[ERROR]" of a container that runs.
SetupDone(p) ==
    /\ of[p] \in dirs /\ ~ready[p]
    /\ ready' = [ready EXCEPT ![p] = TRUE]
    /\ \/ UNCHANGED <<log, history>>
       \/ log' = [log EXCEPT ![of[p]] = TRUE] /\ Disorder
    /\ UNCHANGED <<screen, jobs, dirs, pid, of>>

\* Init ends by itself: a shutdown from inside, a crash.
Exits(p) ==
    /\ of[p] # Nobody /\ ready[p]
    /\ of' = [of EXCEPT ![p] = Nobody]
    /\ ready' = [ready EXCEPT ![p] = FALSE]
    /\ Disorder
    /\ UNCHANGED <<screen, jobs, files>>

\* Where a shell of "boot enter" is: refused without a pid file, and in the
\* namespaces of the process it names; setns to one that is gone fails unseen.
EnterReaches(c) == IF pid[c] = NoPid THEN NoPid ELSE of[pid[c]]

-----------------------------------------------------------------------------
(* The coroutines after their scripts, on the main thread                  *)

Released(j) ==
    /\ ~Idle(j) /\ at[j] = "done"
    /\ op' = [op EXCEPT ![j] = "none"]
    /\ target' = [target EXCEPT ![j] = Nobody]
    /\ failed' = [failed EXCEPT ![j] = FALSE]
    /\ owner' = [owner EXCEPT ![j] = "none"]
    /\ UNCHANGED <<at, files, procs, history, disk>>

\* Mutant: the result is not tested for null.
FinishExtractNull(j) ==
    /\ op[j] = "extract" /\ owner[j] = "activity" /\ Released(j)
    /\ list' = list \cup {IF failed[j] THEN Nobody ELSE target[j]}
    /\ UNCHANGED shown

\* The list is read again after the extraction.
FinishExtract(j) ==
    /\ op[j] = "extract" /\ owner[j] = "activity" /\ Released(j)
    /\ list' = IF failed[j] THEN list ELSE list \cup {target[j]}
    /\ UNCHANGED shown

\* Mutant: the output is not looked at.
FinishStartBlindly(j) ==
    /\ op[j] = "start" /\ owner[j] = "activity" /\ Released(j)
    /\ shown' = shown \cup {target[j]}
    /\ UNCHANGED list

FinishStart(j) ==
    /\ op[j] = "start" /\ owner[j] = "activity" /\ Released(j)
    /\ shown' = IF failed[j] THEN shown ELSE shown \cup {target[j]}
    /\ UNCHANGED list

FinishStop(j) ==
    /\ op[j] = "stop" /\ owner[j] = "activity" /\ Released(j)
    /\ shown' = shown \ {target[j]}
    /\ UNCHANGED list

\* Mutant: the list that is filtered is the one last written to the file.
FinishDeleteStored(j) ==
    /\ op[j] = "delete" /\ owner[j] = "activity" /\ Released(j)
    /\ list' = disk \ {target[j]}
    /\ UNCHANGED shown

FinishDelete(j) ==
    /\ op[j] = "delete" /\ owner[j] = "activity" /\ Released(j)
    /\ list' = list \ {target[j]}
    /\ UNCHANGED shown

\* A script nobody waits for any more.
Forgotten(j) ==
    /\ owner[j] # "activity" /\ Released(j)
    /\ UNCHANGED <<list, shown>>

Finish(j) ==
    FinishExtract(j) \/ FinishStart(j) \/ FinishStop(j) \/ FinishDelete(j) \/ Forgotten(j)

-----------------------------------------------------------------------------
(* Persistence, recreation, crashes                                        *)

\* apply() writes the file later.
Flush ==
    /\ disk # list
    /\ disk' = list
    /\ UNCHANGED <<list, shown, jobs, files, procs, history>>

Quiet == shown = {} /\ \A j \in Jobs : Idle(j)

\* A rotation makes a new activity: what it remembered is gone, the
\* coroutines are cancelled and their scripts go on.
Recreate ==
    /\ Fault
    /\ shown' = {}
    /\ owner' = [j \in Jobs |-> IF owner[j] = "activity" THEN "app" ELSE owner[j]]
    /\ orderly' = (orderly /\ Quiet)
    /\ UNCHANGED <<list, disk, op, target, at, failed, files, procs>>

\* The app is killed and opened again.  Commands that had not begun are gone;
\* the one that runs may go on for a while.
AppDies ==
    /\ Fault
    /\ list' = disk /\ shown' = {}
    /\ op' = [j \in Jobs |-> IF at[j] = "waiting" THEN "none" ELSE op[j]]
    /\ target' = [j \in Jobs |-> IF at[j] = "waiting" THEN Nobody ELSE target[j]]
    /\ at' = [j \in Jobs |-> IF at[j] = "waiting" THEN "done" ELSE at[j]]
    /\ failed' = [j \in Jobs |-> at[j] # "waiting" /\ failed[j]]
    /\ owner' = [j \in Jobs |-> "none"]
    /\ orderly' = (orderly /\ Quiet)
    /\ UNCHANGED <<disk, files, procs>>

\* The shell of a dead app ends with its pipes, wherever the script is.
Cut(j) ==
    /\ ~Idle(j) /\ owner[j] = "none" /\ at[j] # "done"
    /\ at' = [at EXCEPT ![j] = "done"]
    /\ UNCHANGED <<screen, op, target, failed, owner, files, procs, history>>

\* The device restarts: no process is left, the files are.
Reboot ==
    /\ Fault
    /\ list' = disk /\ shown' = {}
    /\ op' = [j \in Jobs |-> "none"] /\ target' = [j \in Jobs |-> Nobody]
    /\ at' = [j \in Jobs |-> "done"] /\ failed' = [j \in Jobs |-> FALSE]
    /\ owner' = [j \in Jobs |-> "none"]
    /\ of' = [p \in Pids |-> Nobody] /\ ready' = [p \in Pids |-> FALSE]
    /\ orderly' = TRUE
    /\ UNCHANGED <<disk, files>>

ActivityEnds == Recreate \/ AppDies \/ Reboot

\* Every id went into a directory that no entry names: the bound ends there.
IdsUsedUp ==
    /\ list = {} /\ disk = {} /\ \A j \in Jobs : Idle(j)
    /\ \A c \in Ids : ~Fresh(c)
    /\ UNCHANGED vars

Next ==
    \/ UserStep \/ Flush \/ IdsUsedUp \/ ActivityEnds
    \/ \E j \in Jobs : Begin(j) \/ ScriptStep(j) \/ Finish(j) \/ Cut(j)
    \/ \E p \in Pids : SetupFails(p) \/ SetupDone(p) \/ Exits(p)

Spec == Init /\ [][Next]_vars

\* Scripts end, the main thread runs its callbacks, and no command is overtaken
\* for ever in the queue of the shell.  A child gets through its setup.
FairSpec ==
    /\ Spec
    /\ \A j \in Jobs : SF_vars(Begin(j)) /\ WF_vars(ScriptStep(j)) /\ WF_vars(Finish(j))
    /\ \A p \in Pids : WF_vars(SetupFails(p) \/ SetupDone(p))

-----------------------------------------------------------------------------
(* Properties                                                              *)

\* Types of the list, the jobs, the files and the processes.
TypeOK ==
    /\ list \subseteq Ids /\ shown \subseteq Ids /\ disk \subseteq Ids
    /\ op \in [Jobs -> Ops] /\ target \in [Jobs -> Ids \cup {Nobody}]
    /\ \A j \in Jobs : Idle(j) <=> target[j] = Nobody
    /\ at \in [Jobs -> Steps] /\ failed \in [Jobs -> BOOLEAN]
    /\ owner \in [Jobs -> Owners]
    /\ dirs \subseteq Ids /\ pid \in [Ids -> Pids \cup {NoPid}] /\ log \in [Ids -> BOOLEAN]
    /\ of \in [Pids -> Ids \cup {Nobody}] /\ ready \in [Pids -> BOOLEAN]
    /\ orderly \in BOOLEAN /\ faults \in 0 .. MaxFaults

\* In order, the screen tells the truth about a container without a job: its
\* init runs when it is shown as running, where Stop and "enter" find it,
\* and no process of it exists when it is not.
ScreenTellsTruth == orderly => \A c \in Ids : ~Busy(c) =>
    IF c \in shown THEN EnterReaches(c) = c ELSE Inits(c) = {}

\* In order, Delete never takes the root file system from under a container:
\* what runs has its directory and an entry in the list.
RootBeneathInit == orderly => \A p \in Pids :
    of[p] # Nobody => of[p] \in dirs /\ of[p] \in list

\* In order, the kill of a Stop ends every process of its container and none of
\* another one.
StopsItsOwn == [][orderly => \A j \in Jobs : ~Idle(j) /\ Kill(j) =>
    \A p \in Pids : of'[p] = IF of[p] = target[j] THEN Nobody ELSE of[p]]_vars

\* What was unpacked stays in the list, whatever other jobs finish, until its
\* own Delete finishes or the activity ends.
Kept(c) == c \in list \/ \E j \in Jobs :
    op[j] = "extract" /\ target[j] = c /\ owner[j] = "activity"
NothingExtractedIsLost == [][\A c \in Ids :
    /\ Kept(c) /\ c \in dirs'
    /\ ~ActivityEnds
    /\ ~\E j \in Jobs : target[j] = c /\ (failed[j] \/ op[j] = "delete")
    => Kept(c)']_vars

\* Every button is answered: its script gets the shell and ends, and the
\* coroutine ends.
Answered == \A j \in Jobs : ~Idle(j) ~> Idle(j)

\* "Container is not running (no container.pid)": with a pid file, a shell
\* that enters the container is in its namespaces.
EnterReachesContainer == \A c \in Ids : EnterReaches(c) \in {NoPid, c}
=============================================================================
