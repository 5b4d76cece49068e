--------------------- MODULE ContainerLifecycleProofs ---------------------
(***************************************************************************)
(* Theorems about ContainerLifecycle, for any containers, processes, jobs  *)
(* and any number of faults.                                               *)
(***************************************************************************)
EXTENDS ContainerLifecycle, TLAPS

\* Facts about one container that the screen and the jobs speak of.
Absent(c) == \A p \in Pids : of[p] # c
Running(c) == pid[c] \in Pids /\ of[pid[c]] = c /\ ready[pid[c]]

\* Every process has its directory, its entry, its pid file and a clean log.
ProcessInv == \A p \in Pids : of[p] # Nobody =>
    of[p] \in dirs /\ of[p] \in list /\ pid[of[p]] = p /\ ~log[of[p]]

\* One job for each container, and somebody waits for it.
OneJobInv ==
    /\ \A i, j \in Jobs : ~Idle(i) /\ ~Idle(j) /\ target[i] = target[j] => i = j
    /\ \A j \in Jobs : ~Idle(j) => target[j] \in Ids /\ owner[j] = "activity"

\* What a job finds and leaves at each step of its script.
ExtractInv(j) ==
    /\ at[j] \in {"waiting", "unpack", "done"}
    /\ Absent(target[j]) /\ target[j] \notin shown
StartInv(j) ==
    /\ target[j] \notin shown /\ target[j] \in list
    /\ \/ at[j] \in {"waiting", "boot"} /\ ~failed[j] /\ Absent(target[j])
       \/ at[j] = "log" /\ failed[j] /\ Absent(target[j])
       \/ at[j] = "log" /\ ~failed[j] /\ Absent(target[j]) /\ log[target[j]]
       \/ at[j] = "log" /\ ~failed[j] /\ pid[target[j]] \in Pids
          /\ of[pid[target[j]]] = target[j]
       \/ at[j] = "done" /\ failed[j] /\ Absent(target[j])
       \/ at[j] = "done" /\ ~failed[j] /\ Running(target[j])
StopInv(j) ==
    \/ at[j] \in {"waiting", "kill"} /\ Running(target[j])
    \/ at[j] \in {"unlink", "done"} /\ Absent(target[j])
DeleteInv(j) ==
    /\ at[j] \in {"waiting", "remove", "done"}
    /\ Absent(target[j]) /\ target[j] \notin shown
JobInv == \A j \in Jobs :
    /\ op[j] = "extract" => ExtractInv(j)
    /\ op[j] = "start" => StartInv(j)
    /\ op[j] = "stop" => StopInv(j)
    /\ op[j] = "delete" => DeleteInv(j)

\* The screen tells the truth about containers without a job.
ScreenInv == \A c \in Ids : ~Busy(c) => IF c \in shown THEN Running(c) ELSE Absent(c)

IInv == orderly => ProcessInv /\ OneJobInv /\ JobInv /\ ScreenInv

-----------------------------------------------------------------------------
(* Typing                                                                  *)

LEMMA TypeInit == Init => TypeOK
BY FaultsAssumption DEF Init, TypeOK, Idle, Ops, Steps, Owners

\* A fault is counted within its bound.
LEMMA FaultTyped == ASSUME faults \in 0 .. MaxFaults, Fault
                    PROVE  faults' \in 0 .. MaxFaults
BY FaultsAssumption DEF Fault

LEMMA TypeUser == ASSUME TypeOK, UserStep PROVE TypeOK'
<1>1. PICK j \in Jobs, c \in Ids :
        PickTarball(j, c) \/ PressStart(j, c) \/ PressStop(j, c) \/ PressDelete(j, c)
  BY DEF UserStep
<1>2. CASE PickTarball(j, c)
  BY <1>2, NobodyAssumption DEF TypeOK, Idle, PickTarball, Launch, screen, files, procs, history, Ops, Steps, Owners
<1>3. ASSUME NEW o \in {"start", "stop", "delete"}, Press(j, o, c) PROVE TypeOK'
  <2>1. faults' \in 0 .. MaxFaults /\ orderly' \in BOOLEAN
    BY <1>3, FaultTyped DEF Press, TypeOK, Idle, Disorder, history
  <2> QED BY <1>3, <2>1, NobodyAssumption DEF TypeOK, Idle, Press, Launch, screen, files, procs, Ops, Steps, Owners
<1> QED BY <1>1, <1>2, <1>3 DEF PressStart, PressStop, PressDelete

LEMMA TypeScript == ASSUME TypeOK, NEW j \in Jobs, Begin(j) \/ ScriptStep(j) \/ Cut(j)
                    PROVE  TypeOK'
<1>1. CASE Begin(j)
  <2>1. op[j] \in {"extract", "start", "stop", "delete"}
    BY <1>1 DEF Begin, Idle, TypeOK, Ops
  <2>2. FirstStep(op[j]) \in Steps
    BY <2>1 DEF FirstStep, Steps
  <2> QED BY <1>1, <2>2 DEF Begin, TypeOK, Idle, screen, files, procs, history
<1>2. CASE Unpack(j) /\ ~Idle(j)
  BY <1>2 DEF Unpack, TypeOK, Idle, screen, procs, history, Steps
<1>3. CASE Boot(j)
  <2>1. faults' \in 0 .. MaxFaults /\ orderly' \in BOOLEAN
    BY <1>3, FaultTyped DEF Boot, BootForks, BootFails, TypeOK, Idle, Disorder, history
  <2>2. op' = op /\ target' = target /\ owner' = owner /\ dirs' = dirs
        /\ list' = list /\ shown' = shown /\ disk' = disk
        /\ at' \in [Jobs -> Steps]
    BY <1>3 DEF Boot, screen, TypeOK, Idle, Steps
  <2>3. CASE BootForks(j, target[j])
    BY <2>1, <2>2, <2>3 DEF BootForks, TypeOK, Idle
  <2>4. CASE BootFails(j, target[j])
    BY <2>1, <2>2, <2>4 DEF BootFails, TypeOK, Idle
  <2> QED BY <1>3, <2>3, <2>4 DEF Boot
<1>4. CASE ReadLog(j)
  <2>1. faults' \in 0 .. MaxFaults /\ orderly' \in BOOLEAN
    BY <1>4, FaultTyped DEF ReadLog, TypeOK, Idle, Disorder, history
  <2>2. failed' \in [Jobs -> BOOLEAN]
    BY <1>4 DEF ReadLog, TypeOK, Idle
  <2>3. at' \in [Jobs -> Steps]
    BY <1>4 DEF ReadLog, TypeOK, Idle, Steps
  <2> QED BY <1>4, <2>1, <2>2, <2>3 DEF ReadLog, TypeOK, Idle, screen, files, procs
<1>5. CASE Kill(j)
  BY <1>5 DEF Kill, TypeOK, Idle, screen, files, history, Steps
<1>6. CASE Unlink(j) \/ Remove(j)
  BY <1>6 DEF Unlink, Remove, TypeOK, Idle, screen, files, procs, history, Steps
<1>7. CASE Cut(j)
  BY <1>7 DEF Cut, TypeOK, Idle, screen, files, procs, history, Steps
<1> QED BY <1>1, <1>2, <1>3, <1>4, <1>5, <1>6, <1>7 DEF ScriptStep

LEMMA TypeProcess == ASSUME TypeOK, NEW p \in Pids, SetupFails(p) \/ SetupDone(p) \/ Exits(p)
                     PROVE  TypeOK'
<1>1. faults' \in 0 .. MaxFaults /\ orderly' \in BOOLEAN
  BY FaultTyped DEF SetupFails, SetupDone, Exits, TypeOK, Idle, Disorder, history
<1>2. CASE SetupFails(p)
  <2>1. (of[p] \in dirs) \in BOOLEAN
    OBVIOUS
  <2> QED BY <1>1, <1>2, <2>1 DEF SetupFails, TypeOK, Idle, screen, jobs
<1>3. CASE SetupDone(p)
  BY <1>1, <1>3 DEF SetupDone, TypeOK, Idle, screen, jobs
<1>4. CASE Exits(p)
  BY <1>1, <1>4 DEF Exits, TypeOK, Idle, screen, jobs, files
<1> QED BY <1>2, <1>3, <1>4

LEMMA TypeFinish == ASSUME TypeOK, NEW j \in Jobs, Finish(j) PROVE TypeOK'
<1>1. Released(j)
  BY DEF Finish, FinishExtract, FinishStart, FinishStop, FinishDelete, Forgotten
<1>2. target[j] \in Ids
  BY <1>1 DEF Released, TypeOK, Idle
<1>3. list' = list \/ list' = list \cup {target[j]} \/ list' = list \ {target[j]}
  BY DEF Finish, FinishExtract, FinishStart, FinishStop, FinishDelete, Forgotten
<1>4. shown' = shown \/ shown' = shown \cup {target[j]} \/ shown' = shown \ {target[j]}
  BY DEF Finish, FinishExtract, FinishStart, FinishStop, FinishDelete, Forgotten
<1>5. list' \subseteq Ids /\ shown' \subseteq Ids
  BY <1>2, <1>3, <1>4 DEF TypeOK, Idle
<1> QED BY <1>1, <1>5 DEF Released, TypeOK, Idle, files, procs, history, Ops, Owners

LEMMA TypeEnd == ASSUME TypeOK, Flush \/ ActivityEnds PROVE TypeOK'
<1>1. CASE Flush
  BY <1>1 DEF Flush, TypeOK, Idle, jobs, files, procs, history
<1>2. CASE Recreate
  BY <1>2, FaultTyped DEF Recreate, TypeOK, Idle, files, procs, Owners
<1>3. CASE AppDies
  BY <1>3, FaultTyped DEF AppDies, TypeOK, Idle, files, procs, Owners, Steps, Ops
<1>4. CASE Reboot
  BY <1>4, FaultTyped DEF Reboot, TypeOK, Idle, files, Owners, Steps, Ops
<1> QED BY <1>1, <1>2, <1>3, <1>4 DEF ActivityEnds

LEMMA TypeStep == TypeOK /\ [Next]_vars => TypeOK'
<1> SUFFICES ASSUME TypeOK, [Next]_vars PROVE TypeOK'
  OBVIOUS
<1>1. CASE UNCHANGED vars
  BY <1>1 DEF vars, screen, jobs, files, procs, history, TypeOK, Idle
<1>2. CASE IdsUsedUp
  BY <1>1, <1>2 DEF IdsUsedUp
<1>3. CASE UserStep
  BY <1>3, TypeUser
<1>4. CASE Flush \/ ActivityEnds
  BY <1>4, TypeEnd
<1>5. ASSUME NEW j \in Jobs, Begin(j) \/ ScriptStep(j) \/ Finish(j) \/ Cut(j) PROVE TypeOK'
  BY <1>5, TypeScript, TypeFinish
<1>6. ASSUME NEW p \in Pids, SetupFails(p) \/ SetupDone(p) \/ Exits(p) PROVE TypeOK'
  BY <1>6, TypeProcess
<1> QED BY <1>1, <1>2, <1>3, <1>4, <1>5, <1>6 DEF Next

\* The variables keep their types (TypeOK).
THEOREM TypeCorrect == Spec => []TypeOK
<1> QED BY TypeInit, TypeStep, PTL DEF Spec

-----------------------------------------------------------------------------
(* The invariant: one lemma for each group of actions                      *)

Ordered == ProcessInv /\ OneJobInv /\ JobInv /\ ScreenInv

LEMMA InvInit == Init => IInv
<1> SUFFICES ASSUME Init PROVE Ordered
  BY DEF IInv, Ordered
<1>1. ProcessInv
  BY DEF Init, ProcessInv
<1>2. OneJobInv /\ JobInv
  BY DEF Init, OneJobInv, JobInv, Idle
<1>3. ScreenInv
  BY NobodyAssumption DEF Init, ScreenInv, Absent
<1> QED BY <1>1, <1>2, <1>3 DEF Ordered

\* A button is pressed for a container without a job.
LEMMA InvUser == ASSUME TypeOK, Ordered, UserStep, orderly' PROVE Ordered'
<1>1. PICK j \in Jobs, c \in Ids :
        PickTarball(j, c) \/ PressStart(j, c) \/ PressStop(j, c) \/ PressDelete(j, c)
  BY DEF UserStep
<1>2. PICK o \in {"extract", "start", "stop", "delete"} :
        /\ Launch(j, o, c) /\ ~Busy(c) /\ UNCHANGED <<screen, files, procs>>
        /\ o = "extract" => Absent(c) /\ c \notin shown
        /\ o \in {"start", "delete"} => c \in list /\ c \notin shown
        /\ o = "stop" => c \in shown
  <2>1. CASE PickTarball(j, c)
    BY <2>1 DEF PickTarball, Fresh, Inits, Absent, screen, files, procs
  <2>2. ASSUME NEW o \in {"start", "stop", "delete"}, Press(j, o, c)
        PROVE  Launch(j, o, c) /\ ~Busy(c) /\ c \in list /\ UNCHANGED <<screen, files, procs>>
    BY <2>2 DEF Press, Disorder
  <2> QED BY <1>1, <2>1, <2>2 DEF PressStart, PressStop, PressDelete
<1>3. /\ UNCHANGED <<list, shown, dirs, pid, log, of, ready>>
      /\ op' = [op EXCEPT ![j] = o] /\ target' = [target EXCEPT ![j] = c]
      /\ at' = [at EXCEPT ![j] = "waiting"] /\ failed' = [failed EXCEPT ![j] = FALSE]
      /\ owner' = [owner EXCEPT ![j] = "activity"]
      /\ Idle(j)
  BY <1>2 DEF Launch, screen, files, procs
<1>4. ProcessInv'
  BY <1>3 DEF Ordered, ProcessInv
<1>5. OneJobInv'
  BY <1>2, <1>3 DEF Ordered, OneJobInv, Busy, Idle, TypeOK
<1>6. ScreenInv'
  <2> SUFFICES ASSUME NEW d \in Ids, ~Busy(d)' 
               PROVE  (IF d \in shown THEN Running(d) ELSE Absent(d))'
    BY DEF ScreenInv
  <2>1. ~Busy(d)
    BY <1>3 DEF Busy, Idle, TypeOK
  <2> QED BY <1>3, <2>1 DEF Ordered, ScreenInv, Running, Absent
<1>7. JobInv'
  <2>1. IF c \in shown THEN Running(c) ELSE Absent(c)
    BY <1>2 DEF Ordered, ScreenInv
  <2> SUFFICES ASSUME NEW i \in Jobs
               PROVE  (/\ op[i] = "extract" => ExtractInv(i)
                       /\ op[i] = "start" => StartInv(i)
                       /\ op[i] = "stop" => StopInv(i)
                       /\ op[i] = "delete" => DeleteInv(i))'
    BY DEF JobInv
  <2>2. CASE i = j
    BY <1>2, <1>3, <2>1, <2>2 DEF TypeOK, ExtractInv, StartInv, StopInv, DeleteInv, Running, Absent
  <2>3. CASE i # j
    BY <1>3, <2>3 DEF Ordered, JobInv, TypeOK, ExtractInv, StartInv, StopInv, DeleteInv, Running, Absent
  <2> QED BY <2>2, <2>3
<1> QED BY <1>4, <1>5, <1>6, <1>7 DEF Ordered

\* What a step of one job leaves to the others: their containers' process, pid
\* file and log, and the places of the screen and the list.
Elsewhere(j) ==
    /\ op' = op /\ target' = target /\ owner' = owner
    /\ \A i \in Jobs : i # j => at'[i] = at[i] /\ failed'[i] = failed[i]
    /\ shown' = shown
    /\ \A c \in Ids : c # target[j] =>
        /\ c \in list' <=> c \in list
        /\ Absent(c) => Absent(c)'
        /\ Running(c) => Running(c)'
        /\ pid[c] \in Pids /\ of[pid[c]] = c => pid'[c] \in Pids /\ of'[pid'[c]] = c
        /\ log[c] => log'[c]
    /\ target[j] \in list => target[j] \in list'

\* Such a step preserves what is said of the other jobs and of the screen.
LEMMA OthersKept ==
    ASSUME TypeOK, Ordered, NEW j \in Jobs, ~Idle(j), Elsewhere(j),
           (/\ op[j] = "extract" => ExtractInv(j)
            /\ op[j] = "start" => StartInv(j)
            /\ op[j] = "stop" => StopInv(j)
            /\ op[j] = "delete" => DeleteInv(j))'
    PROVE  OneJobInv' /\ JobInv' /\ ScreenInv'
<1>1. OneJobInv'
  BY DEF Ordered, OneJobInv, Elsewhere, Idle
<1>2. ScreenInv'
  <2> SUFFICES ASSUME NEW c \in Ids, ~Busy(c)'
               PROVE  (IF c \in shown THEN Running(c) ELSE Absent(c))'
    BY DEF ScreenInv
  <2>1. ~Busy(c) /\ c # target[j]
    BY DEF Elsewhere, Busy, Idle
  <2> QED BY <2>1 DEF Ordered, ScreenInv, Elsewhere
<1>3. ASSUME NEW i \in Jobs, i # j
      PROVE  (/\ op[i] = "extract" => ExtractInv(i)
              /\ op[i] = "start" => StartInv(i)
              /\ op[i] = "stop" => StopInv(i)
              /\ op[i] = "delete" => DeleteInv(i))'
  <2>1. CASE Idle(i)
    BY <2>1 DEF Idle, Elsewhere
  <2>2. CASE ~Idle(i)
    <3>1. target[i] \in Ids /\ target[i] # target[j]
      BY <1>3, <2>2 DEF Ordered, OneJobInv
    <3>2. /\ op'[i] = op[i] /\ target'[i] = target[i] /\ shown' = shown
          /\ at'[i] = at[i] /\ failed'[i] = failed[i]
      BY <1>3 DEF Elsewhere
    <3> DEFINE c == target[i]
    <3>3. /\ c \in list' <=> c \in list
          /\ Absent(c) => Absent(c)'
          /\ Running(c) => Running(c)'
          /\ pid[c] \in Pids /\ of[pid[c]] = c => pid'[c] \in Pids /\ of'[pid'[c]] = c
          /\ log[c] => log'[c]
      BY <3>1 DEF Elsewhere
    <3>4. Absent(target[i])' <=> Absent(c)'
      BY <3>2 DEF Absent
    <3>5. Running(target[i])' <=> Running(c)'
      BY <3>2 DEF Running
    <3>6. op[i] = "extract" => ExtractInv(i)'
      BY <3>2, <3>3, <3>4 DEF Ordered, JobInv, ExtractInv
    <3>7. op[i] = "start" => StartInv(i)'
      BY <3>2, <3>3, <3>4, <3>5 DEF Ordered, JobInv, StartInv
    <3>8. op[i] = "stop" => StopInv(i)'
      BY <3>2, <3>3, <3>4, <3>5 DEF Ordered, JobInv, StopInv
    <3>9. op[i] = "delete" => DeleteInv(i)'
      BY <3>2, <3>3, <3>4 DEF Ordered, JobInv, DeleteInv
    <3> QED BY <3>2, <3>6, <3>7, <3>8, <3>9
  <2> QED BY <2>1, <2>2
<1> QED BY <1>1, <1>2, <1>3 DEF JobInv

\* A step of the job's script.
LEMMA InvScript ==
    ASSUME TypeOK, Ordered, NEW j \in Jobs, ~Idle(j), Begin(j) \/ ScriptStep(j), orderly'
    PROVE  Ordered'
<1> DEFINE c == target[j]
           Mine == /\ op[j] = "extract" => ExtractInv(j)
                   /\ op[j] = "start" => StartInv(j)
                   /\ op[j] = "stop" => StopInv(j)
                   /\ op[j] = "delete" => DeleteInv(j)
<1>1. Mine /\ c \in Ids /\ op[j] \in {"extract", "start", "stop", "delete"}
  BY DEF Ordered, JobInv, OneJobInv, Idle, TypeOK, Ops
<1>2. CASE Begin(j)
  <2>1. /\ UNCHANGED <<list, shown, op, target, failed, owner, dirs, pid, log, of, ready>>
        /\ at' = [at EXCEPT ![j] = FirstStep(op[j])] /\ at[j] = "waiting"
    BY <1>2 DEF Begin, screen, files, procs
  <2>2. Elsewhere(j)
    BY <2>1 DEF Elsewhere, Absent, Running, TypeOK
  <2>3. Mine'
    BY <1>1, <2>1 DEF TypeOK, FirstStep, ExtractInv, StartInv, StopInv, DeleteInv, Absent, Running
  <2>4. ProcessInv'
    BY <2>1 DEF Ordered, ProcessInv
  <2> QED BY <2>2, <2>3, <2>4, OthersKept DEF Ordered
<1>3. CASE Unpack(j)
  <2>1. /\ UNCHANGED <<list, shown, op, target, owner, of, ready>>
        /\ at' = [at EXCEPT ![j] = "done"] /\ at[j] = "unpack"
        /\ log' = [log EXCEPT ![c] = FALSE] /\ pid' = [pid EXCEPT ![c] = NoPid]
        /\ dirs \subseteq dirs'
        /\ \A i \in Jobs : i # j => failed'[i] = failed[i]
    BY <1>3 DEF Unpack, screen, procs, TypeOK
  <2>2. op[j] = "extract" /\ ExtractInv(j)
    BY <1>1, <2>1 DEF StartInv, StopInv, DeleteInv
  <2>3. Elsewhere(j)
    BY <2>1 DEF Elsewhere, Absent, Running, TypeOK
  <2>4. Mine'
    BY <2>1, <2>2 DEF TypeOK, ExtractInv, Absent
  <2>5. ProcessInv'
    BY <2>1, <2>2 DEF Ordered, ProcessInv, ExtractInv, Absent, TypeOK
  <2> QED BY <2>3, <2>4, <2>5, OthersKept DEF Ordered
<1>4. CASE Boot(j)
  <2>1. /\ UNCHANGED <<list, shown, op, target, owner, dirs>>
        /\ at' = [at EXCEPT ![j] = "log"] /\ at[j] = "boot"
    BY <1>4 DEF Boot, screen
  <2>2. op[j] = "start" /\ StartInv(j) /\ Absent(c)
    BY <1>1, <2>1 DEF ExtractInv, StartInv, StopInv, DeleteInv
  <2>3. CASE BootForks(j, c)
    <3>1. PICK p \in Pids :
            /\ of[p] = Nobody /\ of' = [of EXCEPT ![p] = c]
            /\ ready' = [ready EXCEPT ![p] = FALSE]
            /\ pid' = [pid EXCEPT ![c] = p] /\ log' = [log EXCEPT ![c] = FALSE]
            /\ failed' = failed /\ c \in dirs
      BY <2>3 DEF BootForks, Disorder
    <3>2. Elsewhere(j)
      BY <1>1, <2>1, <3>1, NobodyAssumption DEF Elsewhere, Absent, Running, TypeOK
    <3>3. Mine'
      <4>1. at'[j] = "log" /\ failed'[j] = failed[j] /\ target'[j] = c /\ op'[j] = "start"
        BY <2>1, <2>2, <3>1 DEF TypeOK
      <4>2. pid'[c] = p /\ of'[p] = c
        BY <1>1, <3>1 DEF TypeOK
      <4>3. ~failed[j]
        BY <2>1, <2>2 DEF StartInv
      <4>4. StartInv(j)'
        BY <2>1, <2>2, <4>1, <4>2, <4>3 DEF StartInv
      <4> QED BY <4>1, <4>4
    <3>4. ProcessInv'
      BY <1>1, <2>1, <2>2, <3>1, NobodyAssumption DEF Ordered, ProcessInv, StartInv, Absent, TypeOK
    <3> QED BY <3>2, <3>3, <3>4, OthersKept DEF Ordered
  <2>4. CASE BootFails(j, c)
    <3>1. UNCHANGED <<of, ready, pid, log>> /\ failed' = [failed EXCEPT ![j] = TRUE]
      BY <2>4 DEF BootFails, Disorder
    <3>2. Elsewhere(j)
      BY <2>1, <3>1 DEF Elsewhere, Absent, Running, TypeOK
    <3>3. Mine'
      BY <2>1, <2>2, <3>1 DEF TypeOK, StartInv, Absent
    <3>4. ProcessInv'
      BY <2>1, <3>1 DEF Ordered, ProcessInv
    <3> QED BY <3>2, <3>3, <3>4, OthersKept DEF Ordered
  <2> QED BY <1>4, <2>3, <2>4 DEF Boot
<1>5. CASE ReadLog(j)
  <2>1. /\ UNCHANGED <<list, shown, op, target, owner, dirs, pid, log, of, ready>>
        /\ at' = [at EXCEPT ![j] = "done"] /\ at[j] = "log"
        /\ failed' = [failed EXCEPT ![j] = @ \/ log[c]]
        /\ \A p \in Inits(c) : ready[p]
    BY <1>5 DEF ReadLog, screen, files, procs, Disorder
  <2>2. op[j] = "start" /\ StartInv(j)
    BY <1>1, <2>1 DEF ExtractInv, StopInv, DeleteInv
  <2>3. Elsewhere(j)
    BY <2>1 DEF Elsewhere, Absent, Running, TypeOK
  <2>4. Mine'
    <3>1. CASE Absent(c) /\ (failed[j] \/ log[c])
      <4>1. failed'[j] = TRUE /\ at'[j] = "done"
        BY <2>1, <3>1 DEF TypeOK
      <4>2. Absent(target[j])'
        BY <2>1, <3>1 DEF Absent
      <4> QED BY <2>1, <2>2, <4>1, <4>2 DEF StartInv
    <3>2. CASE ~failed[j] /\ pid[c] \in Pids /\ of[pid[c]] = c
      <4>1. ~log[c] /\ ready[pid[c]]
        BY <1>1, <2>1, <3>2, NobodyAssumption DEF Ordered, ProcessInv, Inits
      <4> QED BY <1>1, <2>1, <2>2, <3>2, <4>1 DEF TypeOK, StartInv, Running
    <3> QED BY <2>1, <2>2, <3>1, <3>2 DEF StartInv
  <2>5. ProcessInv'
    BY <2>1 DEF Ordered, ProcessInv
  <2> QED BY <2>3, <2>4, <2>5, OthersKept DEF Ordered
<1>6. CASE Kill(j)
  <2>1. /\ UNCHANGED <<list, shown, op, target, failed, owner, dirs, pid, log>>
        /\ at' = [at EXCEPT ![j] = "unlink"] /\ at[j] = "kill"
    BY <1>6 DEF Kill, screen, files
  <2>2. op[j] = "stop" /\ Running(c)
    BY <1>1, <2>1 DEF ExtractInv, StartInv, StopInv, DeleteInv
  <2>3. /\ of' = [p \in Pids |-> IF p = pid[c] THEN Nobody ELSE of[p]]
        /\ ready' = [p \in Pids |-> p # pid[c] /\ ready[p]]
    <3>1. PICK gone \in SUBSET Pids :
            /\ gone = {pid[c]}
            /\ of' = [p \in Pids |-> IF p \in gone THEN Nobody ELSE of[p]]
            /\ ready' = [p \in Pids |-> p \notin gone /\ ready[p]]
      BY <1>6, <2>2, NoPidAssumption DEF Kill, Running
    <3> QED BY <3>1
  <2>4. \A p \in Pids : of[p] = c => p = pid[c]
    BY <1>1, NobodyAssumption DEF Ordered, ProcessInv
  <2>5. Elsewhere(j)
    BY <1>1, <2>1, <2>2, <2>3, <2>4, NobodyAssumption DEF Elsewhere, Absent, Running, TypeOK
  <2>6. Mine'
    BY <1>1, <2>1, <2>2, <2>3, <2>4, NobodyAssumption DEF TypeOK, StopInv, Absent
  <2>7. ProcessInv'
    BY <2>1, <2>3 DEF Ordered, ProcessInv
  <2> QED BY <2>5, <2>6, <2>7, OthersKept DEF Ordered
<1>7. CASE Unlink(j)
  <2>1. /\ UNCHANGED <<list, shown, op, target, failed, owner, dirs, log, of, ready>>
        /\ at' = [at EXCEPT ![j] = "done"] /\ at[j] = "unlink"
        /\ pid' = [pid EXCEPT ![c] = NoPid]
    BY <1>7 DEF Unlink, screen, procs
  <2>2. op[j] = "stop" /\ Absent(c)
    BY <1>1, <2>1 DEF ExtractInv, StartInv, StopInv, DeleteInv
  <2>3. Elsewhere(j)
    BY <2>1 DEF Elsewhere, Absent, Running, TypeOK
  <2>4. Mine'
    BY <2>1, <2>2 DEF TypeOK, StopInv, Absent
  <2>5. ProcessInv'
    BY <1>1, <2>1, <2>2 DEF Ordered, ProcessInv, Absent, TypeOK
  <2> QED BY <2>3, <2>4, <2>5, OthersKept DEF Ordered
<1>8. CASE Remove(j)
  <2>1. /\ UNCHANGED <<list, shown, op, target, failed, owner, of, ready>>
        /\ at' = [at EXCEPT ![j] = "done"] /\ at[j] = "remove"
        /\ pid' = [pid EXCEPT ![c] = NoPid] /\ log' = [log EXCEPT ![c] = FALSE]
        /\ dirs' = dirs \ {c}
    BY <1>8 DEF Remove, screen, procs
  <2>2. op[j] = "delete" /\ DeleteInv(j)
    BY <1>1, <2>1 DEF ExtractInv, StartInv, StopInv
  <2>3. Elsewhere(j)
    BY <2>1 DEF Elsewhere, Absent, Running, TypeOK
  <2>4. Mine'
    BY <2>1, <2>2 DEF TypeOK, DeleteInv, Absent
  <2>5. ProcessInv'
    BY <1>1, <2>1, <2>2 DEF Ordered, ProcessInv, DeleteInv, Absent, TypeOK
  <2> QED BY <2>3, <2>4, <2>5, OthersKept DEF Ordered
<1> QED BY <1>2, <1>3, <1>4, <1>5, <1>6, <1>7, <1>8 DEF ScriptStep

\* A process ends its setup, one way or the other.
LEMMA InvProcess ==
    ASSUME TypeOK, Ordered, NEW p \in Pids, SetupFails(p) \/ SetupDone(p), orderly'
    PROVE  Ordered'
<1> DEFINE c == of[p]
<1>0. c \in Ids /\ c \in dirs /\ c \in list /\ pid[c] = p /\ ~log[c] /\ ~ready[p]
  <2>1. of[p] # Nobody /\ ~ready[p] /\ of[p] \in Ids \cup {Nobody}
    BY NobodyAssumption DEF SetupFails, SetupDone, TypeOK
  <2> QED BY <2>1 DEF Ordered, ProcessInv
<1>1. UNCHANGED <<list, shown, op, target, at, failed, owner, dirs, pid>>
  BY DEF SetupFails, SetupDone, screen, jobs
<1>2. OneJobInv'
  BY <1>1 DEF Ordered, OneJobInv, Idle
<1>3. CASE SetupDone(p)
  <2>1. of' = of /\ log' = log /\ ready' = [ready EXCEPT ![p] = TRUE]
    BY <1>3 DEF SetupDone, Disorder
  <2>2. \A d \in Ids : (Absent(d) => Absent(d)') /\ (Running(d) => Running(d)')
    BY <1>1, <2>1 DEF Absent, Running, TypeOK
  <2>3. ProcessInv'
    BY <1>1, <2>1 DEF Ordered, ProcessInv
  <2>4. ScreenInv'
    BY <1>1, <2>2 DEF Ordered, ScreenInv, Busy
  <2>5. ASSUME NEW j \in Jobs, ~Idle(j)
        PROVE  (/\ op[j] = "extract" => ExtractInv(j)
                /\ op[j] = "start" => StartInv(j)
                /\ op[j] = "stop" => StopInv(j)
                /\ op[j] = "delete" => DeleteInv(j))'
    <3>1. /\ Absent(target[j]) => Absent(target[j])'
          /\ Running(target[j]) => Running(target[j])'
      BY <1>1, <2>1 DEF Absent, Running, TypeOK
    <3> QED BY <1>1, <2>1, <3>1 DEF Ordered, JobInv, ExtractInv, StartInv, StopInv, DeleteInv
  <2>6. JobInv'
    BY <1>1, <2>5 DEF JobInv, Idle
  <2> QED BY <1>2, <2>3, <2>4, <2>6 DEF Ordered
<1>4. CASE SetupFails(p)
  <2>1. of' = [of EXCEPT ![p] = Nobody] /\ ready' = ready
        /\ log' = [log EXCEPT ![c] = TRUE]
    BY <1>0, <1>4 DEF SetupFails
  <2>2. \A d \in Ids : (Absent(d) => Absent(d)') /\ (Running(d) => Running(d)')
    BY <1>0, <1>1, <2>1, NobodyAssumption DEF Absent, Running, TypeOK
  <2>3. ProcessInv'
    BY <1>0, <1>1, <2>1, NobodyAssumption DEF Ordered, ProcessInv, TypeOK
  <2>4. ScreenInv'
    BY <1>1, <2>2 DEF Ordered, ScreenInv, Busy
  <2>5. \A q \in Pids : of'[q] # of[p]
    BY <1>0, <2>1, NobodyAssumption DEF Ordered, ProcessInv, TypeOK
  <2>6. ASSUME NEW j \in Jobs, ~Idle(j)
        PROVE  (/\ op[j] = "extract" => ExtractInv(j)
                /\ op[j] = "start" => StartInv(j)
                /\ op[j] = "stop" => StopInv(j)
                /\ op[j] = "delete" => DeleteInv(j))'
    <3>0. target[j] \in Ids
      BY <2>6 DEF Ordered, OneJobInv
    <3>1. /\ Absent(target[j]) => Absent(target[j])'
          /\ Running(target[j]) => Running(target[j])'
      BY <1>0, <1>1, <2>1, NobodyAssumption, <3>0 DEF Absent, Running, TypeOK
    <3>2. CASE target[j] # c
      <4>1. (log'[target[j]] = log[target[j]])
        BY <2>1, <3>2, <3>0 DEF TypeOK
      <4>2. pid[target[j]] \in Pids /\ of[pid[target[j]]] = target[j]
              => of'[pid[target[j]]] = target[j]
        BY <2>1, <3>2, <3>0 DEF TypeOK
      <4> QED BY <1>1, <3>1, <4>1, <4>2
              DEF Ordered, JobInv, ExtractInv, StartInv, StopInv, DeleteInv
    <3>3. CASE target[j] = c
      <4>1. ~Absent(target[j]) /\ ~Running(target[j]) /\ log'[target[j]]
        BY <1>0, <2>1, <3>3 DEF Absent, Running, TypeOK
      <4>2. Absent(target[j])'
        BY <1>1, <2>5, <3>3 DEF Absent
      <4> QED BY <1>1, <4>1, <4>2
              DEF Ordered, JobInv, ExtractInv, StartInv, StopInv, DeleteInv
    <3> QED BY <3>2, <3>3
  <2>7. JobInv'
    BY <1>1, <2>6 DEF JobInv, Idle
  <2> QED BY <1>2, <2>3, <2>4, <2>7 DEF Ordered
<1> QED BY <1>3, <1>4

\* The coroutine goes on after its script: the container is without a job again.
LEMMA InvFinish ==
    ASSUME TypeOK, Ordered, NEW j \in Jobs, Finish(j) PROVE Ordered'
<1> DEFINE c == target[j]
<1>1. Released(j)
  BY DEF Finish, FinishExtract, FinishStart, FinishStop, FinishDelete, Forgotten
<1>2. /\ UNCHANGED <<at, dirs, pid, log, of, ready>>
      /\ op' = [op EXCEPT ![j] = "none"] /\ target' = [target EXCEPT ![j] = Nobody]
      /\ failed' = [failed EXCEPT ![j] = FALSE] /\ owner' = [owner EXCEPT ![j] = "none"]
      /\ ~Idle(j) /\ at[j] = "done"
  BY <1>1 DEF Released, files, procs
<1>3. c \in Ids /\ owner[j] = "activity"
  BY <1>2 DEF Ordered, OneJobInv
<1>4. /\ \A d \in Ids : d # c => (d \in list' <=> d \in list) /\ (d \in shown' <=> d \in shown)
      /\ IF c \in shown' THEN Running(c) ELSE Absent(c)
      /\ Absent(c) \/ c \in list'
  <2>1. CASE FinishExtract(j)
    BY <1>2, <1>3, <2>1 DEF FinishExtract, Ordered, JobInv, ExtractInv
  <2>2. CASE FinishStart(j)
    BY <1>2, <1>3, <2>2 DEF FinishStart, Ordered, JobInv, StartInv
  <2>3. CASE FinishStop(j)
    BY <1>2, <1>3, <2>3 DEF FinishStop, Ordered, JobInv, StopInv
  <2>4. CASE FinishDelete(j)
    BY <1>2, <1>3, <2>4 DEF FinishDelete, Ordered, JobInv, DeleteInv
  <2> QED BY <1>3, <2>1, <2>2, <2>3, <2>4 DEF Finish, Forgotten
<1>5. \A i \in Jobs : ~Idle(i)' => i # j /\ ~Idle(i) /\ target'[i] = target[i]
                               /\ target[i] # c /\ op'[i] = op[i]
                               /\ failed'[i] = failed[i] /\ owner'[i] = owner[i]
  BY <1>2 DEF Ordered, OneJobInv, Idle, TypeOK
<1>6. \A d \in Ids : (Absent(d)' <=> Absent(d)) /\ (Running(d)' <=> Running(d))
  BY <1>2 DEF Absent, Running
<1>7. OneJobInv'
  BY <1>5 DEF Ordered, OneJobInv
<1>8. ProcessInv'
  BY <1>2, <1>4, <1>3 DEF Ordered, ProcessInv, Absent, TypeOK
<1>9. ScreenInv'
  <2> SUFFICES ASSUME NEW d \in Ids, ~Busy(d)'
               PROVE  IF d \in shown' THEN Running(d) ELSE Absent(d)
    BY <1>6 DEF ScreenInv
  <2>1. CASE d = c
    BY <2>1, <1>4
  <2>2. CASE d # c
    <3>1. ~Busy(d)
      BY <1>2, <2>2 DEF Busy, Idle, TypeOK
    <3> QED BY <1>4, <2>2, <3>1 DEF Ordered, ScreenInv
  <2> QED BY <2>1, <2>2
<1>10. JobInv'
  <2>1. ASSUME NEW i \in Jobs, ~Idle(i)'
        PROVE  (/\ op[i] = "extract" => ExtractInv(i)
                /\ op[i] = "start" => StartInv(i)
                /\ op[i] = "stop" => StopInv(i)
                /\ op[i] = "delete" => DeleteInv(i))'
    <3>1. /\ ~Idle(i) /\ target'[i] = target[i] /\ target[i] # c /\ op'[i] = op[i]
          /\ failed'[i] = failed[i] /\ target[i] \in Ids
      BY <1>5, <2>1 DEF Ordered, OneJobInv
    <3>2. /\ target[i] \in list' <=> target[i] \in list
          /\ target[i] \in shown' <=> target[i] \in shown
          /\ Absent(target[i])' <=> Absent(target[i])
          /\ Running(target[i])' <=> Running(target[i])
      BY <1>2, <1>4, <3>1 DEF Absent, Running
    <3> QED BY <1>2, <3>1, <3>2 DEF Ordered, JobInv, ExtractInv, StartInv, StopInv, DeleteInv
  <2> QED BY <2>1 DEF JobInv, Idle
<1> QED BY <1>7, <1>8, <1>9, <1>10 DEF Ordered

\* Without a job and with nothing shown, no process is left, and an activity
\* that ends loses nothing; after a reboot there is none in any case.
LEMMA InvEnd == ASSUME TypeOK, IInv, Flush \/ ActivityEnds, orderly' PROVE Ordered'
<1>1. CASE Flush
  BY <1>1 DEF Flush, jobs, files, procs, history, IInv, Ordered, ProcessInv, OneJobInv,
              JobInv, ScreenInv, Busy, Idle, Absent, Running, ExtractInv, StartInv,
              StopInv, DeleteInv
<1>2. ASSUME \A p \in Pids : of'[p] = Nobody, \A j \in Jobs : op'[j] = "none", shown' = {}
      PROVE  Ordered'
  <2>1. ProcessInv'
    BY <1>2 DEF ProcessInv
  <2>2. OneJobInv' /\ JobInv'
    BY <1>2 DEF OneJobInv, JobInv, Idle
  <2>3. ScreenInv'
    BY <1>2, NobodyAssumption DEF ScreenInv, Absent
  <2> QED BY <2>1, <2>2, <2>3 DEF Ordered
<1>3. CASE Recreate \/ AppDies
  <2>1. orderly /\ Quiet /\ of' = of /\ shown' = {}
    BY <1>3 DEF Recreate, AppDies, procs
  <2>2. \A p \in Pids : of[p] = Nobody
    BY <2>1 DEF IInv, ScreenInv, Quiet, Busy, Absent, TypeOK
  <2>3. \A j \in Jobs : op'[j] = "none"
    BY <1>3, <2>1 DEF Recreate, AppDies, Quiet, Idle
  <2> QED BY <1>2, <2>1, <2>2, <2>3
<1>4. CASE Reboot
  BY <1>2, <1>4 DEF Reboot
<1> QED BY <1>1, <1>3, <1>4 DEF ActivityEnds

LEMMA InvStep == TypeOK /\ IInv /\ [Next]_vars => IInv'
<1> SUFFICES ASSUME TypeOK, IInv, [Next]_vars, orderly' PROVE Ordered'
  BY DEF IInv, Ordered
<1>1. CASE UNCHANGED vars
  BY <1>1 DEF vars, screen, jobs, files, procs, history, IInv, Ordered, ProcessInv, OneJobInv,
              JobInv, ScreenInv, Busy, Idle, Absent, Running, ExtractInv, StartInv,
              StopInv, DeleteInv
<1>2. CASE IdsUsedUp
  BY <1>1, <1>2 DEF IdsUsedUp
<1>3. CASE Flush \/ ActivityEnds
  BY <1>3, InvEnd
<1>4. CASE UserStep
  <2>1. orderly
    BY <1>4 DEF UserStep, PickTarball, PressStart, PressStop, PressDelete, Press, Disorder, history
  <2> QED BY <1>4, <2>1, InvUser DEF IInv, Ordered
<1>5. ASSUME NEW j \in Jobs, Begin(j) \/ ScriptStep(j) PROVE Ordered'
  <2>1. orderly
    BY <1>5 DEF Begin, ScriptStep, Unpack, Boot, BootForks, BootFails, ReadLog, Kill, Unlink,
                Remove, Disorder, history
  <2>2. ~Idle(j)
    BY <1>5 DEF Begin, ScriptStep
  <2> QED BY <1>5, <2>1, <2>2, InvScript DEF IInv, Ordered
<1>6. ASSUME NEW j \in Jobs, Finish(j) PROVE Ordered'
  <2>1. Released(j)
    BY <1>6 DEF Finish, FinishExtract, FinishStart, FinishStop, FinishDelete, Forgotten
  <2>2. orderly
    BY <2>1 DEF Released, history
  <2> QED BY <1>6, <2>2, InvFinish DEF IInv, Ordered
<1>7. ASSUME NEW j \in Jobs, Cut(j) PROVE Ordered'
  <2>1. orderly
    BY <1>7 DEF Cut, history
  <2> QED BY <1>7, <2>1 DEF Cut, IInv, OneJobInv
<1>8. ASSUME NEW p \in Pids, SetupFails(p) \/ SetupDone(p) \/ Exits(p) PROVE Ordered'
  <2>1. orderly /\ ~Exits(p)
    BY <1>8 DEF SetupFails, SetupDone, Exits, Disorder, history
  <2> QED BY <1>8, <2>1, InvProcess DEF IInv, Ordered
<1> QED BY <1>1, <1>2, <1>3, <1>4, <1>5, <1>6, <1>7, <1>8 DEF Next

LEMMA Invariant == Spec => [](TypeOK /\ IInv)
<1>1. Init => TypeOK /\ IInv
  BY TypeInit, InvInit
<1>2. TypeOK /\ IInv /\ [Next]_vars => (TypeOK /\ IInv)'
  BY TypeStep, InvStep
<1> QED BY <1>1, <1>2, PTL DEF Spec

-----------------------------------------------------------------------------
(* Theorems                                                                *)

\* In order, what MainActivity shows of a container without a job is what
\* there is (ScreenTellsTruth).
THEOREM ScreenIsTrue == Spec => []ScreenTellsTruth
<1>1. TypeOK /\ IInv => ScreenTellsTruth
  BY NoPidAssumption DEF IInv, ScreenInv, ScreenTellsTruth, Running, Absent, Inits, EnterReaches, TypeOK
<1> QED BY <1>1, Invariant, PTL

\* In order, Delete spares the root file system of what runs (RootBeneathInit).
THEOREM RootStays == Spec => []RootBeneathInit
<1>1. IInv => RootBeneathInit
  BY DEF IInv, ProcessInv, RootBeneathInit
<1> QED BY <1>1, Invariant, PTL

\* In order, the kill of a Stop ends its container and no other (StopsItsOwn).
THEOREM StopIsExact == Spec => StopsItsOwn
<1>1. ASSUME TypeOK, IInv, orderly, NEW j \in Jobs, Kill(j), ~Idle(j), NEW p \in Pids
      PROVE  of'[p] = IF of[p] = target[j] THEN Nobody ELSE of[p]
  <2>1. at[j] = "kill" /\ target[j] \in Ids
    BY <1>1 DEF Kill, IInv, OneJobInv
  <2>2. op[j] = "stop" /\ Running(target[j])
    BY <1>1, <2>1 DEF IInv, JobInv, ExtractInv, StartInv, StopInv, DeleteInv, Idle, TypeOK, Ops
  <2>3. \A q \in Pids : of[q] = target[j] => q = pid[target[j]]
    BY <1>1, <2>1, NobodyAssumption DEF IInv, ProcessInv
  <2>4. of'[p] = IF p = pid[target[j]] THEN Nobody ELSE of[p]
    BY <1>1, <2>2, NoPidAssumption DEF Kill, Running
  <2> QED BY <2>2, <2>3, <2>4 DEF Running
<1>2. TypeOK /\ IInv /\ [Next]_vars =>
        [orderly => \A j \in Jobs : ~Idle(j) /\ Kill(j) =>
          \A p \in Pids : of'[p] = IF of[p] = target[j] THEN Nobody ELSE of[p]]_vars
  BY <1>1
<1> QED BY <1>2, Invariant, PTL DEF Spec, StopsItsOwn

\* Other jobs do not take what was unpacked from the list, whatever the order
\* in which they finish (NothingExtractedIsLost).
THEOREM NothingLost == Spec => NothingExtractedIsLost
<1>1. ASSUME TypeOK, Next, NEW c \in Ids, Kept(c), ~ActivityEnds,
             ~\E j \in Jobs : target[j] = c /\ (failed[j] \/ op[j] = "delete")
      PROVE  Kept(c)'
  <2>1. CASE UserStep
    <3>1. PICK j \in Jobs, d \in Ids, o \in Ops : Launch(j, o, d) /\ list' = list
      BY <2>1 DEF UserStep, PickTarball, PressStart, PressStop, PressDelete, Press, screen, Ops
    <3>2. \A i \in Jobs : op[i] = "extract" =>
            op'[i] = op[i] /\ target'[i] = target[i] /\ owner'[i] = owner[i]
      BY <3>1 DEF Launch, Idle, TypeOK
    <3> QED BY <1>1, <3>1, <3>2 DEF Kept
  <2>2. ASSUME list' = list, op' = op, target' = target, owner' = owner PROVE Kept(c)'
    BY <1>1, <2>2 DEF Kept
  <2>3. ASSUME NEW j \in Jobs, Finish(j) PROVE Kept(c)'
    <3>1. Released(j)
      BY <2>3 DEF Finish, FinishExtract, FinishStart, FinishStop, FinishDelete, Forgotten
    <3>2. CASE target[j] = c /\ op[j] = "extract" /\ owner[j] = "activity"
      BY <1>1, <2>3, <3>2 DEF Finish, FinishExtract, FinishStart, FinishStop, FinishDelete,
                              Forgotten, Kept
    <3>3. CASE ~(target[j] = c /\ op[j] = "extract" /\ owner[j] = "activity")
      <4>1. c \in list => c \in list'
        BY <1>1, <2>3 DEF Finish, FinishExtract, FinishStart, FinishStop, FinishDelete, Forgotten
      <4>2. \A i \in Jobs : i # j =>
              op'[i] = op[i] /\ target'[i] = target[i] /\ owner'[i] = owner[i]
        BY <3>1 DEF Released, TypeOK
      <4> QED BY <1>1, <3>3, <4>1, <4>2 DEF Kept
    <3> QED BY <3>2, <3>3
  <2>4. ASSUME NEW j \in Jobs, Begin(j) \/ ScriptStep(j) \/ Cut(j) PROVE Kept(c)'
    BY <2>2, <2>4 DEF Begin, ScriptStep, Unpack, Boot, ReadLog, Kill, Unlink, Remove, Cut, screen
  <2>5. ASSUME NEW p \in Pids, SetupFails(p) \/ SetupDone(p) \/ Exits(p) PROVE Kept(c)'
    BY <2>2, <2>5 DEF SetupFails, SetupDone, Exits, screen, jobs
  <2>6. CASE Flush \/ IdsUsedUp
    BY <2>2, <2>6 DEF Flush, IdsUsedUp, vars, screen, jobs
  <2> QED BY <1>1, <2>1, <2>3, <2>4, <2>5, <2>6 DEF Next
<1>2. TypeOK /\ [Next]_vars =>
        [\A c \in Ids :
           /\ Kept(c) /\ c \in dirs'
           /\ ~ActivityEnds
           /\ ~\E j \in Jobs : target[j] = c /\ (failed[j] \/ op[j] = "delete")
           => Kept(c)']_vars
  BY <1>1
<1> QED BY <1>2, TypeCorrect, PTL DEF Spec, NothingExtractedIsLost
=============================================================================
