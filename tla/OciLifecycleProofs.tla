------------------------- MODULE OciLifecycleProofs -------------------------
(***************************************************************************)
(* Proofs about OciLifecycle, for every number of instances, every set of  *)
(* exit codes and every bound on the faults: type correctness, that the    *)
(* files, helpers and stores implement ContainerRuntime, and its three     *)
(* safety invariants.                                                      *)
(***************************************************************************)
EXTENDS OciLifecycle, FiniteSetTheorems, TLAPS

\* The helper has reported the end of its instance.
Finished(i) == helper[i].pc \in {"read", "write", "blank", "misread", "done"}

\* The parts of an instance begin in order and do not come back: what holds
\* whatever fails.
InOrder(i) ==
    /\ pause[i] = "none" => dir[i] = NoDir /\ helper[i].pc = "none"
    /\ helper[i].pc = "none" => /\ pause[i] # "none" => dir[i].st = "created"
                                /\ cmd[i] = "none" /\ exits[i] = NoCode
                                /\ pause[i] \in {"none", "live"}
    /\ dir[i].st = "created" => helper[i].pc = "none" /\ pause[i] = "live"
    /\ helper[i].pc \in {"none", "sandbox", "create", "call"} =>
         starting[i].pc = "none" /\ proc[i].st = "none"
    /\ starting[i].pc \in {"fill", "late"} => proc[i].st = "none"
    /\ cmd[i] # "none" => dir[i].st \in {"running", "stopped"}
    /\ cmd[i] = "delete" => exits[i] # NoCode
    /\ pause[i] # "none" /\ dir[i].st = "none" => exits[i] # NoCode
    /\ helper[i].pc \in {"call", "start", "mark", "await"} => dir[i].criid \/ exits[i] # NoCode
    /\ dir[i].st = "running" /\ exits[i] # NoCode => dir[i].exited \/ pause[i] = "dead"
    /\ dir[i].exitcode # NoCode => Finished(i)
    /\ \A j \in Instances : j < i /\ pause[i] # "none" => exits[j] # NoCode

\* No end is reported early, and no start overtaken by the next instance.
NotOvertaken(i) ==
    /\ starting[i].pc # "none" => helper[i].pc = "start" /\ starting[i].pc # "late"
    /\ cmd[i] \in {"kill", "signal"} => ending
    /\ \A j \in Instances : j < i /\ pause[i] # "none" => Finished(j)
    /\ ~ending /\ (exits[i] # NoCode \/ pause[i] \in {"term", "dead"}) => Finished(i)
    /\ proc[i].st # "none" => ctr = 0 \/ ctr >= i

\* A process that lives is the one in the agent's map, the shim reaches it,
\* and its helper waits for it.
Known(i) ==
    /\ \A j \in Instances : j < i /\ pause[i] # "none" => ~Live(j)
    /\ ~ending => /\ Finished(i) \/ helper[i].pc \in {"status", "files"} => ~Live(i)
                  /\ helper[i].pc = "wait" /\ Live(i) => helper[i].on = i
                  /\ Live(i) \/ starting[i].pc # "none" => Reachable /\ shim.ctr # 0
                  /\ Live(i) => ctr = i

\* The exit code on its way from the process to the file.
CodeKept(i) ==
    proc[i].st # "none" =>
        /\ ~Finished(i) => ctr = i /\ Reachable /\ shim.ctr # 0
        /\ helper[i].pc = "files" => proc[i].st = "dead" /\ helper[i].code = proc[i].code
        /\ dir[i].exitcode # NoCode => proc[i].st = "dead" /\ dir[i].exitcode = proc[i].code

OrderInv == \A i \in Instances : InOrder(i)
OvertakeInv == NoneOvertaken => \A i \in Instances : NotOvertaken(i)
KnownInv == NoneForgotten => \A i \in Instances : Known(i)
CodeInv == NoneForgotten /\ budget.vm = MaxVMDeaths /\ ~ending => \A i \in Instances : CodeKept(i)

\* The inductive invariant, in layers: each needs the ones before.
OciInv == TypeOK /\ OrderInv /\ OvertakeInv /\ KnownInv /\ CodeInv
-----------------------------------------------------------------------------
(* The effect of each action on the instance it is about; the others keep   *)
(* everything but a process that may be told to end.                        *)

\* The process of an instance is as before, or has been told to end.
SameProc(k) ==
    /\ proc'[k].code = proc[k].code
    /\ proc'[k].st = proc[k].st \/ (proc[k].st = "live" /\ proc'[k].st = "term")

\* The instance is as before, up to that.
Same(k) ==
    /\ dir'[k] = dir[k] /\ cmd'[k] = cmd[k] /\ pause'[k] = pause[k] /\ exits'[k] = exits[k]
    /\ helper'[k] = helper[k] /\ starting'[k] = starting[k] /\ SameProc(k)

\* The files beside state.json are as before.
SameFiles(i) ==
    /\ dir'[i].criid = dir[i].criid /\ dir'[i].started = dir[i].started
    /\ dir'[i].exited = dir[i].exited /\ dir'[i].exitcode = dir[i].exitcode

\* stopGuest at most sends a SIGTERM to one live process.
LEMMA StopKeeps ==
  ASSUME TypeOK, NEW i \in Instances, StopGuest(i)
  PROVE \A k \in Instances : SameProc(k)
<1>p. proc \in [Instances -> Procs] /\ ctr \in Instances \cup {0} BY DEF TypeOK
<1>1. CASE proc' = proc  BY <1>1 DEF SameProc
<1>2. CASE /\ ctr # 0 /\ proc[ctr].st = "live"
           /\ proc' = [proc EXCEPT ![ctr].st = "term"]
  BY <1>2, <1>p DEF SameProc, Procs
<1>. QED BY <1>1, <1>2 DEF StopGuest, StopContainer, Answers

\* A kill of a living Pod's container, or a timeout, leaves its trace in the budget.
LEMMA SpendSpends ==
  ASSUME TypeOK, Spend("kill") \/ Spend("timeout")
  PROVE ~NoneOvertaken'
  BY FaultsAssumption DEF TypeOK, Spend, Budgets, NoneOvertaken

\* create makes a directory and a pause, after the end of every earlier instance.
LEMMA DoCreateEffect ==
  ASSUME TypeOK, NEW i \in Instances, DoCreate(i)
  PROVE /\ ~ending /\ pause[i] = "none" /\ dir[i].st = "none"
        /\ \A j \in Instances : j < i => exits[j] # NoCode
        /\ pause'[i] = "live" /\ dir'[i].st = "created" /\ SameFiles(i)
        /\ \A k \in Instances \ {i} : Same(k)
        /\ UNCHANGED <<cmd, exits, helper, starting, shim, cid, vm, ctr, proc, ending, budget>>
  BY DEF DoCreate, SeenExited, SameFiles, Dirs, Instances, TypeOK, Same, SameProc, shimVars,
      guestVars

\* start marks the instance running and leaves guest-start behind.
LEMMA DoStartEffect ==
  ASSUME TypeOK, NEW i \in Instances, DoStart(i)
  PROVE /\ cmd[i] = "none" /\ dir[i].st = "created"
        /\ pause'[i] = "live" /\ dir'[i].st = "running" /\ SameFiles(i)
        /\ helper'[i].pc = "sandbox"
        /\ \A k \in Instances \ {i} : Same(k)
        /\ UNCHANGED <<cmd, exits, starting, shim, cid, vm, ctr, proc, ending, budget>>
  BY DEF DoStart, SameFiles, Dirs, Helpers, TypeOK, Same, SameProc, shimVars, guestVars

\* state decides to write only for a dead pause or a running instance.
LEMMA DoStateEffect ==
  ASSUME TypeOK, NEW i \in Instances, DoState(i)
  PROVE /\ cmd[i] = "none" /\ dir[i].st # "none"
        /\ cmd'[i] \in {"none", "state"}
        /\ cmd'[i] = "state" => pause[i] = "dead" \/ dir[i].st = "running"
        /\ \A k \in Instances \ {i} : Same(k)
        /\ UNCHANGED <<dir, pause, exits, helper, starting, shim, cid, vm, ctr, proc, ending,
                     budget>>
<1>1. CASE UNCHANGED cmd  BY <1>1 DEF DoState, TypeOK, Same, SameProc, guestVars
<1>2. CASE /\ pause[i] = "dead" \/ dir[i].st = "running"
           /\ cmd' = [cmd EXCEPT ![i] = "state"]
  BY <1>2 DEF DoState, TypeOK, Same, SameProc, guestVars
<1>. QED  BY <1>1, <1>2 DEF DoState

\* state writes the status and keeps the other files.
LEMMA ApplyStoppedStateEffect ==
  ASSUME TypeOK, NEW i \in Instances, ApplyStoppedState(i)
  PROVE /\ cmd[i] = "state" /\ cmd'[i] = "none"
        /\ dir'[i].st = "stopped" /\ SameFiles(i)
        /\ \A k \in Instances \ {i} : Same(k)
        /\ UNCHANGED <<pause, exits, helper, starting, shim, cid, vm, ctr, proc, ending, budget>>
  BY DEF ApplyStoppedState, SameFiles, Dirs, TypeOK, Same, SameProc, shimVars, guestVars

\* kill has the shim stop the guest.
LEMMA KillStopGuestEffect ==
  ASSUME TypeOK, NEW i \in Instances, KillStopGuest(i)
  PROVE /\ cmd[i] = "kill" /\ cmd'[i] = "signal"
        /\ \A k \in Instances : SameProc(k)
        /\ \A k \in Instances \ {i} : Same(k)
        /\ UNCHANGED <<dir, pause, exits, helper, starting, shim, cid, vm, ctr, ending, budget>>
  BY StopKeeps DEF KillStopGuest, TypeOK, Same, SameProc, shimVars, guestVars

\* kill tells the pause and writes the status.
LEMMA KillSignalPauseEffect ==
  ASSUME TypeOK, NEW i \in Instances, KillSignalPause(i)
  PROVE /\ cmd[i] = "signal" /\ cmd'[i] = "none"
        /\ pause'[i] = IF pause[i] = "live" THEN "term" ELSE pause[i]
        /\ dir'[i].st = "stopped" /\ SameFiles(i)
        /\ \A k \in Instances \ {i} : Same(k)
        /\ UNCHANGED <<exits, helper, starting, shim, cid, vm, ctr, proc, ending, budget>>
  BY DEF KillSignalPause, SameFiles, Dirs, TypeOK, Same, SameProc, shimVars, guestVars

\* delete comes after an exit code and has the shim stop the guest.
LEMMA DoDeleteEffect ==
  ASSUME TypeOK, NEW i \in Instances, DoDelete(i)
  PROVE /\ cmd[i] = "none" /\ cmd'[i] = "delete"
        /\ dir[i].st # "none" /\ exits[i] # NoCode
        /\ ending \/ \E j \in Instances : j > i /\ exits[j] # NoCode
        /\ \A k \in Instances : SameProc(k)
        /\ \A k \in Instances \ {i} : Same(k)
        /\ UNCHANGED <<dir, pause, exits, helper, starting, shim, cid, vm, ctr, ending, budget>>
  BY StopKeeps DEF DoDelete, SeenExited, TypeOK, Same, SameProc, shimVars, guestVars

\* delete removes the directory and leaves an exit code.
LEMMA DeleteRemoveAllEffect ==
  ASSUME TypeOK, NEW i \in Instances, DeleteRemoveAll(i)
  PROVE /\ cmd[i] = "delete" /\ cmd'[i] = "none"
        /\ dir'[i] = NoDir /\ pause'[i] = "dead"
        /\ exits'[i] = IF pause[i] = "dead" THEN exits[i] ELSE Killed
        /\ \A k \in Instances \ {i} : Same(k)
        /\ UNCHANGED <<helper, starting, shim, cid, vm, ctr, proc, ending, budget>>
  BY DEF DeleteRemoveAll, TypeOK, Same, SameProc, shimVars, guestVars

\* The pause leaves the code of the exitcode file, or 0.
LEMMA PauseExitEffect ==
  ASSUME TypeOK, NEW i \in Instances, PauseExit(i)
  PROVE /\ pause[i] = "term" /\ pause'[i] = "dead"
        /\ exits'[i] = IF dir[i].exitcode = NoCode THEN 0 ELSE dir[i].exitcode
        /\ \A k \in Instances \ {i} : Same(k)
        /\ UNCHANGED <<dir, cmd, helper, starting, shim, cid, vm, ctr, proc, ending, budget>>
  BY DEF PauseExit, TypeOK, Same, SameProc, shimVars, guestVars

\* RunPodSandbox leaves the store alone or makes the sandbox reachable.
LEMMA RunPodSandboxEffect ==
  ASSUME TypeOK, NEW i \in Instances, RunPodSandbox(i)
  PROVE /\ helper[i].pc = "sandbox" /\ helper'[i].pc \in {"create", "files"}
        /\ \/ shim' = shim /\ cid' = cid
           \/ ~shim.ready /\ shim'.ready /\ shim'.ctr = shim.ctr /\ vm # 0 /\ cid' = vm
        /\ \A k \in Instances \ {i} : Same(k)
        /\ UNCHANGED <<dir, cmd, pause, exits, starting, vm, ctr, proc, ending, budget>>
<1>1. CASE shim.ready /\ Helper(i, "create") /\ UNCHANGED <<shim, cid>>
  BY <1>1 DEF RunPodSandbox, Helper, Helpers, TypeOK, Same, SameProc, hostVars, guestVars
<1>2. CASE /\ ~shim.ready /\ vm # 0 /\ ~ending
           /\ shim' = [shim EXCEPT !.ready = TRUE]
           /\ cid' = vm
           /\ Helper(i, "create")
  <2>1. shim'.ready /\ shim'.ctr = shim.ctr  BY <1>2 DEF TypeOK, Shims
  <2>. QED
    BY <1>2, <2>1 DEF RunPodSandbox, Helper, Helpers, TypeOK, Same, SameProc, hostVars, guestVars
<1>3. CASE ~shim.ready /\ Fail(i) /\ UNCHANGED <<shim, cid>>
  BY <1>3 DEF RunPodSandbox, Fail, Helpers, TypeOK, Same, SameProc, hostVars, guestVars
<1>. QED  BY <1>1, <1>2, <1>3 DEF RunPodSandbox

\* CreateContainer stores a new object and writes the criid file.
LEMMA CreateContainerEffect ==
  ASSUME TypeOK, NEW i \in Instances, CreateContainer(i)
  PROVE /\ helper[i].pc = "create" /\ helper'[i].pc = "call"
        /\ dir'[i].st = dir[i].st /\ (dir'[i].criid <=> dir[i].st # "none")
        /\ dir'[i].started = dir[i].started /\ dir'[i].exited = dir[i].exited
        /\ dir'[i].exitcode = dir[i].exitcode
        /\ shim'.ready = shim.ready /\ shim'.ctr = i
        /\ \A k \in Instances \ {i} : Same(k)
        /\ UNCHANGED <<cmd, pause, exits, starting, cid, vm, ctr, proc, ending, budget>>
  BY DEF CreateContainer, Helper, Helpers, Dirs, Shims, TypeOK, Same, SameProc, shimVars, guestVars

\* StartContainer begins only when the shim reaches the VM.
LEMMA CallStartContainerEffect ==
  ASSUME TypeOK, NEW i \in Instances, CallStartContainer(i)
  PROVE /\ helper[i].pc = "call"
        /\ \/ /\ shim.ctr # 0 /\ Reachable
              /\ starting'[i].pc = "fill" /\ helper'[i].pc = "start"
           \/ /\ starting'[i] = starting[i] /\ helper'[i].pc = "files"
        /\ \A k \in Instances \ {i} : Same(k)
        /\ UNCHANGED <<dir, cmd, pause, exits, shim, cid, vm, ctr, proc, ending, budget>>
  BY DEF CallStartContainer, Helper, Fail, Helpers, hostVars, TypeOK, Same, SameProc, shimVars,
      guestVars

\* The agent's map shows the process it has just started.
LEMMA StartEffect ==
  ASSUME TypeOK, NEW i \in Instances, Start(i)
  PROVE /\ starting[i].pc \in {"fill", "late"} /\ starting'[i].pc \in {"started", "none"}
        /\ proc'[i].st = "live" /\ proc'[i].code = proc[i].code /\ ctr' = i
        /\ \A k \in Instances \ {i} : Same(k)
        /\ UNCHANGED <<dir, cmd, pause, exits, helper, shim, cid, vm, ending, budget>>
  BY DEF Start, NoStart, Starts, Procs, hostVars, TypeOK, Same, SameProc, shimVars, guestVars

\* The end of StartContainer stores an object, whoever still waits.
LEMMA StartReturnsEffect ==
  ASSUME TypeOK, NEW i \in Instances, StartReturns(i)
  PROVE /\ starting[i].pc = "started" /\ starting'[i].pc = "none"
        /\ \/ helper'[i] = helper[i] /\ helper[i].pc # "start"
           \/ helper[i].pc = "start" /\ helper'[i].pc = "mark"
        /\ shim'.ready = shim.ready /\ shim'.ctr # 0
        /\ \A k \in Instances \ {i} : Same(k)
        /\ UNCHANGED <<dir, cmd, pause, exits, cid, vm, ctr, proc, ending, budget>>
<1>0. shim'.ready = shim.ready /\ shim'.ctr # 0  BY DEF StartReturns, TypeOK, Shims, Starts
<1>1. CASE helper[i].pc = "start" /\ Helper(i, "mark")
  BY <1>0, <1>1
  DEF StartReturns, NoStart, Helper, Helpers, TypeOK, Same, SameProc, hostVars, guestVars
<1>2. CASE helper[i].pc # "start" /\ UNCHANGED helper
  BY <1>0, <1>2 DEF StartReturns, NoStart, TypeOK, Same, SameProc, hostVars, guestVars
<1>. QED  BY <1>1, <1>2 DEF StartReturns

\* A failed start fails the helper that waits for it.
LEMMA StartFailsEffect ==
  ASSUME TypeOK, NEW i \in Instances, StartFails(i)
  PROVE /\ starting[i].pc \in {"fill", "late"} /\ starting'[i].pc = "none"
        /\ \/ helper'[i] = helper[i] /\ helper[i].pc # "start"
           \/ helper[i].pc = "start" /\ helper'[i].pc = "files"
        /\ \A k \in Instances \ {i} : Same(k)
        /\ UNCHANGED <<dir, cmd, pause, exits, shim, cid, vm, ctr, proc, ending, budget>>
<1>1. CASE helper[i].pc = "start" /\ Fail(i)
  BY <1>1 DEF StartFails, NoStart, Fail, Helpers, TypeOK, Same, SameProc, hostVars, guestVars
<1>2. CASE helper[i].pc # "start" /\ UNCHANGED helper
  BY <1>2 DEF StartFails, NoStart, TypeOK, Same, SameProc, hostVars, guestVars
<1>. QED  BY <1>1, <1>2 DEF StartFails

\* A timeout fails the helper while the start goes on.
LEMMA StartTimesOutEffect ==
  ASSUME TypeOK, NEW i \in Instances, StartTimesOut(i)
  PROVE /\ helper[i].pc = "start" /\ helper'[i].pc = "files"
        /\ ~NoneOvertaken'
        /\ \A k \in Instances \ {i} : Same(k)
        /\ UNCHANGED <<dir, cmd, pause, exits, starting, shim, cid, vm, ctr, proc, ending>>
  BY SpendSpends
  DEF StartTimesOut, Fail, Helpers, hostVars, shimVars, guestVars, TypeOK, Same, SameProc,
      shimVars, guestVars

\* So does the shim that gives the agent up, and keeps the start for later.
LEMMA StartGivenUpEffect ==
  ASSUME TypeOK, NEW i \in Instances, StartGivenUp(i)
  PROVE /\ starting[i].pc = "fill" /\ starting'[i].pc = "late"
        /\ \/ helper'[i] = helper[i] /\ helper[i].pc # "start"
           \/ helper[i].pc = "start" /\ helper'[i].pc = "files"
        /\ ~NoneOvertaken'
        /\ \A k \in Instances \ {i} : Same(k)
        /\ UNCHANGED <<dir, cmd, pause, exits, shim, cid, vm, ctr, proc, ending>>
<1>0. ~NoneOvertaken'  BY SpendSpends DEF StartGivenUp
<1>1. CASE helper[i].pc = "start" /\ Fail(i)
  BY <1>0, <1>1
  DEF StartGivenUp, Fail, Helpers, Starts, TypeOK, Same, SameProc, hostVars, guestVars
<1>2. CASE helper[i].pc # "start" /\ UNCHANGED helper
  BY <1>0, <1>2 DEF StartGivenUp, Starts, TypeOK, Same, SameProc, hostVars, guestVars
<1>. QED  BY <1>1, <1>2 DEF StartGivenUp

\* The stamp, when the directory is there.
LEMMA MarkStartedEffect ==
  ASSUME TypeOK, NEW i \in Instances, MarkStarted(i)
  PROVE /\ helper[i].pc = "mark" /\ helper'[i].pc = "await"
        /\ dir'[i].st = dir[i].st /\ (dir'[i].started <=> dir[i].st # "none")
        /\ dir'[i].criid = dir[i].criid /\ dir'[i].exited = dir[i].exited
        /\ dir'[i].exitcode = dir[i].exitcode
        /\ \A k \in Instances \ {i} : Same(k)
        /\ UNCHANGED <<cmd, pause, exits, starting, shim, cid, vm, ctr, proc, ending, budget>>
  BY DEF MarkStarted, Helper, Helpers, Dirs, TypeOK, Same, SameProc, shimVars, guestVars

\* guest-wait leaves, waits for the process in the map, or asks at once.
LEMMA WaitContainerEffect ==
  ASSUME TypeOK, NEW i \in Instances, WaitContainer(i)
  PROVE /\ helper[i].pc = "await"
        /\ \/ ~dir[i].criid /\ helper'[i].pc = "done"
           \/ shim.ctr # 0 /\ Answers /\ helper'[i].pc = "wait" /\ helper'[i].on = ctr
           \/ ~(shim.ctr # 0 /\ Answers) /\ helper'[i].pc = "status"
        /\ \A k \in Instances \ {i} : Same(k)
        /\ UNCHANGED <<dir, cmd, pause, exits, starting, shim, cid, vm, ctr, proc, ending, budget>>
<1>1. CASE ~dir[i].criid
  BY <1>1 DEF WaitContainer, Leave, Onward, NoHelper, TypeOK, Same, SameProc, hostVars, shimVars, guestVars
<1>2. CASE dir[i].criid /\ shim.ctr # 0 /\ Answers
  BY <1>2 DEF WaitContainer, Helpers, TypeOK, Same, SameProc, hostVars, shimVars, guestVars
<1>3. CASE dir[i].criid /\ ~(shim.ctr # 0 /\ Answers)
  BY <1>3 DEF WaitContainer, Helper, Helpers, TypeOK, Same, SameProc, hostVars, shimVars, guestVars
<1>. QED  BY <1>1, <1>2, <1>3

\* The wait ends with the process it was for.
LEMMA WaitEndsEffect ==
  ASSUME TypeOK, NEW i \in Instances, WaitEnds(i)
  PROVE /\ helper[i].pc = "wait" /\ helper'[i].pc = "status" /\ ~Live(helper[i].on)
        /\ \A k \in Instances \ {i} : Same(k)
        /\ UNCHANGED <<dir, cmd, pause, exits, starting, shim, cid, vm, ctr, proc, ending, budget>>
  BY DEF WaitEnds, Helpers, hostVars, TypeOK, Same, SameProc, shimVars, guestVars

\* The code is the one of the process in the agent's map, if that answers.
LEMMA GuestExitCodeEffect ==
  ASSUME TypeOK, NEW i \in Instances, GuestExitCode(i)
  PROVE /\ helper[i].pc = "status" /\ helper'[i].pc = "files"
        /\ shim.ctr # 0 /\ Answers => helper'[i].code = proc[ctr].code
        /\ \A k \in Instances \ {i} : Same(k)
        /\ UNCHANGED <<dir, cmd, pause, exits, starting, shim, cid, vm, ctr, proc, ending, budget>>
  BY DEF GuestExitCode, Refreshed, Helpers, hostVars, TypeOK, Same, SameProc, shimVars, guestVars

\* The files of finishOCIContainer, when the directory is there.
LEMMA FinishFilesEffect ==
  ASSUME TypeOK, NEW i \in Instances, FinishFiles(i)
  PROVE /\ helper[i].pc = "files" /\ helper'[i].pc = "read" /\ helper[i].code \in Bytes
        /\ dir'[i].st = dir[i].st /\ dir'[i].criid = dir[i].criid /\ dir'[i].started = dir[i].started
        /\ dir[i].st = "none" => dir'[i] = dir[i]
        /\ dir[i].st # "none" => dir'[i].exited /\ dir'[i].exitcode = helper[i].code
        /\ exits'[i] = helper[i].code
        /\ \A k \in Instances \ {i} : Same(k)
        /\ UNCHANGED <<cmd, pause, starting, shim, cid, vm, ctr, proc, ending, budget>>
  BY DEF FinishFiles, Onward, NoHelper, Dirs, Helpers, TypeOK, Same, SameProc, shimVars, guestVars

\* finishOCIContainer goes on, with what it read, or leaves.
LEMMA FinishReadEffect ==
  ASSUME TypeOK, NEW i \in Instances, FinishRead(i)
  PROVE /\ helper[i].pc = "read"
        /\ helper'[i].pc \in {"done", "write", "blank"}
        /\ \A k \in Instances \ {i} : Same(k)
        /\ UNCHANGED <<dir, cmd, pause, exits, starting, shim, cid, vm, ctr, proc, ending, budget>>
  BY DEF FinishRead, Onward, Leave, NoHelper, Helpers, hostVars, TypeOK, Same, SameProc, shimVars,
      guestVars

\* The last write marks the instance stopped, and may tell the pause.
LEMMA FinishWriteEffect ==
  ASSUME TypeOK, NEW i \in Instances, FinishWrite(i)
  PROVE /\ helper[i].pc \in {"write", "blank"} /\ helper'[i].pc \in {"done", "misread"}
        /\ pause'[i] = pause[i] \/ (pause[i] = "live" /\ pause'[i] = "term")
        /\ dir'[i].st = "stopped" /\ SameFiles(i)
        /\ \A k \in Instances \ {i} : Same(k)
        /\ UNCHANGED <<cmd, exits, starting, shim, cid, vm, ctr, proc, ending, budget>>
  BY DEF FinishWrite, Leave, Onward, NoHelper, SameFiles, Dirs, TypeOK, Same, SameProc, shimVars,
      guestVars

\* A process ends once, with a code of its own.
LEMMA ProcExitsEffect ==
  ASSUME TypeOK, NEW i \in Instances, ProcExits(i)
  PROVE /\ Live(i) /\ proc'[i].st = "dead" /\ proc'[i].code \in Bytes
        /\ \A k \in Instances \ {i} : Same(k)
        /\ UNCHANGED <<dir, cmd, pause, exits, helper, starting, shim, cid, vm, ctr, ending,
                     budget>>
<1>p. proc \in [Instances -> Procs]  BY DEF TypeOK
<1>1. CASE /\ proc[i].st = "live"
           /\ \E c \in Codes : proc' = [proc EXCEPT ![i] = [st |-> "dead", code |-> c]]
  <2>1. PICK c \in Codes : proc' = [proc EXCEPT ![i] = [st |-> "dead", code |-> c]]  BY <1>1
  <2>2. c \in Bytes  BY CodesAssumption DEF Bytes
  <2>. QED  BY <1>1, <1>p, <2>1, <2>2 DEF ProcExits, Live, Same, SameProc, hostVars, shimVars
<1>2. CASE proc[i].st = "term" /\ proc' = [proc EXCEPT ![i] = [st |-> "dead", code |-> Termed]]
  BY <1>2, <1>p DEF ProcExits, Live, Same, SameProc, hostVars, shimVars, Bytes, Termed
<1>. QED  BY <1>1, <1>2 DEF ProcExits

\* A kill belongs to a Pod that is ending, or is counted.
LEMMA DoKillEffect ==
  ASSUME TypeOK, NEW i \in Instances, DoKill(i)
  PROVE /\ cmd[i] = "none" /\ dir[i].st = "running" /\ cmd'[i] = "kill"
        /\ \/ ending /\ budget' = budget
           \/ ~ending /\ ~NoneOvertaken'
        /\ \A k \in Instances \ {i} : Same(k)
        /\ UNCHANGED <<dir, pause, exits, helper, starting, shim, cid, vm, ctr, proc, ending>>
<1>1. CASE ending /\ UNCHANGED budget
  BY <1>1 DEF DoKill, TypeOK, Same, SameProc, shimVars, guestVars
<1>2. CASE ~ending /\ Spend("kill")
  <2>1. ~NoneOvertaken'  BY <1>2, SpendSpends
  <2>. QED  BY <1>2, <2>1 DEF DoKill, TypeOK, Same, SameProc, shimVars, guestVars
<1>. QED  BY <1>1, <1>2 DEF DoKill

\* What a broken connection does to an instance.
Cut(k) == /\ dir'[k] = dir[k] /\ cmd'[k] = cmd[k] /\ pause'[k] = pause[k] /\ exits'[k] = exits[k]
          /\ \/ helper[k].pc = "start" /\ helper'[k].pc = "files"
             \/ helper[k].pc = "wait" /\ helper'[k].pc = "status"
             \/ helper[k].pc \notin {"start", "wait"} /\ helper'[k] = helper[k]
          /\ starting'[k].pc = "none" \/ (starting[k].pc = "late" /\ starting'[k] = starting[k])

\* A broken connection fails the helpers that wait, and forgets the starts, or
\* all but those the shim had given up.
LEMMA DisconnectedEffect ==
  ASSUME TypeOK, UNCHANGED hostVars, Disconnected,
         \/ starting' = NotStarting
         \/ starting' = [i \in Instances |->
                          IF starting[i].pc = "late" THEN starting[i] ELSE NoStart]
  PROVE \A k \in Instances : Cut(k)
<1>. SUFFICES ASSUME NEW k \in Instances PROVE Cut(k)  OBVIOUS
<1>1. /\ UNCHANGED <<dir, cmd, pause, exits>>
      /\ starting'[k].pc = "none" \/ (starting[k].pc = "late" /\ starting'[k] = starting[k])
  BY DEF hostVars, NotStarting, NoStart
<1>2. CASE helper[k].pc = "start"  BY <1>1, <1>2 DEF Cut, Disconnected, TypeOK, Helpers
<1>3. CASE helper[k].pc = "wait"  BY <1>1, <1>3 DEF Cut, Disconnected, TypeOK, Helpers
<1>4. CASE helper[k].pc \notin {"start", "wait"}  BY <1>1, <1>4 DEF Cut, Disconnected, TypeOK
<1>. QED  BY <1>2, <1>3, <1>4

\* No process outlives its VM.
LEMMA VMDiesEffect ==
  ASSUME TypeOK, VMDies, NEW k \in Instances
  PROVE /\ ~Live(k)' /\ proc'[k].st = IF Live(k) THEN "dead" ELSE proc[k].st
        /\ proc[k].st \in {"none", "dead"} => proc'[k] = proc[k]
  BY DEF VMDies, Live, TypeOK, Procs

-----------------------------------------------------------------------------
(* The type invariant.                                                     *)

\* A ContainerStatus leaves a typed object, whether the agent answers or not.
LEMMA RefreshedTyped ==
  ASSUME TypeOK, NEW o \in Instances
  PROVE Refreshed(o) \in Objs
<1>1. obj[o] \in Objs /\ (ctr # 0 => proc[ctr] \in Procs)  BY DEF TypeOK
<1>2. CASE Answers  BY <1>1, <1>2 DEF Refreshed, Answers, Objs, Procs
<1>3. CASE ~Answers  BY <1>1, <1>3 DEF Refreshed, Objs
<1>. QED  BY <1>2, <1>3

\* So the shim's objects stay typed under it...
LEMMA QueryTyped ==
  ASSUME TypeOK, QueryStatus \/ UNCHANGED obj
  PROVE obj' \in [Instances -> Objs]
<1>1. obj \in [Instances -> Objs] /\ (shim.ctr # 0 => shim.ctr \in Instances)  BY DEF TypeOK, Shims
<1>2. CASE obj' = [obj EXCEPT ![shim.ctr] = Refreshed(shim.ctr)] /\ shim.ctr # 0
  BY <1>1, <1>2, RefreshedTyped
<1>. QED  BY <1>1, <1>2 DEF QueryStatus

\* ...and under a StopContainer, with the processes.
LEMMA StopTyped ==
  ASSUME TypeOK, NEW i \in Instances, StopGuest(i)
  PROVE obj' \in [Instances -> Objs] /\ proc' \in [Instances -> Procs]
<1>1. obj \in [Instances -> Objs] /\ shim.ctr \in Instances \cup {0}  BY DEF TypeOK, Shims
<1>2. proc \in [Instances -> Procs] /\ ctr \in Instances \cup {0}  BY DEF TypeOK
<1>3. obj' \in [Instances -> Objs]  BY <1>1 DEF StopGuest, StopContainer, Objs
<1>4. proc' \in [Instances -> Procs]  BY <1>2 DEF StopGuest, StopContainer, Answers, Procs
<1>. QED  BY <1>3, <1>4

\* No budget is overdrawn.
LEMMA SpendTyped ==
  ASSUME TypeOK, NEW kind \in {"kill", "shim", "agent", "vm", "timeout"}, Spend(kind)
  PROVE budget' \in Budgets
<1>1. budget \in Budgets  BY DEF TypeOK
<1>. QED  BY <1>1, FaultsAssumption DEF Spend, Budgets

\* The two ways a helper's call is cut short.
LEMMA HelperEdits ==
  ASSUME NEW h \in Helpers
  PROVE /\ [h EXCEPT !.pc = "files", !.code = 1] \in Helpers
        /\ [h EXCEPT !.pc = "status", !.on = 0] \in Helpers
<1>1. [h EXCEPT !.pc = "files"] \in Helpers /\ [h EXCEPT !.pc = "status"] \in Helpers
  BY DEF Helpers
<1>2. ASSUME NEW g \in Helpers PROVE [g EXCEPT !.code = 1] \in Helpers  BY DEF Helpers, Bytes
<1>3. [[h EXCEPT !.pc = "status"] EXCEPT !.on = 0] \in Helpers  BY DEF Helpers
<1>. QED  BY <1>1, <1>2, <1>3

\* An error of guest-start...
LEMMA FailTyped ==
  ASSUME helper \in [Instances -> Helpers], NEW i \in Instances, Fail(i)
  PROVE helper' \in [Instances -> Helpers]
  BY HelperEdits DEF Fail

\* ...a helper that goes on without the code...
LEMMA OnwardTyped ==
  ASSUME helper \in [Instances -> Helpers], NEW i \in Instances,
         NEW pc \in {"read", "write", "blank", "misread", "done"}, Onward(i, pc)
  PROVE helper' \in [Instances -> Helpers]
<1>1. [NoHelper EXCEPT !.pc = pc] \in Helpers  BY DEF NoHelper, Helpers, Bytes
<1>. QED  BY <1>1 DEF Onward

\* ...and a broken connection leave typed helpers.
LEMMA DisconnectedTyped ==
  ASSUME helper \in [Instances -> Helpers], Disconnected
  PROVE helper' \in [Instances -> Helpers]
  BY HelperEdits DEF Disconnected

\* Every step keeps the type invariant.
LEMMA TypeStep == TypeOK /\ [Next]_vars => TypeOK'
<1>. SUFFICES ASSUME TypeOK, [Next]_vars PROVE TypeOK'  OBVIOUS
<1>dir. dir \in [Instances -> Dirs]  BY DEF TypeOK
<1>cmd. cmd \in [Instances -> {"none", "state", "kill", "signal", "delete"}]  BY DEF TypeOK
<1>pause. pause \in [Instances -> {"none", "live", "term", "dead"}]  BY DEF TypeOK
<1>exits. exits \in [Instances -> Bytes \cup {NoCode}]  BY DEF TypeOK
<1>helper. helper \in [Instances -> Helpers]  BY DEF TypeOK
<1>starting. starting \in [Instances -> Starts]  BY DEF TypeOK
<1>obj. obj \in [Instances -> Objs]  BY DEF TypeOK
<1>shim. shim \in Shims  BY DEF TypeOK
<1>cid. cid \in Nat  BY DEF TypeOK
<1>vm. vm \in Nat  BY DEF TypeOK
<1>ctr. ctr \in Instances \cup {0}  BY DEF TypeOK
<1>proc. proc \in [Instances -> Procs]  BY DEF TypeOK
<1>budget. budget \in Budgets  BY DEF TypeOK
<1>1. ASSUME NEW i \in Instances, DoCreate(i) PROVE TypeOK'
  <2>1. pause' \in [Instances -> {"none", "live", "term", "dead"}]  BY <1>1, <1>pause DEF DoCreate
  <2>2. dir' \in [Instances -> Dirs]  BY <1>1, <1>dir DEF DoCreate, Dirs
  <2>3. UNCHANGED <<cmd, exits, helper, starting, obj, shim, cid, vm, ctr, proc, ending, budget>>
    BY <1>1 DEF DoCreate, hostVars, shimVars, guestVars
  <2>. QED  BY <2>1, <2>2, <2>3 DEF TypeOK
<1>2. ASSUME NEW i \in Instances, DoStart(i) PROVE TypeOK'
  <2>1. pause' \in [Instances -> {"none", "live", "term", "dead"}]  BY <1>2, <1>pause DEF DoStart
  <2>2. dir' \in [Instances -> Dirs]  BY <1>2, <1>dir DEF DoStart, Dirs
  <2>3. helper' \in [Instances -> Helpers]  BY <1>2, <1>helper DEF DoStart, Helpers
  <2>4. UNCHANGED <<cmd, exits, starting, obj, shim, cid, vm, ctr, proc, ending, budget>>
    BY <1>2 DEF DoStart, hostVars, shimVars, guestVars
  <2>. QED  BY <2>1, <2>2, <2>3, <2>4 DEF TypeOK
<1>3. ASSUME NEW i \in Instances, DoState(i) PROVE TypeOK'
  <2>1. obj' \in [Instances -> Objs]  BY <1>3, QueryTyped DEF DoState
  <2>2. cmd' \in [Instances -> {"none", "state", "kill", "signal", "delete"}]
    BY <1>3, <1>cmd DEF DoState
  <2>3. UNCHANGED <<dir, pause, exits, helper, starting, shim, cid, vm, ctr, proc, ending, budget>>
    BY <1>3 DEF DoState, hostVars, shimVars, guestVars
  <2>. QED  BY <2>1, <2>2, <2>3 DEF TypeOK
<1>4. ASSUME NEW i \in Instances, DoKill(i) PROVE TypeOK'
  <2>1. cmd' \in [Instances -> {"none", "state", "kill", "signal", "delete"}]
    BY <1>4, <1>cmd DEF DoKill
  <2>2. budget' \in Budgets  BY <1>4, <1>budget, SpendTyped DEF DoKill
  <2>3. UNCHANGED <<dir, pause, exits, helper, starting, obj, shim, cid, vm, ctr, proc, ending>>
    BY <1>4 DEF DoKill, hostVars, shimVars, guestVars
  <2>. QED  BY <2>1, <2>2, <2>3 DEF TypeOK
<1>5. ASSUME NEW i \in Instances, DoDelete(i) PROVE TypeOK'
  <2>1. obj' \in [Instances -> Objs]  BY <1>5, StopTyped DEF DoDelete
  <2>2. proc' \in [Instances -> Procs]  BY <1>5, StopTyped DEF DoDelete
  <2>3. cmd' \in [Instances -> {"none", "state", "kill", "signal", "delete"}]
    BY <1>5, <1>cmd DEF DoDelete
  <2>4. UNCHANGED <<dir, pause, exits, helper, starting, shim, cid, vm, ctr, ending, budget>>
    BY <1>5 DEF DoDelete, hostVars, shimVars, guestVars
  <2>. QED  BY <2>1, <2>2, <2>3, <2>4 DEF TypeOK
<1>6. ASSUME NEW i \in Instances, ApplyStoppedState(i) PROVE TypeOK'
  <2>1. dir' \in [Instances -> Dirs]  BY <1>6, <1>dir DEF ApplyStoppedState, Dirs
  <2>2. cmd' \in [Instances -> {"none", "state", "kill", "signal", "delete"}]
    BY <1>6, <1>cmd DEF ApplyStoppedState
  <2>3. UNCHANGED <<pause, exits, helper, starting, obj, shim, cid, vm, ctr, proc, ending, budget>>
    BY <1>6 DEF ApplyStoppedState, hostVars, shimVars, guestVars
  <2>. QED  BY <2>1, <2>2, <2>3 DEF TypeOK
<1>7. ASSUME NEW i \in Instances, KillStopGuest(i) PROVE TypeOK'
  <2>1. obj' \in [Instances -> Objs]  BY <1>7, StopTyped DEF KillStopGuest
  <2>2. proc' \in [Instances -> Procs]  BY <1>7, StopTyped DEF KillStopGuest
  <2>3. cmd' \in [Instances -> {"none", "state", "kill", "signal", "delete"}]
    BY <1>7, <1>cmd DEF KillStopGuest
  <2>4. UNCHANGED <<dir, pause, exits, helper, starting, shim, cid, vm, ctr, ending, budget>>
    BY <1>7 DEF KillStopGuest, hostVars, shimVars, guestVars
  <2>. QED  BY <2>1, <2>2, <2>3, <2>4 DEF TypeOK
<1>8. ASSUME NEW i \in Instances, KillSignalPause(i) PROVE TypeOK'
  <2>1. pause' \in [Instances -> {"none", "live", "term", "dead"}]
    BY <1>8, <1>pause DEF KillSignalPause
  <2>2. dir' \in [Instances -> Dirs]  BY <1>8, <1>dir DEF KillSignalPause, Dirs
  <2>3. cmd' \in [Instances -> {"none", "state", "kill", "signal", "delete"}]
    BY <1>8, <1>cmd DEF KillSignalPause
  <2>4. UNCHANGED <<exits, helper, starting, obj, shim, cid, vm, ctr, proc, ending, budget>>
    BY <1>8 DEF KillSignalPause, hostVars, shimVars, guestVars
  <2>. QED  BY <2>1, <2>2, <2>3, <2>4 DEF TypeOK
<1>9. ASSUME NEW i \in Instances, DeleteRemoveAll(i) PROVE TypeOK'
  <2>1. pause' \in [Instances -> {"none", "live", "term", "dead"}]
    BY <1>9, <1>pause DEF DeleteRemoveAll
  <2>2. exits' \in [Instances -> Bytes \cup {NoCode}]
    BY <1>9, <1>exits DEF DeleteRemoveAll, Bytes, Killed
  <2>3. dir' \in [Instances -> Dirs]  BY <1>9, <1>dir DEF DeleteRemoveAll, Dirs, NoDir
  <2>4. cmd' \in [Instances -> {"none", "state", "kill", "signal", "delete"}]
    BY <1>9, <1>cmd DEF DeleteRemoveAll
  <2>5. UNCHANGED <<helper, starting, obj, shim, cid, vm, ctr, proc, ending, budget>>
    BY <1>9 DEF DeleteRemoveAll, hostVars, shimVars, guestVars
  <2>. QED  BY <2>1, <2>2, <2>3, <2>4, <2>5 DEF TypeOK
<1>10. ASSUME NEW i \in Instances, PauseExit(i) PROVE TypeOK'
  <2>1. pause' \in [Instances -> {"none", "live", "term", "dead"}]
    BY <1>10, <1>pause DEF PauseExit
  <2>2. exits' \in [Instances -> Bytes \cup {NoCode}]
    BY <1>10, <1>exits, <1>dir DEF PauseExit, Dirs, Bytes, NoCode
  <2>3. UNCHANGED <<dir, cmd, helper, starting, obj, shim, cid, vm, ctr, proc, ending, budget>>
    BY <1>10 DEF PauseExit, hostVars, shimVars, guestVars
  <2>. QED  BY <2>1, <2>2, <2>3 DEF TypeOK
<1>11. ASSUME NEW i \in Instances, RunPodSandbox(i) PROVE TypeOK'
  <2>1. helper' \in [Instances -> Helpers]
    BY <1>11, <1>helper DEF RunPodSandbox, Helpers, Helper, Fail, Bytes
  <2>2. shim' \in Shims  BY <1>11, <1>shim DEF RunPodSandbox, Shims
  <2>3. cid' \in Nat  BY <1>11, <1>cid, <1>vm DEF RunPodSandbox
  <2>4. UNCHANGED <<dir, cmd, pause, exits, starting, obj, vm, ctr, proc, ending, budget>>
    BY <1>11 DEF RunPodSandbox, hostVars, shimVars, guestVars
  <2>. QED  BY <2>1, <2>2, <2>3, <2>4 DEF TypeOK
<1>12. ASSUME NEW i \in Instances, CreateContainer(i) PROVE TypeOK'
  <2>1. dir' \in [Instances -> Dirs]  BY <1>12, <1>dir DEF CreateContainer, Dirs
  <2>2. obj' \in [Instances -> Objs]  BY <1>12, <1>obj DEF CreateContainer, Objs, NewObj, Bytes
  <2>3. shim' \in Shims  BY <1>12, <1>shim DEF CreateContainer, Shims
  <2>4. helper' \in [Instances -> Helpers]
    BY <1>12, <1>helper DEF CreateContainer, Helpers, Helper
  <2>5. UNCHANGED <<cmd, pause, exits, starting, cid, vm, ctr, proc, ending, budget>>
    BY <1>12 DEF CreateContainer, hostVars, shimVars, guestVars
  <2>. QED  BY <2>1, <2>2, <2>3, <2>4, <2>5 DEF TypeOK
<1>13. ASSUME NEW i \in Instances, CallStartContainer(i) PROVE TypeOK'
  <2>1. starting' \in [Instances -> Starts]
    BY <1>13, <1>starting, <1>shim DEF CallStartContainer, Starts, Shims
  <2>2. helper' \in [Instances -> Helpers]
    BY <1>13, <1>helper DEF CallStartContainer, Helpers, Helper, Fail, Bytes
  <2>3. UNCHANGED <<dir, cmd, pause, exits, obj, shim, cid, vm, ctr, proc, ending, budget>>
    BY <1>13 DEF CallStartContainer, hostVars, shimVars, guestVars
  <2>. QED  BY <2>1, <2>2, <2>3 DEF TypeOK
<1>14. ASSUME NEW i \in Instances, MarkStarted(i) PROVE TypeOK'
  <2>1. dir' \in [Instances -> Dirs]  BY <1>14, <1>dir DEF MarkStarted, Dirs
  <2>2. helper' \in [Instances -> Helpers]  BY <1>14, <1>helper DEF MarkStarted, Helpers, Helper
  <2>3. UNCHANGED <<cmd, pause, exits, starting, obj, shim, cid, vm, ctr, proc, ending, budget>>
    BY <1>14 DEF MarkStarted, hostVars, shimVars, guestVars
  <2>. QED  BY <2>1, <2>2, <2>3 DEF TypeOK
<1>15. ASSUME NEW i \in Instances, WaitContainer(i) PROVE TypeOK'
  <2>1. helper' \in [Instances -> Helpers]
    BY <1>15, <1>helper, <1>ctr DEF WaitContainer, Helpers, Helper, Leave, Onward, NoHelper, Answers,
        Bytes
  <2>2. UNCHANGED <<dir, cmd, pause, exits, starting, obj, shim, cid, vm, ctr, proc, ending,
                    budget>>
    BY <1>15 DEF WaitContainer, hostVars, shimVars, guestVars
  <2>. QED  BY <2>1, <2>2 DEF TypeOK
<1>16. ASSUME NEW i \in Instances, WaitEnds(i) PROVE TypeOK'
  <2>1. helper' \in [Instances -> Helpers]  BY <1>16, <1>helper DEF WaitEnds, Helpers
  <2>2. UNCHANGED <<dir, cmd, pause, exits, starting, obj, shim, cid, vm, ctr, proc, ending,
                    budget>>
    BY <1>16 DEF WaitEnds, hostVars, shimVars, guestVars
  <2>. QED  BY <2>1, <2>2 DEF TypeOK
<1>17. ASSUME NEW i \in Instances, GuestExitCode(i) PROVE TypeOK'
  <2>0. (IF shim.ctr = 0 THEN 1 ELSE Refreshed(shim.ctr).code) \in Bytes
    BY <1>shim, RefreshedTyped DEF Shims, Objs, Bytes
  <2>1. obj' \in [Instances -> Objs]  BY <1>17, QueryTyped DEF GuestExitCode
  <2>2. helper' \in [Instances -> Helpers]  BY <1>17, <1>helper, <2>0 DEF GuestExitCode, Helpers
  <2>3. UNCHANGED <<dir, cmd, pause, exits, starting, shim, cid, vm, ctr, proc, ending, budget>>
    BY <1>17 DEF GuestExitCode, hostVars, shimVars, guestVars
  <2>. QED  BY <2>1, <2>2, <2>3 DEF TypeOK
<1>18. ASSUME NEW i \in Instances, FinishFiles(i) PROVE TypeOK'
  <2>0. helper[i].code \in Bytes  BY <1>helper DEF Helpers
  <2>1. dir' \in [Instances -> Dirs]  BY <1>18, <1>dir, <2>0 DEF FinishFiles, Dirs
  <2>2. exits' \in [Instances -> Bytes \cup {NoCode}]  BY <1>18, <1>exits, <2>0 DEF FinishFiles
  <2>3. helper' \in [Instances -> Helpers]  BY <1>18, <1>helper, OnwardTyped DEF FinishFiles
  <2>4. UNCHANGED <<cmd, pause, starting, obj, shim, cid, vm, ctr, proc, ending, budget>>
    BY <1>18 DEF FinishFiles, hostVars, shimVars, guestVars
  <2>. QED  BY <2>1, <2>2, <2>3, <2>4 DEF TypeOK
<1>19. ASSUME NEW i \in Instances, FinishRead(i) PROVE TypeOK'
  <2>1. helper' \in [Instances -> Helpers]
    BY <1>19, <1>helper, OnwardTyped DEF FinishRead, Leave
  <2>2. UNCHANGED <<dir, cmd, pause, exits, starting, obj, shim, cid, vm, ctr, proc, ending,
                    budget>>
    BY <1>19 DEF FinishRead, hostVars, shimVars, guestVars
  <2>. QED  BY <2>1, <2>2 DEF TypeOK
<1>20. ASSUME NEW i \in Instances, FinishWrite(i) PROVE TypeOK'
  <2>1. dir' \in [Instances -> Dirs]  BY <1>20, <1>dir DEF FinishWrite, Dirs
  <2>2. pause' \in [Instances -> {"none", "live", "term", "dead"}]
    BY <1>20, <1>pause DEF FinishWrite
  <2>3. helper' \in [Instances -> Helpers]
    BY <1>20, <1>helper, OnwardTyped DEF FinishWrite, Leave
  <2>4. UNCHANGED <<cmd, exits, starting, obj, shim, cid, vm, ctr, proc, ending, budget>>
    BY <1>20 DEF FinishWrite, hostVars, shimVars, guestVars
  <2>. QED  BY <2>1, <2>2, <2>3, <2>4 DEF TypeOK
<1>21. ASSUME NEW i \in Instances, Start(i) PROVE TypeOK'
  <2>1. proc' \in [Instances -> Procs]  BY <1>21, <1>proc DEF Start, Procs
  <2>2. ctr' \in Instances \cup {0}  BY <1>21, <1>ctr DEF Start
  <2>3. starting' \in [Instances -> Starts]  BY <1>21, <1>starting DEF Start, Starts, NoStart
  <2>4. UNCHANGED <<dir, cmd, pause, exits, helper, obj, shim, cid, vm, ending, budget>>
    BY <1>21 DEF Start, hostVars, shimVars, guestVars
  <2>. QED  BY <2>1, <2>2, <2>3, <2>4 DEF TypeOK
<1>22. ASSUME NEW i \in Instances, StartReturns(i) PROVE TypeOK'
  <2>1. obj' \in [Instances -> Objs]  BY <1>22, <1>obj, <1>starting DEF StartReturns, Objs, Starts
  <2>2. shim' \in Shims  BY <1>22, <1>shim, <1>starting DEF StartReturns, Shims, Starts
  <2>3. starting' \in [Instances -> Starts]
    BY <1>22, <1>starting DEF StartReturns, Starts, NoStart
  <2>4. helper' \in [Instances -> Helpers]  BY <1>22, <1>helper DEF StartReturns, Helpers, Helper
  <2>5. UNCHANGED <<dir, cmd, pause, exits, cid, vm, ctr, proc, ending, budget>>
    BY <1>22 DEF StartReturns, hostVars, shimVars, guestVars
  <2>. QED  BY <2>1, <2>2, <2>3, <2>4, <2>5 DEF TypeOK
<1>23. ASSUME NEW i \in Instances, StartFails(i) PROVE TypeOK'
  <2>1. starting' \in [Instances -> Starts]  BY <1>23, <1>starting DEF StartFails, Starts, NoStart
  <2>2. helper' \in [Instances -> Helpers]  BY <1>23, <1>helper, FailTyped DEF StartFails, Helpers
  <2>3. UNCHANGED <<dir, cmd, pause, exits, obj, shim, cid, vm, ctr, proc, ending, budget>>
    BY <1>23 DEF StartFails, hostVars, shimVars, guestVars
  <2>. QED  BY <2>1, <2>2, <2>3 DEF TypeOK
<1>24. ASSUME NEW i \in Instances, StartTimesOut(i) PROVE TypeOK'
  <2>1. helper' \in [Instances -> Helpers]
    BY <1>24, <1>helper, FailTyped DEF StartTimesOut, Helpers
  <2>2. budget' \in Budgets  BY <1>24, SpendTyped DEF StartTimesOut
  <2>3. UNCHANGED <<dir, cmd, pause, exits, starting, obj, shim, cid, vm, ctr, proc, ending>>
    BY <1>24 DEF StartTimesOut, hostVars, shimVars, guestVars
  <2>. QED  BY <2>1, <2>2, <2>3 DEF TypeOK
<1>25. ASSUME NEW i \in Instances, ProcExits(i) PROVE TypeOK'
  <2>1. proc' \in [Instances -> Procs]
    BY <1>25, <1>proc, CodesAssumption DEF ProcExits, Procs, Bytes, Termed
  <2>2. UNCHANGED <<dir, cmd, pause, exits, helper, starting, obj, shim, cid, vm, ctr, ending,
                    budget>>
    BY <1>25 DEF ProcExits, hostVars, shimVars, guestVars
  <2>. QED  BY <2>1, <2>2 DEF TypeOK
<1>26. CASE ShimCrash
  <2>1. shim' \in Shims  BY <1>26, <1>shim DEF ShimCrash, Shims
  <2>2. starting' \in [Instances -> Starts]
    BY <1>26, <1>starting DEF ShimCrash, Starts, NotStarting, NoStart
  <2>3. helper' \in [Instances -> Helpers]  BY <1>26, <1>helper, DisconnectedTyped DEF ShimCrash
  <2>4. budget' \in Budgets  BY <1>26, SpendTyped DEF ShimCrash
  <2>5. UNCHANGED <<dir, cmd, pause, exits, obj, cid, vm, ctr, proc, ending>>
    BY <1>26 DEF ShimCrash, hostVars, shimVars, guestVars
  <2>. QED  BY <2>1, <2>2, <2>3, <2>4, <2>5 DEF TypeOK
<1>27. CASE AgentCrash
  <2>1. ctr' \in Instances \cup {0}  BY <1>27, <1>ctr DEF AgentCrash
  <2>2. starting' \in [Instances -> Starts]
    BY <1>27, <1>starting DEF AgentCrash, Starts, NotStarting, NoStart
  <2>3. helper' \in [Instances -> Helpers]  BY <1>27, <1>helper, DisconnectedTyped DEF AgentCrash
  <2>4. budget' \in Budgets  BY <1>27, SpendTyped DEF AgentCrash
  <2>5. UNCHANGED <<dir, cmd, pause, exits, obj, shim, cid, vm, proc, ending>>
    BY <1>27 DEF AgentCrash, hostVars, shimVars, guestVars
  <2>. QED  BY <2>1, <2>2, <2>3, <2>4, <2>5 DEF TypeOK
<1>28. CASE VMDies
  <2>1. vm' \in Nat  BY <1>28, <1>vm DEF VMDies
  <2>2. ctr' \in Instances \cup {0}  BY <1>28, <1>ctr DEF VMDies
  <2>3. proc' \in [Instances -> Procs]  BY <1>28, <1>proc DEF VMDies, Procs, Bytes, Lost
  <2>4. starting' \in [Instances -> Starts]
    BY <1>28, <1>starting DEF VMDies, Starts, NotStarting, NoStart
  <2>5. helper' \in [Instances -> Helpers]  BY <1>28, <1>helper, DisconnectedTyped DEF VMDies
  <2>6. budget' \in Budgets  BY <1>28, SpendTyped DEF VMDies
  <2>7. UNCHANGED <<dir, cmd, pause, exits, obj, shim, cid, ending>>
    BY <1>28 DEF VMDies, hostVars, shimVars, guestVars
  <2>. QED  BY <2>1, <2>2, <2>3, <2>4, <2>5, <2>6, <2>7 DEF TypeOK
<1>29. CASE VMStarts
  <2>1. vm' \in Nat  BY <1>29, <1>vm, FaultsAssumption, <1>budget DEF VMStarts, Budgets
  <2>2. UNCHANGED <<dir, cmd, pause, exits, helper, starting, obj, shim, cid, ctr, proc, ending,
                    budget>>
    BY <1>29 DEF VMStarts, hostVars, shimVars, guestVars
  <2>. QED  BY <2>1, <2>2 DEF TypeOK
<1>30. CASE EndPod
  <2>1. ending' \in BOOLEAN  BY <1>30 DEF EndPod
  <2>2. UNCHANGED <<dir, cmd, pause, exits, helper, starting, obj, shim, cid, vm, ctr, proc,
                    budget>>
    BY <1>30 DEF EndPod, hostVars, shimVars, guestVars
  <2>. QED  BY <2>1, <2>2 DEF TypeOK
<1>31. CASE RemovePodSandbox
  <2>1. shim' \in Shims  BY <1>31, <1>shim DEF RemovePodSandbox, Shims
  <2>2. UNCHANGED <<dir, cmd, pause, exits, helper, starting, obj, cid, vm, ctr, proc, ending,
                    budget>>
    BY <1>31 DEF RemovePodSandbox, hostVars, shimVars, guestVars
  <2>. QED  BY <2>1, <2>2 DEF TypeOK
<1>32. CASE UNCHANGED vars  BY <1>32 DEF vars, TypeOK
<1>33. ASSUME NEW i \in Instances, StartGivenUp(i) PROVE TypeOK'
  <2>1. starting' \in [Instances -> Starts]  BY <1>33, <1>starting DEF StartGivenUp, Starts
  <2>2. helper' \in [Instances -> Helpers]  BY <1>33, <1>helper, FailTyped DEF StartGivenUp
  <2>3. budget' \in Budgets  BY <1>33, SpendTyped DEF StartGivenUp
  <2>4. UNCHANGED <<dir, cmd, pause, exits, obj, shim, cid, vm, ctr, proc, ending>>
    BY <1>33 DEF StartGivenUp, hostVars, shimVars, guestVars
  <2>. QED  BY <2>1, <2>2, <2>3, <2>4 DEF TypeOK
<1>. QED
  BY <1>1, <1>2, <1>3, <1>4, <1>5, <1>6, <1>7, <1>8, <1>9, <1>10, <1>11, <1>12, <1>13, <1>14,
      <1>15, <1>16, <1>17, <1>18, <1>19, <1>20, <1>21, <1>22, <1>23, <1>24, <1>25, <1>26, <1>27,
      <1>28, <1>29, <1>30, <1>31, <1>32, <1>33
  DEF Next, OciCommand, OciStep, HelperStep, ShimStep
-----------------------------------------------------------------------------
(* What holds whatever fails.                                              *)

\* An instance that a step leaves alone stays in order.
LEMMA Elsewhere ==
  ASSUME NEW k \in Instances, InOrder(k), Same(k),
         \A j \in Instances : exits[j] # NoCode => exits'[j] # NoCode
  PROVE InOrder(k)'
  BY DEF InOrder, Same, SameProc, Finished

\* Every step keeps the order of the parts of every instance, whatever fails.
LEMMA OrderStep == TypeOK /\ OrderInv /\ [Next]_vars => OrderInv'
<1>. SUFFICES ASSUME TypeOK, OrderInv, [Next]_vars PROVE OrderInv'  OBVIOUS
<1>1. ASSUME NEW i \in Instances, DoCreate(i) PROVE OrderInv'
  <2>. USE <1>1, DoCreateEffect
  <2>1. \A j \in Instances : exits[j] # NoCode => exits'[j] # NoCode  OBVIOUS
  <2>2. InOrder(i)'  BY <2>1 DEF OrderInv, InOrder, Finished, SameFiles, NoDir
  <2>. QED  BY <2>1, <2>2, Elsewhere DEF OrderInv
<1>2. ASSUME NEW i \in Instances, DoStart(i) PROVE OrderInv'
  <2>. USE <1>2, DoStartEffect
  <2>1. \A j \in Instances : exits[j] # NoCode => exits'[j] # NoCode  OBVIOUS
  <2>2. InOrder(i)'  BY <2>1 DEF OrderInv, InOrder, Finished, SameFiles
  <2>. QED  BY <2>1, <2>2, Elsewhere DEF OrderInv
<1>3. ASSUME NEW i \in Instances, DoState(i) PROVE OrderInv'
  <2>. USE <1>3, DoStateEffect
  <2>1. \A j \in Instances : exits[j] # NoCode => exits'[j] # NoCode  OBVIOUS
  <2>2. InOrder(i)'  BY <2>1 DEF OrderInv, InOrder, Finished, SameFiles, NoDir, TypeOK, Dirs
  <2>. QED  BY <2>1, <2>2, Elsewhere DEF OrderInv
<1>4. ASSUME NEW i \in Instances, ApplyStoppedState(i) PROVE OrderInv'
  <2>. USE <1>4, ApplyStoppedStateEffect
  <2>1. \A j \in Instances : exits[j] # NoCode => exits'[j] # NoCode  OBVIOUS
  <2>2. InOrder(i)'  BY <2>1 DEF OrderInv, InOrder, Finished, SameFiles
  <2>. QED  BY <2>1, <2>2, Elsewhere DEF OrderInv
<1>5. ASSUME NEW i \in Instances, KillStopGuest(i) PROVE OrderInv'
  <2>. USE <1>5, KillStopGuestEffect
  <2>1. \A j \in Instances : exits[j] # NoCode => exits'[j] # NoCode  OBVIOUS
  <2>2. InOrder(i)'  BY <2>1 DEF OrderInv, InOrder, Finished, SameFiles, SameProc
  <2>. QED  BY <2>1, <2>2, Elsewhere DEF OrderInv
<1>6. ASSUME NEW i \in Instances, KillSignalPause(i) PROVE OrderInv'
  <2>. USE <1>6, KillSignalPauseEffect
  <2>1. \A j \in Instances : exits[j] # NoCode => exits'[j] # NoCode  OBVIOUS
  <2>2. InOrder(i)'  BY <2>1 DEF OrderInv, InOrder, Finished, SameFiles
  <2>. QED  BY <2>1, <2>2, Elsewhere DEF OrderInv
<1>7. ASSUME NEW i \in Instances, DoDelete(i) PROVE OrderInv'
  <2>. USE <1>7, DoDeleteEffect
  <2>1. \A j \in Instances : exits[j] # NoCode => exits'[j] # NoCode  OBVIOUS
  <2>2. InOrder(i)'
    BY <2>1 DEF OrderInv, InOrder, Finished, SameFiles, SameProc, NoDir, TypeOK, Dirs
  <2>. QED  BY <2>1, <2>2, Elsewhere DEF OrderInv
<1>8. ASSUME NEW i \in Instances, DeleteRemoveAll(i) PROVE OrderInv'
  <2>. USE <1>8, DeleteRemoveAllEffect
  <2>1. \A j \in Instances : exits[j] # NoCode => exits'[j] # NoCode
    BY DEF Same, Bytes, NoCode, Killed
  <2>2. InOrder(i)'
    BY <2>1 DEF OrderInv, InOrder, Finished, SameFiles, Killed, NoDir, Bytes, TypeOK
  <2>. QED  BY <2>1, <2>2, Elsewhere DEF OrderInv
<1>9. ASSUME NEW i \in Instances, PauseExit(i) PROVE OrderInv'
  <2>. USE <1>9, PauseExitEffect
  <2>1. \A j \in Instances : exits[j] # NoCode => exits'[j] # NoCode
    BY DEF Same, Bytes, NoCode, TypeOK, Dirs
  <2>2. InOrder(i)'  BY <2>1 DEF OrderInv, InOrder, Finished, SameFiles, Bytes, TypeOK, Dirs
  <2>. QED  BY <2>1, <2>2, Elsewhere DEF OrderInv
<1>10. ASSUME NEW i \in Instances, RunPodSandbox(i) PROVE OrderInv'
  <2>. USE <1>10, RunPodSandboxEffect
  <2>1. \A j \in Instances : exits[j] # NoCode => exits'[j] # NoCode  OBVIOUS
  <2>2. InOrder(i)'  BY <2>1 DEF OrderInv, InOrder, Finished, SameFiles
  <2>. QED  BY <2>1, <2>2, Elsewhere DEF OrderInv
<1>11. ASSUME NEW i \in Instances, CreateContainer(i) PROVE OrderInv'
  <2>. USE <1>11, CreateContainerEffect
  <2>1. \A j \in Instances : exits[j] # NoCode => exits'[j] # NoCode  OBVIOUS
  <2>2. InOrder(i)'  BY <2>1 DEF OrderInv, InOrder, Finished, SameFiles
  <2>. QED  BY <2>1, <2>2, Elsewhere DEF OrderInv
<1>12. ASSUME NEW i \in Instances, CallStartContainer(i) PROVE OrderInv'
  <2>. USE <1>12, CallStartContainerEffect
  <2>1. \A j \in Instances : exits[j] # NoCode => exits'[j] # NoCode  OBVIOUS
  <2>2. InOrder(i)'  BY <2>1 DEF OrderInv, InOrder, Finished, SameFiles
  <2>. QED  BY <2>1, <2>2, Elsewhere DEF OrderInv
<1>13. ASSUME NEW i \in Instances, Start(i) PROVE OrderInv'
  <2>. USE <1>13, StartEffect
  <2>1. \A j \in Instances : exits[j] # NoCode => exits'[j] # NoCode  OBVIOUS
  <2>2. InOrder(i)'  BY <2>1 DEF OrderInv, InOrder, Finished, SameFiles
  <2>. QED  BY <2>1, <2>2, Elsewhere DEF OrderInv
<1>14. ASSUME NEW i \in Instances, StartReturns(i) PROVE OrderInv'
  <2>. USE <1>14, StartReturnsEffect
  <2>1. \A j \in Instances : exits[j] # NoCode => exits'[j] # NoCode  OBVIOUS
  <2>2. InOrder(i)'  BY <2>1 DEF OrderInv, InOrder, Finished, SameFiles
  <2>. QED  BY <2>1, <2>2, Elsewhere DEF OrderInv
<1>15. ASSUME NEW i \in Instances, StartFails(i) PROVE OrderInv'
  <2>. USE <1>15, StartFailsEffect
  <2>1. \A j \in Instances : exits[j] # NoCode => exits'[j] # NoCode  OBVIOUS
  <2>2. InOrder(i)'  BY <2>1 DEF OrderInv, InOrder, Finished, SameFiles
  <2>. QED  BY <2>1, <2>2, Elsewhere DEF OrderInv
<1>16. ASSUME NEW i \in Instances, StartTimesOut(i) PROVE OrderInv'
  <2>. USE <1>16, StartTimesOutEffect
  <2>1. \A j \in Instances : exits[j] # NoCode => exits'[j] # NoCode  OBVIOUS
  <2>2. InOrder(i)'  BY <2>1 DEF OrderInv, InOrder, Finished, SameFiles
  <2>. QED  BY <2>1, <2>2, Elsewhere DEF OrderInv
<1>17. ASSUME NEW i \in Instances, MarkStarted(i) PROVE OrderInv'
  <2>. USE <1>17, MarkStartedEffect
  <2>1. \A j \in Instances : exits[j] # NoCode => exits'[j] # NoCode  OBVIOUS
  <2>2. InOrder(i)'  BY <2>1 DEF OrderInv, InOrder, Finished, SameFiles
  <2>. QED  BY <2>1, <2>2, Elsewhere DEF OrderInv
<1>18. ASSUME NEW i \in Instances, WaitContainer(i) PROVE OrderInv'
  <2>. USE <1>18, WaitContainerEffect
  <2>1. \A j \in Instances : exits[j] # NoCode => exits'[j] # NoCode  OBVIOUS
  <2>2. InOrder(i)'  BY <2>1 DEF OrderInv, InOrder, Finished, SameFiles
  <2>. QED  BY <2>1, <2>2, Elsewhere DEF OrderInv
<1>19. ASSUME NEW i \in Instances, WaitEnds(i) PROVE OrderInv'
  <2>. USE <1>19, WaitEndsEffect
  <2>1. \A j \in Instances : exits[j] # NoCode => exits'[j] # NoCode  OBVIOUS
  <2>2. InOrder(i)'  BY <2>1 DEF OrderInv, InOrder, Finished, SameFiles
  <2>. QED  BY <2>1, <2>2, Elsewhere DEF OrderInv
<1>20. ASSUME NEW i \in Instances, GuestExitCode(i) PROVE OrderInv'
  <2>. USE <1>20, GuestExitCodeEffect
  <2>1. \A j \in Instances : exits[j] # NoCode => exits'[j] # NoCode  OBVIOUS
  <2>2. InOrder(i)'  BY <2>1 DEF OrderInv, InOrder, Finished, SameFiles
  <2>. QED  BY <2>1, <2>2, Elsewhere DEF OrderInv
<1>21. ASSUME NEW i \in Instances, FinishFiles(i) PROVE OrderInv'
  <2>. USE <1>21, FinishFilesEffect
  <2>1. \A j \in Instances : exits[j] # NoCode => exits'[j] # NoCode  BY DEF Same, Bytes, NoCode
  <2>2. InOrder(i)'  BY <2>1 DEF OrderInv, InOrder, Finished, SameFiles, Bytes
  <2>. QED  BY <2>1, <2>2, Elsewhere DEF OrderInv
<1>22. ASSUME NEW i \in Instances, FinishRead(i) PROVE OrderInv'
  <2>. USE <1>22, FinishReadEffect
  <2>1. \A j \in Instances : exits[j] # NoCode => exits'[j] # NoCode  OBVIOUS
  <2>2. InOrder(i)'  BY <2>1 DEF OrderInv, InOrder, Finished, SameFiles
  <2>. QED  BY <2>1, <2>2, Elsewhere DEF OrderInv
<1>23. ASSUME NEW i \in Instances, FinishWrite(i) PROVE OrderInv'
  <2>. USE <1>23, FinishWriteEffect
  <2>1. \A j \in Instances : exits[j] # NoCode => exits'[j] # NoCode  OBVIOUS
  <2>2. InOrder(i)'  BY <2>1 DEF OrderInv, InOrder, Finished, SameFiles
  <2>. QED  BY <2>1, <2>2, Elsewhere DEF OrderInv
<1>24. ASSUME NEW i \in Instances, ProcExits(i) PROVE OrderInv'
  <2>. USE <1>24, ProcExitsEffect
  <2>1. \A j \in Instances : exits[j] # NoCode => exits'[j] # NoCode  OBVIOUS
  <2>2. InOrder(i)'  BY <2>1 DEF OrderInv, InOrder, Finished, SameFiles, Live
  <2>. QED  BY <2>1, <2>2, Elsewhere DEF OrderInv
<1>25. ASSUME NEW i \in Instances, DoKill(i) PROVE OrderInv'
  <2>. USE <1>25, DoKillEffect
  <2>1. \A j \in Instances : exits[j] # NoCode => exits'[j] # NoCode  OBVIOUS
  <2>2. InOrder(i)'  BY <2>1 DEF OrderInv, InOrder, Finished, SameFiles, NoDir
  <2>. QED  BY <2>1, <2>2, Elsewhere DEF OrderInv
<1>26. CASE ShimCrash
  <2>1. \A k \in Instances : Cut(k)  BY <1>26, DisconnectedEffect DEF ShimCrash
  <2>2. \A k \in Instances : proc'[k].st = "none" <=> proc[k].st = "none"
    BY <1>26 DEF ShimCrash, guestVars, Live
  <2>. QED  BY <2>1, <2>2 DEF OrderInv, InOrder, Cut, Finished
<1>27. CASE AgentCrash
  <2>1. \A k \in Instances : Cut(k)  BY <1>27, DisconnectedEffect DEF AgentCrash
  <2>2. \A k \in Instances : proc'[k].st = "none" <=> proc[k].st = "none"
    BY <1>27 DEF AgentCrash, guestVars, Live
  <2>. QED  BY <2>1, <2>2 DEF OrderInv, InOrder, Cut, Finished
<1>28. CASE VMDies
  <2>1. \A k \in Instances : Cut(k)  BY <1>28, DisconnectedEffect DEF VMDies
  <2>2. \A k \in Instances : proc'[k].st = "none" <=> proc[k].st = "none"
    BY <1>28, VMDiesEffect DEF VMDies, guestVars, Live
  <2>. QED  BY <2>1, <2>2 DEF OrderInv, InOrder, Cut, Finished
<1>29. CASE VMStarts
  BY <1>29 DEF VMStarts, OrderInv, InOrder, Finished, hostVars, shimVars, guestVars
<1>30. CASE EndPod
  BY <1>30 DEF EndPod, OrderInv, InOrder, Finished, hostVars, shimVars, guestVars
<1>31. CASE RemovePodSandbox
  BY <1>31 DEF RemovePodSandbox, OrderInv, InOrder, Finished, hostVars, shimVars, guestVars
<1>32. CASE UNCHANGED vars  BY <1>32 DEF vars, OrderInv, InOrder, Finished
<1>33. ASSUME NEW i \in Instances, StartGivenUp(i) PROVE OrderInv'
  <2>. USE <1>33, StartGivenUpEffect
  <2>1. \A j \in Instances : exits[j] # NoCode => exits'[j] # NoCode  OBVIOUS
  <2>2. InOrder(i)'  BY <2>1 DEF OrderInv, InOrder, Finished, SameFiles
  <2>. QED  BY <2>1, <2>2, Elsewhere DEF OrderInv
<1>. QED
  BY <1>1, <1>2, <1>3, <1>4, <1>5, <1>6, <1>7, <1>8, <1>9, <1>10, <1>11, <1>12, <1>13, <1>14,
      <1>15, <1>16, <1>17, <1>18, <1>19, <1>20, <1>21, <1>22, <1>23, <1>24, <1>25, <1>26, <1>27,
      <1>28, <1>29, <1>30, <1>31, <1>32, <1>33
  DEF Next, OciCommand, OciStep, HelperStep, ShimStep
-----------------------------------------------------------------------------
(* What holds as long as certain faults have not happened.                 *)

\* A fault takes one from its own budget.
LEMMA SpendEffect ==
  ASSUME TypeOK, NEW kind \in {"kill", "shim", "agent", "vm", "timeout"}, Spend(kind)
  PROVE /\ budget'[kind] = budget[kind] - 1
        /\ \A other \in {"kill", "shim", "agent", "vm", "timeout"} \ {kind} :
             budget'[other] = budget[other]
<1>1. budget \in Budgets  BY DEF TypeOK
<1>. QED  BY <1>1 DEF Spend, Budgets

\* A fault that has happened stays known, and so does the end of the Pod.
LEMMA FaultsStay ==
  ASSUME TypeOK, [Next]_vars
  PROVE /\ NoneOvertaken' => NoneOvertaken
        /\ NoneForgotten' => NoneForgotten
        /\ budget'.vm = MaxVMDeaths => budget.vm = MaxVMDeaths
        /\ ending => ending'
<1>. DEFINE Stay == /\ NoneOvertaken' => NoneOvertaken
                    /\ NoneForgotten' => NoneForgotten
                    /\ budget'.vm = MaxVMDeaths => budget.vm = MaxVMDeaths
            Spent == \E kind \in {"kill", "shim", "agent", "vm", "timeout"} : Spend(kind)
            Counted == (budget' = budget \/ Spent) /\ (ending => ending')
<1>0. budget \in Budgets  BY DEF TypeOK
<1>1. ASSUME budget' = budget PROVE Stay  BY <1>1 DEF NoneOvertaken, NoneForgotten
<1>2. ASSUME NEW kind \in {"kill", "shim", "agent", "vm", "timeout"}, Spend(kind) PROVE Stay
  BY <1>0, <1>2, SpendEffect, FaultsAssumption DEF Budgets, NoneOvertaken, NoneForgotten
<1>3. Counted
  <2>1. ASSUME NEW i \in Instances, OciCommand(i) PROVE Counted
    BY <2>1 DEF OciCommand, DoCreate, DoStart, DoState, DoKill, DoDelete
  <2>2. ASSUME NEW i \in Instances, OciStep(i) PROVE Counted
    BY <2>2
    DEF OciStep, ApplyStoppedState, KillStopGuest, KillSignalPause, DeleteRemoveAll, PauseExit
  <2>3. ASSUME NEW i \in Instances, HelperStep(i) PROVE Counted
    BY <2>3
    DEF HelperStep, RunPodSandbox, CreateContainer, CallStartContainer, MarkStarted,
        WaitContainer, WaitEnds, GuestExitCode, FinishFiles, FinishRead, FinishWrite
  <2>4. ASSUME NEW i \in Instances, ShimStep(i) \/ StartTimesOut(i) \/ StartGivenUp(i) \/ ProcExits(i)
         PROVE Counted
    BY <2>4 DEF ShimStep, Start, StartReturns, StartFails, StartTimesOut, StartGivenUp, ProcExits
  <2>5. CASE ShimCrash \/ AgentCrash \/ VMDies  BY <2>5 DEF ShimCrash, AgentCrash, VMDies
  <2>6. CASE VMStarts \/ EndPod \/ RemovePodSandbox \/ UNCHANGED vars
    BY <2>6 DEF VMStarts, EndPod, RemovePodSandbox, vars
  <2>. QED  BY <2>1, <2>2, <2>3, <2>4, <2>5, <2>6 DEF Next
<1>. QED  BY <1>1, <1>2, <1>3

\* An instance that a step leaves alone is not overtaken by it.
LEMMA ElsewhereOvertaken ==
  ASSUME NEW k \in Instances, NotOvertaken(k), Same(k), ctr' = ctr, ending' = ending,
         \A j \in Instances : Finished(j) => Finished(j)'
  PROVE NotOvertaken(k)'
  BY DEF NotOvertaken, Same, SameProc, Finished

\* While nothing is killed early or times out, no step overtakes an instance.
LEMMA OvertakeStep ==
  ASSUME TypeOK, OrderInv, \A k \in Instances : NotOvertaken(k), [Next]_vars, NoneOvertaken'
  PROVE \A k \in Instances : NotOvertaken(k)'
<1>1. ASSUME NEW i \in Instances, DoCreate(i) PROVE \A k \in Instances : NotOvertaken(k)'
  <2>. USE <1>1, DoCreateEffect
  <2>1. \A j \in Instances : Finished(j) => Finished(j)'  BY DEF Finished, Same
  <2>2. NotOvertaken(i)'  BY <2>1 DEF OrderInv, InOrder, NotOvertaken, Finished
  <2>. QED  BY <2>1, <2>2, ElsewhereOvertaken
<1>2. ASSUME NEW i \in Instances, DoStart(i) PROVE \A k \in Instances : NotOvertaken(k)'
  <2>. USE <1>2, DoStartEffect
  <2>1. \A j \in Instances : Finished(j) => Finished(j)'  BY DEF Finished, Same, OrderInv, InOrder
  <2>2. NotOvertaken(i)'  BY <2>1 DEF OrderInv, InOrder, NotOvertaken, Finished
  <2>. QED  BY <2>1, <2>2, ElsewhereOvertaken
<1>3. ASSUME NEW i \in Instances, DoState(i) PROVE \A k \in Instances : NotOvertaken(k)'
  <2>. USE <1>3, DoStateEffect
  <2>1. \A j \in Instances : Finished(j) => Finished(j)'  BY DEF Finished, Same
  <2>2. NotOvertaken(i)'  BY <2>1 DEF OrderInv, InOrder, NotOvertaken, Finished
  <2>. QED  BY <2>1, <2>2, ElsewhereOvertaken
<1>4. ASSUME NEW i \in Instances, ApplyStoppedState(i) PROVE \A k \in Instances : NotOvertaken(k)'
  <2>. USE <1>4, ApplyStoppedStateEffect
  <2>1. \A j \in Instances : Finished(j) => Finished(j)'  BY DEF Finished, Same
  <2>2. NotOvertaken(i)'  BY <2>1 DEF OrderInv, InOrder, NotOvertaken, Finished
  <2>. QED  BY <2>1, <2>2, ElsewhereOvertaken
<1>5. ASSUME NEW i \in Instances, KillStopGuest(i) PROVE \A k \in Instances : NotOvertaken(k)'
  <2>. USE <1>5, KillStopGuestEffect
  <2>1. \A j \in Instances : Finished(j) => Finished(j)'  BY DEF Finished, Same
  <2>2. NotOvertaken(i)'  BY <2>1 DEF OrderInv, InOrder, NotOvertaken, Finished, SameProc
  <2>. QED  BY <2>1, <2>2, ElsewhereOvertaken
<1>6. ASSUME NEW i \in Instances, KillSignalPause(i) PROVE \A k \in Instances : NotOvertaken(k)'
  <2>. USE <1>6, KillSignalPauseEffect
  <2>1. \A j \in Instances : Finished(j) => Finished(j)'  BY DEF Finished, Same
  <2>2. NotOvertaken(i)'  BY <2>1 DEF OrderInv, InOrder, NotOvertaken, Finished
  <2>. QED  BY <2>1, <2>2, ElsewhereOvertaken
<1>7. ASSUME NEW i \in Instances, DoDelete(i) PROVE \A k \in Instances : NotOvertaken(k)'
  <2>. USE <1>7, DoDeleteEffect
  <2>1. \A j \in Instances : Finished(j) => Finished(j)'  BY DEF Finished, Same
  <2>2. NotOvertaken(i)'  BY <2>1 DEF OrderInv, InOrder, NotOvertaken, Finished, SameProc
  <2>. QED  BY <2>1, <2>2, ElsewhereOvertaken
<1>8. ASSUME NEW i \in Instances, DeleteRemoveAll(i) PROVE \A k \in Instances : NotOvertaken(k)'
  <2>. USE <1>8, DeleteRemoveAllEffect
  <2>1. \A j \in Instances : Finished(j) => Finished(j)'  BY DEF Finished, Same
  <2>2. NotOvertaken(i)'  BY <2>1 DEF OrderInv, InOrder, NotOvertaken, Finished
  <2>. QED  BY <2>1, <2>2, ElsewhereOvertaken
<1>9. ASSUME NEW i \in Instances, PauseExit(i) PROVE \A k \in Instances : NotOvertaken(k)'
  <2>. USE <1>9, PauseExitEffect
  <2>1. \A j \in Instances : Finished(j) => Finished(j)'  BY DEF Finished, Same
  <2>2. NotOvertaken(i)'  BY <2>1 DEF OrderInv, InOrder, NotOvertaken, Finished
  <2>. QED  BY <2>1, <2>2, ElsewhereOvertaken
<1>10. ASSUME NEW i \in Instances, RunPodSandbox(i) PROVE \A k \in Instances : NotOvertaken(k)'
  <2>. USE <1>10, RunPodSandboxEffect
  <2>1. \A j \in Instances : Finished(j) => Finished(j)'  BY DEF Finished, Same
  <2>2. NotOvertaken(i)'  BY <2>1 DEF OrderInv, InOrder, NotOvertaken, Finished
  <2>. QED  BY <2>1, <2>2, ElsewhereOvertaken
<1>11. ASSUME NEW i \in Instances, CreateContainer(i) PROVE \A k \in Instances : NotOvertaken(k)'
  <2>. USE <1>11, CreateContainerEffect
  <2>1. \A j \in Instances : Finished(j) => Finished(j)'  BY DEF Finished, Same
  <2>2. NotOvertaken(i)'  BY <2>1 DEF OrderInv, InOrder, NotOvertaken, Finished
  <2>. QED  BY <2>1, <2>2, ElsewhereOvertaken
<1>12. ASSUME NEW i \in Instances, CallStartContainer(i) PROVE \A k \in Instances : NotOvertaken(k)'
  <2>. USE <1>12, CallStartContainerEffect
  <2>1. \A j \in Instances : Finished(j) => Finished(j)'  BY DEF Finished, Same
  <2>2. NotOvertaken(i)'  BY <2>1 DEF OrderInv, InOrder, NotOvertaken, Finished
  <2>. QED  BY <2>1, <2>2, ElsewhereOvertaken
<1>13. ASSUME NEW i \in Instances, Start(i) PROVE \A k \in Instances : NotOvertaken(k)'
  <2>. USE <1>13, StartEffect
  <2>1. \A j \in Instances : Finished(j) => Finished(j)'  BY DEF Finished, Same
  <2>2. helper[i].pc = "start" /\ pause[i] # "none"  BY DEF OrderInv, InOrder, NotOvertaken
  <2>3. \A k \in Instances : k > i => proc[k].st = "none"
    BY <2>2 DEF OrderInv, InOrder, NotOvertaken, Finished
  <2>4. \A k \in Instances : proc'[k].st # "none" => ctr' >= k
    BY <2>3 DEF Same, SameProc, Instances
  <2>. QED  BY <2>1, <2>2, <2>4 DEF NotOvertaken, Same, Finished
<1>14. ASSUME NEW i \in Instances, StartReturns(i) PROVE \A k \in Instances : NotOvertaken(k)'
  <2>. USE <1>14, StartReturnsEffect
  <2>1. \A j \in Instances : Finished(j) => Finished(j)'  BY DEF Finished, Same
  <2>2. NotOvertaken(i)'  BY <2>1 DEF OrderInv, InOrder, NotOvertaken, Finished
  <2>. QED  BY <2>1, <2>2, ElsewhereOvertaken
<1>15. ASSUME NEW i \in Instances, StartFails(i) PROVE \A k \in Instances : NotOvertaken(k)'
  <2>. USE <1>15, StartFailsEffect
  <2>1. \A j \in Instances : Finished(j) => Finished(j)'  BY DEF Finished, Same
  <2>2. NotOvertaken(i)'  BY <2>1 DEF OrderInv, InOrder, NotOvertaken, Finished
  <2>. QED  BY <2>1, <2>2, ElsewhereOvertaken
<1>16. ASSUME NEW i \in Instances, StartTimesOut(i) PROVE \A k \in Instances : NotOvertaken(k)'
  <2>. USE <1>16, StartTimesOutEffect
  <2>1. \A j \in Instances : Finished(j) => Finished(j)'  BY DEF Finished, Same
  <2>2. NotOvertaken(i)'  BY <2>1 DEF OrderInv, InOrder, NotOvertaken, Finished
  <2>. QED  BY <2>1, <2>2, ElsewhereOvertaken
<1>17. ASSUME NEW i \in Instances, MarkStarted(i) PROVE \A k \in Instances : NotOvertaken(k)'
  <2>. USE <1>17, MarkStartedEffect
  <2>1. \A j \in Instances : Finished(j) => Finished(j)'  BY DEF Finished, Same
  <2>2. NotOvertaken(i)'  BY <2>1 DEF OrderInv, InOrder, NotOvertaken, Finished
  <2>. QED  BY <2>1, <2>2, ElsewhereOvertaken
<1>18. ASSUME NEW i \in Instances, WaitContainer(i) PROVE \A k \in Instances : NotOvertaken(k)'
  <2>. USE <1>18, WaitContainerEffect
  <2>1. \A j \in Instances : Finished(j) => Finished(j)'  BY DEF Finished, Same
  <2>2. NotOvertaken(i)'  BY <2>1 DEF OrderInv, InOrder, NotOvertaken, Finished
  <2>. QED  BY <2>1, <2>2, ElsewhereOvertaken
<1>19. ASSUME NEW i \in Instances, WaitEnds(i) PROVE \A k \in Instances : NotOvertaken(k)'
  <2>. USE <1>19, WaitEndsEffect
  <2>1. \A j \in Instances : Finished(j) => Finished(j)'  BY DEF Finished, Same
  <2>2. NotOvertaken(i)'  BY <2>1 DEF OrderInv, InOrder, NotOvertaken, Finished
  <2>. QED  BY <2>1, <2>2, ElsewhereOvertaken
<1>20. ASSUME NEW i \in Instances, GuestExitCode(i) PROVE \A k \in Instances : NotOvertaken(k)'
  <2>. USE <1>20, GuestExitCodeEffect
  <2>1. \A j \in Instances : Finished(j) => Finished(j)'  BY DEF Finished, Same
  <2>2. NotOvertaken(i)'  BY <2>1 DEF OrderInv, InOrder, NotOvertaken, Finished
  <2>. QED  BY <2>1, <2>2, ElsewhereOvertaken
<1>21. ASSUME NEW i \in Instances, FinishFiles(i) PROVE \A k \in Instances : NotOvertaken(k)'
  <2>. USE <1>21, FinishFilesEffect
  <2>1. \A j \in Instances : Finished(j) => Finished(j)'  BY DEF Finished, Same
  <2>2. NotOvertaken(i)'  BY <2>1 DEF OrderInv, InOrder, NotOvertaken, Finished
  <2>. QED  BY <2>1, <2>2, ElsewhereOvertaken
<1>22. ASSUME NEW i \in Instances, FinishRead(i) PROVE \A k \in Instances : NotOvertaken(k)'
  <2>. USE <1>22, FinishReadEffect
  <2>1. \A j \in Instances : Finished(j) => Finished(j)'  BY DEF Finished, Same
  <2>2. NotOvertaken(i)'  BY <2>1 DEF OrderInv, InOrder, NotOvertaken, Finished
  <2>. QED  BY <2>1, <2>2, ElsewhereOvertaken
<1>23. ASSUME NEW i \in Instances, FinishWrite(i) PROVE \A k \in Instances : NotOvertaken(k)'
  <2>. USE <1>23, FinishWriteEffect
  <2>1. \A j \in Instances : Finished(j) => Finished(j)'  BY DEF Finished, Same
  <2>2. NotOvertaken(i)'  BY <2>1 DEF OrderInv, InOrder, NotOvertaken, Finished
  <2>. QED  BY <2>1, <2>2, ElsewhereOvertaken
<1>24. ASSUME NEW i \in Instances, ProcExits(i) PROVE \A k \in Instances : NotOvertaken(k)'
  <2>. USE <1>24, ProcExitsEffect
  <2>1. \A j \in Instances : Finished(j) => Finished(j)'  BY DEF Finished, Same
  <2>2. NotOvertaken(i)'  BY <2>1 DEF OrderInv, InOrder, NotOvertaken, Finished, Live
  <2>. QED  BY <2>1, <2>2, ElsewhereOvertaken
<1>25. ASSUME NEW i \in Instances, DoKill(i) PROVE \A k \in Instances : NotOvertaken(k)'
  <2>. USE <1>25, DoKillEffect
  <2>1. \A j \in Instances : Finished(j) => Finished(j)'  BY DEF Finished, Same
  <2>2. ending  OBVIOUS
  <2>3. UNCHANGED <<pause, exits, helper, starting, ctr, proc, ending>>  OBVIOUS
  <2>4. NotOvertaken(i)  OBVIOUS
  <2>5. NotOvertaken(i)'  BY ONLY <2>1, <2>2, <2>3, <2>4 DEF NotOvertaken, Finished
  <2>. QED  BY <2>1, <2>5, ElsewhereOvertaken
<1>26. CASE ShimCrash
  <2>1. \A k \in Instances : Cut(k)  BY <1>26, DisconnectedEffect DEF ShimCrash
  <2>2. \A k \in Instances : proc'[k].st = "none" <=> proc[k].st = "none"
    BY <1>26 DEF ShimCrash, guestVars, Live
  <2>. QED  BY <1>26, <2>1, <2>2 DEF ShimCrash, NotOvertaken, Cut, Finished, guestVars
<1>27. CASE AgentCrash
  <2>1. \A k \in Instances : Cut(k)  BY <1>27, DisconnectedEffect DEF AgentCrash
  <2>2. \A k \in Instances : proc'[k].st = "none" <=> proc[k].st = "none"
    BY <1>27 DEF AgentCrash, guestVars, Live
  <2>. QED  BY <1>27, <2>1, <2>2 DEF AgentCrash, NotOvertaken, Cut, Finished, guestVars
<1>28. CASE VMDies
  <2>1. \A k \in Instances : Cut(k)  BY <1>28, DisconnectedEffect DEF VMDies
  <2>2. \A k \in Instances : proc'[k].st = "none" <=> proc[k].st = "none"
    BY <1>28, VMDiesEffect DEF VMDies, guestVars, Live
  <2>. QED  BY <1>28, <2>1, <2>2 DEF VMDies, NotOvertaken, Cut, Finished, guestVars
<1>29. CASE VMStarts  BY <1>29 DEF VMStarts, NotOvertaken, Finished, hostVars, shimVars, guestVars
<1>30. CASE EndPod  BY <1>30 DEF EndPod, NotOvertaken, Finished, hostVars, shimVars, guestVars
<1>31. CASE RemovePodSandbox
  BY <1>31 DEF RemovePodSandbox, NotOvertaken, Finished, hostVars, shimVars, guestVars
<1>32. CASE UNCHANGED vars
  BY <1>32 DEF vars, NotOvertaken, Finished, hostVars, shimVars, guestVars
<1>33. ASSUME NEW i \in Instances, StartGivenUp(i) PROVE \A k \in Instances : NotOvertaken(k)'
  BY <1>33, StartGivenUpEffect
<1>. QED
  BY <1>1, <1>2, <1>3, <1>4, <1>5, <1>6, <1>7, <1>8, <1>9, <1>10, <1>11, <1>12, <1>13, <1>14,
      <1>15, <1>16, <1>17, <1>18, <1>19, <1>20, <1>21, <1>22, <1>23, <1>24, <1>25, <1>26, <1>27,
      <1>28, <1>29, <1>30, <1>31, <1>32, <1>33
  DEF Next, OciCommand, OciStep, HelperStep, ShimStep

\* 0 stands for no instance.
LEMMA NotZero == \A i \in Instances : i # 0  BY DEF Instances

\* A step elsewhere that keeps the shim's view keeps an instance known.
LEMMA ElsewhereKnown ==
  ASSUME NEW k \in Instances, Known(k), Same(k), ctr' = ctr, ending' = ending,
         \A j \in Instances : Live(j)' => Live(j),
         Reachable /\ shim.ctr # 0 => Reachable' /\ shim'.ctr # 0
  PROVE Known(k)'
<1>1. Live(k)' => Live(k)  OBVIOUS
<1>2. (\A j \in Instances : j < k /\ pause[k] # "none" => ~Live(j))'  BY DEF Known, Same
<1>3. Finished(k)' <=> Finished(k)  BY DEF Finished, Same
<1>. QED  BY <1>1, <1>2, <1>3 DEF Known, Same

\* While the shim and the agent forget nothing, every live process stays known.
LEMMA KnownStep ==
  ASSUME TypeOK, OrderInv, \A k \in Instances : NotOvertaken(k), \A k \in Instances : Known(k),
         [Next]_vars, NoneForgotten'
  PROVE \A k \in Instances : Known(k)'
<1>1. ASSUME NEW i \in Instances, DoCreate(i) PROVE \A k \in Instances : Known(k)'
  <2>. USE <1>1, DoCreateEffect
  <2>1. \A j \in Instances : Live(j)' => Live(j)  BY DEF Live
  <2>2. Reachable /\ shim.ctr # 0 => Reachable' /\ shim'.ctr # 0  BY DEF Reachable
  <2>3. Known(i)'  BY <2>1, <2>2 DEF OrderInv, InOrder, NotOvertaken, Known, Finished, Live
  <2>. QED  BY <2>1, <2>2, <2>3, ElsewhereKnown
<1>2. ASSUME NEW i \in Instances, DoStart(i) PROVE \A k \in Instances : Known(k)'
  <2>. USE <1>2, DoStartEffect
  <2>1. \A j \in Instances : Live(j)' => Live(j)  BY DEF Live
  <2>2. Reachable /\ shim.ctr # 0 => Reachable' /\ shim'.ctr # 0  BY DEF Reachable
  <2>3. Known(i)'  BY <2>1, <2>2 DEF OrderInv, InOrder, NotOvertaken, Known, Finished, Live
  <2>. QED  BY <2>1, <2>2, <2>3, ElsewhereKnown
<1>3. ASSUME NEW i \in Instances, DoState(i) PROVE \A k \in Instances : Known(k)'
  <2>. USE <1>3, DoStateEffect
  <2>1. \A j \in Instances : Live(j)' => Live(j)  BY DEF Live
  <2>2. Reachable /\ shim.ctr # 0 => Reachable' /\ shim'.ctr # 0  BY DEF Reachable
  <2>3. Known(i)'  BY <2>1, <2>2 DEF OrderInv, InOrder, NotOvertaken, Known, Finished
  <2>. QED  BY <2>1, <2>2, <2>3, ElsewhereKnown
<1>4. ASSUME NEW i \in Instances, ApplyStoppedState(i) PROVE \A k \in Instances : Known(k)'
  <2>. USE <1>4, ApplyStoppedStateEffect
  <2>1. \A j \in Instances : Live(j)' => Live(j)  BY DEF Live
  <2>2. Reachable /\ shim.ctr # 0 => Reachable' /\ shim'.ctr # 0  BY DEF Reachable
  <2>3. Known(i)'  BY <2>1, <2>2 DEF OrderInv, InOrder, NotOvertaken, Known, Finished
  <2>. QED  BY <2>1, <2>2, <2>3, ElsewhereKnown
<1>5. ASSUME NEW i \in Instances, KillStopGuest(i) PROVE \A k \in Instances : Known(k)'
  <2>. USE <1>5, KillStopGuestEffect
  <2>1. \A j \in Instances : Live(j)' => Live(j)  BY DEF Live, SameProc
  <2>2. Reachable /\ shim.ctr # 0 => Reachable' /\ shim'.ctr # 0  BY DEF Reachable
  <2>3. Known(i)'  BY <2>1, <2>2 DEF OrderInv, InOrder, NotOvertaken, Known, Finished
  <2>. QED  BY <2>1, <2>2, <2>3, ElsewhereKnown
<1>6. ASSUME NEW i \in Instances, KillSignalPause(i) PROVE \A k \in Instances : Known(k)'
  <2>. USE <1>6, KillSignalPauseEffect
  <2>1. \A j \in Instances : Live(j)' => Live(j)  BY DEF Live
  <2>2. Reachable /\ shim.ctr # 0 => Reachable' /\ shim'.ctr # 0  BY DEF Reachable
  <2>3. Known(i)'  BY <2>1, <2>2 DEF OrderInv, InOrder, NotOvertaken, Known, Finished
  <2>. QED  BY <2>1, <2>2, <2>3, ElsewhereKnown
<1>7. ASSUME NEW i \in Instances, DoDelete(i) PROVE \A k \in Instances : Known(k)'
  <2>. USE <1>7, DoDeleteEffect
  <2>1. \A j \in Instances : Live(j)' => Live(j)  BY DEF Live, SameProc
  <2>2. Reachable /\ shim.ctr # 0 => Reachable' /\ shim'.ctr # 0  BY DEF Reachable
  <2>3. Known(i)'  BY <2>1, <2>2 DEF OrderInv, InOrder, NotOvertaken, Known, Finished
  <2>. QED  BY <2>1, <2>2, <2>3, ElsewhereKnown
<1>8. ASSUME NEW i \in Instances, DeleteRemoveAll(i) PROVE \A k \in Instances : Known(k)'
  <2>. USE <1>8, DeleteRemoveAllEffect
  <2>1. \A j \in Instances : Live(j)' => Live(j)  BY DEF Live
  <2>2. Reachable /\ shim.ctr # 0 => Reachable' /\ shim'.ctr # 0  BY DEF Reachable
  <2>3. Known(i)'  BY <2>1, <2>2 DEF OrderInv, InOrder, NotOvertaken, Known, Finished
  <2>. QED  BY <2>1, <2>2, <2>3, ElsewhereKnown
<1>9. ASSUME NEW i \in Instances, PauseExit(i) PROVE \A k \in Instances : Known(k)'
  <2>. USE <1>9, PauseExitEffect
  <2>1. \A j \in Instances : Live(j)' => Live(j)  BY DEF Live
  <2>2. Reachable /\ shim.ctr # 0 => Reachable' /\ shim'.ctr # 0  BY DEF Reachable
  <2>3. Known(i)'  BY <2>1, <2>2 DEF OrderInv, InOrder, NotOvertaken, Known, Finished
  <2>. QED  BY <2>1, <2>2, <2>3, ElsewhereKnown
<1>10. ASSUME NEW i \in Instances, RunPodSandbox(i) PROVE \A k \in Instances : Known(k)'
  <2>. USE <1>10, RunPodSandboxEffect
  <2>1. \A j \in Instances : Live(j)' => Live(j)  BY DEF Live
  <2>2. Reachable /\ shim.ctr # 0 => Reachable' /\ shim'.ctr # 0  BY DEF Reachable
  <2>3. Known(i)'  BY <2>1, <2>2 DEF OrderInv, InOrder, NotOvertaken, Known, Finished, Live
  <2>. QED  BY <2>1, <2>2, <2>3, ElsewhereKnown
<1>11. ASSUME NEW i \in Instances, CreateContainer(i) PROVE \A k \in Instances : Known(k)'
  <2>. USE <1>11, CreateContainerEffect
  <2>1. \A j \in Instances : Live(j)' => Live(j)  BY DEF Live
  <2>2. Reachable /\ shim.ctr # 0 => Reachable' /\ shim'.ctr # 0  BY NotZero DEF Reachable
  <2>3. Known(i)'  BY <2>1, <2>2 DEF OrderInv, InOrder, NotOvertaken, Known, Finished, Live
  <2>. QED  BY <2>1, <2>2, <2>3, ElsewhereKnown
<1>12. ASSUME NEW i \in Instances, CallStartContainer(i) PROVE \A k \in Instances : Known(k)'
  <2>. USE <1>12, CallStartContainerEffect
  <2>1. \A j \in Instances : Live(j)' => Live(j)  BY DEF Live
  <2>2. Reachable /\ shim.ctr # 0 => Reachable' /\ shim'.ctr # 0  BY DEF Reachable
  <2>3. Known(i)'  BY <2>1, <2>2 DEF OrderInv, InOrder, NotOvertaken, Known, Finished, Live
  <2>. QED  BY <2>1, <2>2, <2>3, ElsewhereKnown
<1>13. ASSUME NEW i \in Instances, Start(i) PROVE \A k \in Instances : Known(k)'
  <2>. USE <1>13, StartEffect
  <2>1. Reachable /\ shim.ctr # 0 => Reachable' /\ shim'.ctr # 0  BY DEF Reachable
  <2>2. helper[i].pc = "start" /\ pause[i] # "none"  BY DEF OrderInv, InOrder, NotOvertaken
  <2>3. \A k \in Instances : k > i => pause[k] = "none" /\ proc[k].st = "none"
    BY <2>2 DEF OrderInv, InOrder, NotOvertaken, Finished
  <2>4. \A k \in Instances \ {i} : ~Live(k) /\ ~Live(k)'
    BY <2>2, <2>3 DEF Known, Live, Same, SameProc, Instances
  <2>5. Known(i)'  BY <2>1, <2>2, <2>4 DEF Known, Finished, Instances
  <2>6. ASSUME NEW k \in Instances \ {i} PROVE Known(k)'
    BY <2>1, <2>3, <2>4 DEF Known, Same, Instances
  <2>. QED  BY <2>5, <2>6
<1>14. ASSUME NEW i \in Instances, StartReturns(i) PROVE \A k \in Instances : Known(k)'
  <2>. USE <1>14, StartReturnsEffect
  <2>1. \A j \in Instances : Live(j)' => Live(j)  BY DEF Live
  <2>2. Reachable /\ shim.ctr # 0 => Reachable' /\ shim'.ctr # 0  BY DEF Reachable
  <2>3. Known(i)'  BY <2>1, <2>2 DEF OrderInv, InOrder, NotOvertaken, Known, Finished
  <2>. QED  BY <2>1, <2>2, <2>3, ElsewhereKnown
<1>15. ASSUME NEW i \in Instances, StartFails(i) PROVE \A k \in Instances : Known(k)'
  <2>. USE <1>15, StartFailsEffect
  <2>1. \A j \in Instances : Live(j)' => Live(j)  BY DEF Live
  <2>2. Reachable /\ shim.ctr # 0 => Reachable' /\ shim'.ctr # 0  BY DEF Reachable
  <2>3. Known(i)'  BY <2>1, <2>2 DEF OrderInv, InOrder, NotOvertaken, Known, Finished, Live
  <2>. QED  BY <2>1, <2>2, <2>3, ElsewhereKnown
<1>16. ASSUME NEW i \in Instances, StartTimesOut(i) PROVE \A k \in Instances : Known(k)'
  <2>. USE <1>16, StartTimesOutEffect
  <2>1. \A j \in Instances : Live(j)' => Live(j)  BY DEF Live
  <2>2. Reachable /\ shim.ctr # 0 => Reachable' /\ shim'.ctr # 0  BY DEF Reachable
  <2>3. Known(i)'
    BY <2>1, <2>2 DEF OrderInv, InOrder, NotOvertaken, Known, Finished, NoneForgotten
  <2>. QED  BY <2>1, <2>2, <2>3, ElsewhereKnown
<1>17. ASSUME NEW i \in Instances, MarkStarted(i) PROVE \A k \in Instances : Known(k)'
  <2>. USE <1>17, MarkStartedEffect
  <2>1. \A j \in Instances : Live(j)' => Live(j)  BY DEF Live
  <2>2. Reachable /\ shim.ctr # 0 => Reachable' /\ shim'.ctr # 0  BY DEF Reachable
  <2>3. Known(i)'  BY <2>1, <2>2 DEF OrderInv, InOrder, NotOvertaken, Known, Finished
  <2>. QED  BY <2>1, <2>2, <2>3, ElsewhereKnown
<1>18. ASSUME NEW i \in Instances, WaitContainer(i) PROVE \A k \in Instances : Known(k)'
  <2>. USE <1>18, WaitContainerEffect
  <2>1. \A j \in Instances : Live(j)' => Live(j)  BY DEF Live
  <2>2. Reachable /\ shim.ctr # 0 => Reachable' /\ shim'.ctr # 0  BY DEF Reachable
  <2>3. ~ending => dir[i].criid  BY DEF OrderInv, InOrder, NotOvertaken, Finished
  <2>4. ~ending /\ Live(i) => shim.ctr # 0 /\ Answers /\ ctr = i  BY NotZero DEF Known, Answers
  <2>5. Known(i)'  BY <2>1, <2>2, <2>3, <2>4 DEF Known, Finished
  <2>. QED  BY <2>1, <2>2, <2>5, ElsewhereKnown
<1>19. ASSUME NEW i \in Instances, WaitEnds(i) PROVE \A k \in Instances : Known(k)'
  <2>. USE <1>19, WaitEndsEffect
  <2>1. \A j \in Instances : Live(j)' => Live(j)  BY DEF Live
  <2>2. Reachable /\ shim.ctr # 0 => Reachable' /\ shim'.ctr # 0  BY DEF Reachable
  <2>3. Known(i)'  BY <2>1, <2>2 DEF OrderInv, InOrder, NotOvertaken, Known, Finished
  <2>. QED  BY <2>1, <2>2, <2>3, ElsewhereKnown
<1>20. ASSUME NEW i \in Instances, GuestExitCode(i) PROVE \A k \in Instances : Known(k)'
  <2>. USE <1>20, GuestExitCodeEffect
  <2>1. \A j \in Instances : Live(j)' => Live(j)  BY DEF Live
  <2>2. Reachable /\ shim.ctr # 0 => Reachable' /\ shim'.ctr # 0  BY DEF Reachable
  <2>3. Known(i)'  BY <2>1, <2>2 DEF OrderInv, InOrder, NotOvertaken, Known, Finished
  <2>. QED  BY <2>1, <2>2, <2>3, ElsewhereKnown
<1>21. ASSUME NEW i \in Instances, FinishFiles(i) PROVE \A k \in Instances : Known(k)'
  <2>. USE <1>21, FinishFilesEffect
  <2>1. \A j \in Instances : Live(j)' => Live(j)  BY DEF Live
  <2>2. Reachable /\ shim.ctr # 0 => Reachable' /\ shim'.ctr # 0  BY DEF Reachable
  <2>3. Known(i)'  BY <2>1, <2>2 DEF OrderInv, InOrder, NotOvertaken, Known, Finished
  <2>. QED  BY <2>1, <2>2, <2>3, ElsewhereKnown
<1>22. ASSUME NEW i \in Instances, FinishRead(i) PROVE \A k \in Instances : Known(k)'
  <2>. USE <1>22, FinishReadEffect
  <2>1. \A j \in Instances : Live(j)' => Live(j)  BY DEF Live
  <2>2. Reachable /\ shim.ctr # 0 => Reachable' /\ shim'.ctr # 0  BY DEF Reachable
  <2>3. Known(i)'  BY <2>1, <2>2 DEF OrderInv, InOrder, NotOvertaken, Known, Finished
  <2>. QED  BY <2>1, <2>2, <2>3, ElsewhereKnown
<1>23. ASSUME NEW i \in Instances, FinishWrite(i) PROVE \A k \in Instances : Known(k)'
  <2>. USE <1>23, FinishWriteEffect
  <2>1. \A j \in Instances : Live(j)' => Live(j)  BY DEF Live
  <2>2. Reachable /\ shim.ctr # 0 => Reachable' /\ shim'.ctr # 0  BY DEF Reachable
  <2>3. Known(i)'  BY <2>1, <2>2 DEF OrderInv, InOrder, NotOvertaken, Known, Finished
  <2>. QED  BY <2>1, <2>2, <2>3, ElsewhereKnown
<1>24. ASSUME NEW i \in Instances, ProcExits(i) PROVE \A k \in Instances : Known(k)'
  <2>. USE <1>24, ProcExitsEffect
  <2>1. \A j \in Instances : Live(j)' => Live(j)  BY DEF Live, Same, SameProc
  <2>2. Reachable /\ shim.ctr # 0 => Reachable' /\ shim'.ctr # 0  BY DEF Reachable
  <2>3. Known(i)'  BY <2>1, <2>2 DEF OrderInv, InOrder, NotOvertaken, Known, Finished
  <2>. QED  BY <2>1, <2>2, <2>3, ElsewhereKnown
<1>25. ASSUME NEW i \in Instances, DoKill(i) PROVE \A k \in Instances : Known(k)'
  <2>. USE <1>25, DoKillEffect
  <2>1. \A j \in Instances : Live(j)' => Live(j)  BY DEF Live
  <2>2. Reachable /\ shim.ctr # 0 => Reachable' /\ shim'.ctr # 0  BY DEF Reachable
  <2>3. Known(i)'  BY <2>1, <2>2 DEF OrderInv, InOrder, NotOvertaken, Known, Finished
  <2>. QED  BY <2>1, <2>2, <2>3, ElsewhereKnown
<1>26. CASE ShimCrash
  <2>1. ~NoneForgotten'
    BY <1>26, SpendEffect, FaultsAssumption DEF ShimCrash, TypeOK, Budgets, NoneForgotten
  <2>. QED  BY <2>1
<1>27. CASE AgentCrash
  <2>1. ~NoneForgotten'
    BY <1>27, SpendEffect, FaultsAssumption DEF AgentCrash, TypeOK, Budgets, NoneForgotten
  <2>. QED  BY <2>1
<1>28. CASE VMDies
  <2>1. \A k \in Instances : Cut(k) /\ ~Live(k)'
    BY <1>28, DisconnectedEffect, VMDiesEffect DEF VMDies
  <2>. QED  BY <2>1 DEF Known, Cut, NotOvertaken
<1>29. CASE VMStarts
  <2>1. \A k \in Instances : starting[k].pc = "none" /\ ~Live(k)
    BY <1>29 DEF VMStarts, Known, Reachable
  <2>. QED  BY <1>29, <2>1 DEF VMStarts, Known, Live, hostVars, shimVars
<1>30. CASE EndPod
  BY <1>30 DEF EndPod, Known, Reachable, Live, Finished, hostVars, shimVars, guestVars
<1>31. CASE RemovePodSandbox
  BY <1>31 DEF RemovePodSandbox, Known, Reachable, Live, Finished, hostVars, shimVars, guestVars
<1>32. CASE UNCHANGED vars
  BY <1>32 DEF vars, Known, Reachable, Live, Finished, hostVars, shimVars, guestVars
<1>33. ASSUME NEW i \in Instances, StartGivenUp(i) PROVE \A k \in Instances : Known(k)'
  BY <1>33, StartGivenUpEffect DEF NoneForgotten
<1>. QED
  BY <1>1, <1>2, <1>3, <1>4, <1>5, <1>6, <1>7, <1>8, <1>9, <1>10, <1>11, <1>12, <1>13, <1>14,
      <1>15, <1>16, <1>17, <1>18, <1>19, <1>20, <1>21, <1>22, <1>23, <1>24, <1>25, <1>26, <1>27,
      <1>28, <1>29, <1>30, <1>31, <1>32, <1>33
  DEF Next, OciCommand, OciStep, HelperStep, ShimStep

\* A step elsewhere that keeps the shim's view keeps the exit code on its way.
LEMMA ElsewhereKept ==
  ASSUME NEW k \in Instances, CodeKept(k), Same(k), ctr' = ctr,
         Reachable /\ shim.ctr # 0 => Reachable' /\ shim'.ctr # 0
  PROVE CodeKept(k)'
<1>1. Finished(k)' <=> Finished(k)  BY DEF Finished, Same
<1>. QED  BY <1>1 DEF CodeKept, Same, SameProc

\* While VM and Pod live on, every step keeps the exit code on its way.
LEMMA CodeStep ==
  ASSUME TypeOK, OrderInv, \A k \in Instances : NotOvertaken(k), \A k \in Instances : Known(k), \A
         k \in Instances : CodeKept(k), [Next]_vars, NoneForgotten', budget'.vm = MaxVMDeaths,
         ~ending'
  PROVE \A k \in Instances : CodeKept(k)'
<1>1. ASSUME NEW i \in Instances, DoCreate(i) PROVE \A k \in Instances : CodeKept(k)'
  <2>. USE <1>1, DoCreateEffect
  <2>1. Reachable /\ shim.ctr # 0 => Reachable' /\ shim'.ctr # 0  BY DEF Reachable
  <2>2. CodeKept(i)'  BY <2>1 DEF OrderInv, InOrder, NotOvertaken, Known, Finished, CodeKept
  <2>. QED  BY <2>1, <2>2, ElsewhereKept
<1>2. ASSUME NEW i \in Instances, DoStart(i) PROVE \A k \in Instances : CodeKept(k)'
  <2>. USE <1>2, DoStartEffect
  <2>1. Reachable /\ shim.ctr # 0 => Reachable' /\ shim'.ctr # 0  BY DEF Reachable
  <2>2. CodeKept(i)'  BY <2>1 DEF OrderInv, InOrder, NotOvertaken, Known, Finished, CodeKept
  <2>. QED  BY <2>1, <2>2, ElsewhereKept
<1>3. ASSUME NEW i \in Instances, DoState(i) PROVE \A k \in Instances : CodeKept(k)'
  <2>. USE <1>3, DoStateEffect
  <2>1. Reachable /\ shim.ctr # 0 => Reachable' /\ shim'.ctr # 0  BY DEF Reachable
  <2>2. CodeKept(i)'  BY <2>1 DEF OrderInv, InOrder, NotOvertaken, Known, Finished, CodeKept
  <2>. QED  BY <2>1, <2>2, ElsewhereKept
<1>4. ASSUME NEW i \in Instances, ApplyStoppedState(i) PROVE \A k \in Instances : CodeKept(k)'
  <2>. USE <1>4, ApplyStoppedStateEffect
  <2>1. Reachable /\ shim.ctr # 0 => Reachable' /\ shim'.ctr # 0  BY DEF Reachable
  <2>2. CodeKept(i)'
    BY <2>1 DEF OrderInv, InOrder, NotOvertaken, Known, Finished, CodeKept, SameFiles
  <2>. QED  BY <2>1, <2>2, ElsewhereKept
<1>5. ASSUME NEW i \in Instances, KillStopGuest(i) PROVE \A k \in Instances : CodeKept(k)'
  <2>. USE <1>5, KillStopGuestEffect
  <2>1. Reachable /\ shim.ctr # 0 => Reachable' /\ shim'.ctr # 0  BY DEF Reachable
  <2>2. CodeKept(i)'
    BY <2>1 DEF OrderInv, InOrder, NotOvertaken, Known, Finished, CodeKept, SameProc
  <2>. QED  BY <2>1, <2>2, ElsewhereKept
<1>6. ASSUME NEW i \in Instances, KillSignalPause(i) PROVE \A k \in Instances : CodeKept(k)'
  <2>. USE <1>6, KillSignalPauseEffect
  <2>1. Reachable /\ shim.ctr # 0 => Reachable' /\ shim'.ctr # 0  BY DEF Reachable
  <2>2. CodeKept(i)'  BY <2>1 DEF OrderInv, InOrder, NotOvertaken, Known, Finished, CodeKept
  <2>. QED  BY <2>1, <2>2, ElsewhereKept
<1>7. ASSUME NEW i \in Instances, DoDelete(i) PROVE \A k \in Instances : CodeKept(k)'
  <2>. USE <1>7, DoDeleteEffect
  <2>1. Reachable /\ shim.ctr # 0 => Reachable' /\ shim'.ctr # 0  BY DEF Reachable
  <2>2. CodeKept(i)'
    BY <2>1 DEF OrderInv, InOrder, NotOvertaken, Known, Finished, CodeKept, SameProc
  <2>. QED  BY <2>1, <2>2, ElsewhereKept
<1>8. ASSUME NEW i \in Instances, DeleteRemoveAll(i) PROVE \A k \in Instances : CodeKept(k)'
  <2>. USE <1>8, DeleteRemoveAllEffect
  <2>1. Reachable /\ shim.ctr # 0 => Reachable' /\ shim'.ctr # 0  BY DEF Reachable
  <2>2. CodeKept(i)'
    BY <2>1 DEF OrderInv, InOrder, NotOvertaken, Known, Finished, CodeKept, NoDir
  <2>. QED  BY <2>1, <2>2, ElsewhereKept
<1>9. ASSUME NEW i \in Instances, PauseExit(i) PROVE \A k \in Instances : CodeKept(k)'
  <2>. USE <1>9, PauseExitEffect
  <2>1. Reachable /\ shim.ctr # 0 => Reachable' /\ shim'.ctr # 0  BY DEF Reachable
  <2>2. CodeKept(i)'  BY <2>1 DEF OrderInv, InOrder, NotOvertaken, Known, Finished, CodeKept
  <2>. QED  BY <2>1, <2>2, ElsewhereKept
<1>10. ASSUME NEW i \in Instances, RunPodSandbox(i) PROVE \A k \in Instances : CodeKept(k)'
  <2>. USE <1>10, RunPodSandboxEffect
  <2>1. Reachable /\ shim.ctr # 0 => Reachable' /\ shim'.ctr # 0  BY DEF Reachable
  <2>2. CodeKept(i)'  BY <2>1 DEF OrderInv, InOrder, NotOvertaken, Known, Finished, CodeKept
  <2>. QED  BY <2>1, <2>2, ElsewhereKept
<1>11. ASSUME NEW i \in Instances, CreateContainer(i) PROVE \A k \in Instances : CodeKept(k)'
  <2>. USE <1>11, CreateContainerEffect
  <2>1. Reachable /\ shim.ctr # 0 => Reachable' /\ shim'.ctr # 0  BY NotZero DEF Reachable
  <2>2. CodeKept(i)'  BY <2>1 DEF OrderInv, InOrder, NotOvertaken, Known, Finished, CodeKept
  <2>. QED  BY <2>1, <2>2, ElsewhereKept
<1>12. ASSUME NEW i \in Instances, CallStartContainer(i) PROVE \A k \in Instances : CodeKept(k)'
  <2>. USE <1>12, CallStartContainerEffect
  <2>1. Reachable /\ shim.ctr # 0 => Reachable' /\ shim'.ctr # 0  BY DEF Reachable
  <2>2. CodeKept(i)'  BY <2>1 DEF OrderInv, InOrder, NotOvertaken, Known, Finished, CodeKept
  <2>. QED  BY <2>1, <2>2, ElsewhereKept
<1>13. ASSUME NEW i \in Instances, Start(i) PROVE \A k \in Instances : CodeKept(k)'
  <2>. USE <1>13, StartEffect
  <2>1. Reachable /\ shim.ctr # 0 => Reachable' /\ shim'.ctr # 0  BY DEF Reachable
  <2>2. helper[i].pc = "start" /\ pause[i] # "none" /\ dir[i].exitcode = NoCode
    BY DEF OrderInv, InOrder, NotOvertaken, Finished
  <2>3. \A k \in Instances : k > i => proc[k].st = "none"
    BY <2>2 DEF OrderInv, InOrder, NotOvertaken, Finished
  <2>4. \A k \in Instances : k < i => Finished(k)  BY <2>2 DEF NotOvertaken
  <2>5. CodeKept(i)'  BY <2>1, <2>2 DEF CodeKept, Known
  <2>6. ASSUME NEW k \in Instances \ {i} PROVE CodeKept(k)'
    BY <2>3, <2>4 DEF CodeKept, Same, SameProc, Finished, Instances
  <2>. QED  BY <2>5, <2>6
<1>14. ASSUME NEW i \in Instances, StartReturns(i) PROVE \A k \in Instances : CodeKept(k)'
  <2>. USE <1>14, StartReturnsEffect
  <2>1. Reachable /\ shim.ctr # 0 => Reachable' /\ shim'.ctr # 0  BY DEF Reachable
  <2>2. CodeKept(i)'  BY <2>1 DEF OrderInv, InOrder, NotOvertaken, Known, Finished, CodeKept
  <2>. QED  BY <2>1, <2>2, ElsewhereKept
<1>15. ASSUME NEW i \in Instances, StartFails(i) PROVE \A k \in Instances : CodeKept(k)'
  <2>. USE <1>15, StartFailsEffect
  <2>1. Reachable /\ shim.ctr # 0 => Reachable' /\ shim'.ctr # 0  BY DEF Reachable
  <2>2. CodeKept(i)'  BY <2>1 DEF OrderInv, InOrder, NotOvertaken, Known, Finished, CodeKept
  <2>. QED  BY <2>1, <2>2, ElsewhereKept
<1>16. ASSUME NEW i \in Instances, StartTimesOut(i) PROVE \A k \in Instances : CodeKept(k)'
  <2>. USE <1>16, StartTimesOutEffect
  <2>1. Reachable /\ shim.ctr # 0 => Reachable' /\ shim'.ctr # 0  BY DEF Reachable
  <2>2. CodeKept(i)'
    BY <2>1 DEF OrderInv, InOrder, NotOvertaken, Known, Finished, CodeKept, NoneForgotten
  <2>. QED  BY <2>1, <2>2, ElsewhereKept
<1>17. ASSUME NEW i \in Instances, MarkStarted(i) PROVE \A k \in Instances : CodeKept(k)'
  <2>. USE <1>17, MarkStartedEffect
  <2>1. Reachable /\ shim.ctr # 0 => Reachable' /\ shim'.ctr # 0  BY DEF Reachable
  <2>2. CodeKept(i)'  BY <2>1 DEF OrderInv, InOrder, NotOvertaken, Known, Finished, CodeKept
  <2>. QED  BY <2>1, <2>2, ElsewhereKept
<1>18. ASSUME NEW i \in Instances, WaitContainer(i) PROVE \A k \in Instances : CodeKept(k)'
  <2>. USE <1>18, WaitContainerEffect
  <2>1. Reachable /\ shim.ctr # 0 => Reachable' /\ shim'.ctr # 0  BY DEF Reachable
  <2>2. CodeKept(i)'  BY <2>1 DEF OrderInv, InOrder, NotOvertaken, Known, Finished, CodeKept
  <2>. QED  BY <2>1, <2>2, ElsewhereKept
<1>19. ASSUME NEW i \in Instances, WaitEnds(i) PROVE \A k \in Instances : CodeKept(k)'
  <2>. USE <1>19, WaitEndsEffect
  <2>1. Reachable /\ shim.ctr # 0 => Reachable' /\ shim'.ctr # 0  BY DEF Reachable
  <2>2. CodeKept(i)'  BY <2>1 DEF OrderInv, InOrder, NotOvertaken, Known, Finished, CodeKept
  <2>. QED  BY <2>1, <2>2, ElsewhereKept
<1>20. ASSUME NEW i \in Instances, GuestExitCode(i) PROVE \A k \in Instances : CodeKept(k)'
  <2>. USE <1>20, GuestExitCodeEffect
  <2>1. Reachable /\ shim.ctr # 0 => Reachable' /\ shim'.ctr # 0  BY DEF Reachable
  <2>2. proc[i].st # "none" => /\ ~Live(i) /\ proc[i].st = "dead"
                              /\ helper'[i].code = proc[i].code
    <3>1. proc[i].st \in {"none", "live", "term", "dead"}  BY DEF TypeOK, Procs
    <3>2. proc[i].st # "none" => ~Live(i) /\ ctr = i /\ Answers /\ shim.ctr # 0
      BY NotZero DEF CodeKept, Known, Finished, Answers
    <3>. QED  BY <3>1, <3>2 DEF Live
  <2>3. CodeKept(i)'  BY <2>1, <2>2 DEF CodeKept, Finished
  <2>. QED  BY <2>1, <2>3, ElsewhereKept
<1>21. ASSUME NEW i \in Instances, FinishFiles(i) PROVE \A k \in Instances : CodeKept(k)'
  <2>. USE <1>21, FinishFilesEffect
  <2>1. Reachable /\ shim.ctr # 0 => Reachable' /\ shim'.ctr # 0  BY DEF Reachable
  <2>2. CodeKept(i)'  BY <2>1 DEF OrderInv, InOrder, NotOvertaken, Known, Finished, CodeKept
  <2>. QED  BY <2>1, <2>2, ElsewhereKept
<1>22. ASSUME NEW i \in Instances, FinishRead(i) PROVE \A k \in Instances : CodeKept(k)'
  <2>. USE <1>22, FinishReadEffect
  <2>1. Reachable /\ shim.ctr # 0 => Reachable' /\ shim'.ctr # 0  BY DEF Reachable
  <2>2. CodeKept(i)'  BY <2>1 DEF OrderInv, InOrder, NotOvertaken, Known, Finished, CodeKept
  <2>. QED  BY <2>1, <2>2, ElsewhereKept
<1>23. ASSUME NEW i \in Instances, FinishWrite(i) PROVE \A k \in Instances : CodeKept(k)'
  <2>. USE <1>23, FinishWriteEffect
  <2>1. Reachable /\ shim.ctr # 0 => Reachable' /\ shim'.ctr # 0  BY DEF Reachable
  <2>2. CodeKept(i)'
    BY <2>1 DEF OrderInv, InOrder, NotOvertaken, Known, Finished, CodeKept, SameFiles
  <2>. QED  BY <2>1, <2>2, ElsewhereKept
<1>24. ASSUME NEW i \in Instances, ProcExits(i) PROVE \A k \in Instances : CodeKept(k)'
  <2>. USE <1>24, ProcExitsEffect
  <2>1. Reachable /\ shim.ctr # 0 => Reachable' /\ shim'.ctr # 0  BY DEF Reachable
  <2>2. CodeKept(i)'  BY <2>1 DEF OrderInv, InOrder, NotOvertaken, Known, Finished, CodeKept, Live
  <2>. QED  BY <2>1, <2>2, ElsewhereKept
<1>25. ASSUME NEW i \in Instances, DoKill(i) PROVE \A k \in Instances : CodeKept(k)'
  <2>. USE <1>25, DoKillEffect
  <2>1. Reachable /\ shim.ctr # 0 => Reachable' /\ shim'.ctr # 0  BY DEF Reachable
  <2>2. CodeKept(i)'  BY <2>1 DEF OrderInv, InOrder, NotOvertaken, Known, Finished, CodeKept
  <2>. QED  BY <2>1, <2>2, ElsewhereKept
<1>26. CASE ShimCrash
  <2>1. ~(NoneForgotten' /\ budget'.vm = MaxVMDeaths)
    BY <1>26, SpendEffect, FaultsAssumption DEF ShimCrash, TypeOK, Budgets, NoneForgotten
  <2>. QED  BY <2>1
<1>27. CASE AgentCrash
  <2>1. ~(NoneForgotten' /\ budget'.vm = MaxVMDeaths)
    BY <1>27, SpendEffect, FaultsAssumption DEF AgentCrash, TypeOK, Budgets, NoneForgotten
  <2>. QED  BY <2>1
<1>28. CASE VMDies
  <2>1. ~(NoneForgotten' /\ budget'.vm = MaxVMDeaths)
    BY <1>28, SpendEffect, FaultsAssumption DEF VMDies, TypeOK, Budgets, NoneForgotten
  <2>. QED  BY <2>1
<1>29. CASE VMStarts  BY <1>29 DEF VMStarts, CodeKept, Reachable, Finished, hostVars, shimVars
<1>30. CASE EndPod
  BY <1>30 DEF EndPod, CodeKept, Reachable, Finished, hostVars, shimVars, guestVars
<1>31. CASE RemovePodSandbox
  BY <1>31 DEF RemovePodSandbox, CodeKept, Reachable, Finished, hostVars, shimVars, guestVars
<1>32. CASE UNCHANGED vars
  BY <1>32 DEF vars, CodeKept, Reachable, Finished, hostVars, shimVars, guestVars
<1>33. ASSUME NEW i \in Instances, StartGivenUp(i) PROVE \A k \in Instances : CodeKept(k)'
  BY <1>33, StartGivenUpEffect DEF NoneForgotten
<1>. QED
  BY <1>1, <1>2, <1>3, <1>4, <1>5, <1>6, <1>7, <1>8, <1>9, <1>10, <1>11, <1>12, <1>13, <1>14,
      <1>15, <1>16, <1>17, <1>18, <1>19, <1>20, <1>21, <1>22, <1>23, <1>24, <1>25, <1>26, <1>27,
      <1>28, <1>29, <1>30, <1>31, <1>32, <1>33
  DEF Next, OciCommand, OciStep, HelperStep, ShimStep
-----------------------------------------------------------------------------
(* ContainerRuntime.                                                       *)

\* What a step leaves alone looks the same to CRI-O: a SIGTERM does not show.
LEMMA SameSeen ==
  ASSUME NEW k \in Instances, Same(k)
  PROVE Phase(k)' = Phase(k) /\ Process(k)' = Process(k)
<1>1. Phase(k)' = Phase(k)  BY DEF Same, Phase
<1>2. Process(k)' = Process(k)  BY DEF Same, SameProc, Process, Live
<1>. QED  BY <1>1, <1>2

\* A step that CRI-O does not see is a stutter of ContainerRuntime.
LEMMA Stutter ==
  ASSUME \A k \in Instances : Phase(k)' = Phase(k) /\ Process(k)' = Process(k), exits' = exits
  PROVE [Runtime!CNext]_(Runtime!cvars)
  BY DEF Runtime!cvars

\* An operation of ContainerRuntime is a step of it.
LEMMA RuntimeStep ==
  ASSUME \/ \E i \in Instances : \/ Runtime!Create(i) \/ Runtime!Run(i) \/ Runtime!Launch(i)
                                 \/ Runtime!Stop(i) \/ Runtime!Report(i) \/ Runtime!Remove(i)
                                 \/ Runtime!Linger(i)
         \/ \E S \in SUBSET Instances : Runtime!End(S)
  PROVE [Runtime!CNext]_(Runtime!cvars)
  BY DEF Runtime!CNext, Runtime!cvars, Runtime!Ids, Instances

\* A phase that changes alone is an update of the phases...
LEMMA PhaseMoves ==
  ASSUME NEW i \in Instances, NEW s, Phase(i)' = s,
         \A k \in Instances \ {i} : Phase(k)' = Phase(k)
  PROVE [k \in Instances |-> Phase(k)]' = [[k \in Instances |-> Phase(k)] EXCEPT ![i] = s]
  OBVIOUS

\* ...as is a process that changes alone...
LEMMA ProcessMoves ==
  ASSUME NEW i \in Instances, NEW s, Process(i)' = s,
         \A k \in Instances \ {i} : Process(k)' = Process(k)
  PROVE [k \in Instances |-> Process(k)]' = [[k \in Instances |-> Process(k)] EXCEPT ![i] = s]
  OBVIOUS

\* ...and an exit code that is reported.
LEMMA CodeReported ==
  ASSUME TypeOK, TypeOK', NEW i \in Instances, exits'[i] # NoCode,
         \A k \in Instances \ {i} : Same(k)
  PROVE \E c \in 0..255 : exits' = [exits EXCEPT ![i] = c]
<1>1. exits \in [Instances -> Bytes \cup {NoCode}]  BY DEF TypeOK
<1>2. exits' \in [Instances -> Bytes \cup {NoCode}]  BY DEF TypeOK
<1>3. exits'[i] \in 0..255  BY <1>2 DEF Bytes
<1>4. exits' = [exits EXCEPT ![i] = exits'[i]]  BY <1>1, <1>2 DEF Same
<1>. QED  BY <1>3, <1>4

\* Every step is one of ContainerRuntime or hidden from it.
LEMMA ImplementsStep ==
  ASSUME TypeOK, OrderInv, [Next]_vars
  PROVE [Runtime!CNext]_(Runtime!cvars)
<1>. USE SameSeen
<1>t. TypeOK'  BY TypeStep
<1>1. ASSUME NEW i \in Instances, DoCreate(i) PROVE [Runtime!CNext]_(Runtime!cvars)
  <2>. USE <1>1, DoCreateEffect
  <2>1. Phase(i) = "absent" /\ Phase(i)' = "created" /\ Process(i)' = Process(i)
    BY DEF Phase, Process, Live
  <2>2. \A j \in 1..(i - 1) : exits[j] # NoCode  BY DEF DoCreate, SeenExited
  <2>3. Runtime!Create(i)  BY <2>1, <2>2, PhaseMoves DEF Runtime!Create
  <2>. QED  BY <2>3, RuntimeStep
<1>2. ASSUME NEW i \in Instances, DoStart(i) PROVE [Runtime!CNext]_(Runtime!cvars)
  <2>. USE <1>2, DoStartEffect
  <2>1. Phase(i) = "created" /\ Phase(i)' = "running" /\ Process(i)' = Process(i)
    BY DEF Phase, Process, Live
  <2>2. Runtime!Run(i)  BY <2>1, PhaseMoves DEF Runtime!Run
  <2>. QED  BY <2>2, RuntimeStep
<1>3. ASSUME NEW i \in Instances, DoState(i) PROVE [Runtime!CNext]_(Runtime!cvars)
  <2>. USE <1>3, DoStateEffect
  <2>1. Phase(i)' = Phase(i) /\ Process(i)' = Process(i)  BY DEF Phase, Process, Live
  <2>. QED  BY <2>1, Stutter
<1>4. ASSUME NEW i \in Instances, ApplyStoppedState(i) PROVE [Runtime!CNext]_(Runtime!cvars)
  <2>. USE <1>4, ApplyStoppedStateEffect
  <2>1. /\ Phase(i) = dir[i].st /\ dir[i].st \in {"running", "stopped"}
        /\ Phase(i)' = "stopped" /\ Process(i)' = Process(i)
    BY DEF OrderInv, InOrder, Phase, Process, Live
  <2>2. CASE Phase(i) = "stopped"  BY <2>1, <2>2, Stutter
  <2>3. CASE Phase(i) = "running"
    <3>1. Runtime!Stop(i)  BY <2>1, <2>3, PhaseMoves DEF Runtime!Stop
    <3>. QED  BY <3>1, RuntimeStep
  <2>. QED  BY <2>1, <2>2, <2>3
<1>5. ASSUME NEW i \in Instances, KillStopGuest(i) PROVE [Runtime!CNext]_(Runtime!cvars)
  <2>. USE <1>5, KillStopGuestEffect
  <2>1. Phase(i)' = Phase(i) /\ Process(i)' = Process(i)  BY DEF Phase, Process, Live, SameProc
  <2>. QED  BY <2>1, Stutter
<1>6. ASSUME NEW i \in Instances, KillSignalPause(i) PROVE [Runtime!CNext]_(Runtime!cvars)
  <2>. USE <1>6, KillSignalPauseEffect
  <2>1. /\ Phase(i) = dir[i].st /\ dir[i].st \in {"running", "stopped"}
        /\ Phase(i)' = "stopped" /\ Process(i)' = Process(i)
    BY DEF OrderInv, InOrder, Phase, Process, Live
  <2>2. CASE Phase(i) = "stopped"  BY <2>1, <2>2, Stutter
  <2>3. CASE Phase(i) = "running"
    <3>1. Runtime!Stop(i)  BY <2>1, <2>3, PhaseMoves DEF Runtime!Stop
    <3>. QED  BY <3>1, RuntimeStep
  <2>. QED  BY <2>1, <2>2, <2>3
<1>7. ASSUME NEW i \in Instances, DoDelete(i) PROVE [Runtime!CNext]_(Runtime!cvars)
  <2>. USE <1>7, DoDeleteEffect
  <2>1. Phase(i)' = Phase(i) /\ Process(i)' = Process(i)  BY DEF Phase, Process, Live, SameProc
  <2>. QED  BY <2>1, Stutter
<1>8. ASSUME NEW i \in Instances, DeleteRemoveAll(i) PROVE [Runtime!CNext]_(Runtime!cvars)
  <2>. USE <1>8, DeleteRemoveAllEffect
  <2>1. Phase(i) \in {"running", "stopped"} /\ Phase(i)' = "gone" /\ Process(i)' = Process(i)
    BY DEF OrderInv, InOrder, Phase, Process, Live, NoDir
  <2>2. exits[i] # NoCode /\ exits'[i] # NoCode  BY DEF OrderInv, InOrder, Killed, NoCode
  <2>3. \E c \in 0..255 : exits' = [exits EXCEPT ![i] = c]  BY <2>2, <1>t, CodeReported
  <2>4. Runtime!Remove(i)  BY <2>1, <2>2, <2>3, PhaseMoves DEF Runtime!Remove
  <2>. QED  BY <2>4, RuntimeStep
<1>9. ASSUME NEW i \in Instances, PauseExit(i) PROVE [Runtime!CNext]_(Runtime!cvars)
  <2>. USE <1>9, PauseExitEffect
  <2>1. Phase(i) \notin {"absent", "created"} /\ Phase(i)' = Phase(i) /\ Process(i)' = Process(i)
    BY DEF OrderInv, InOrder, Phase, Process, Live, TypeOK, Dirs
  <2>2. exits'[i] # NoCode  BY DEF Dirs, Bytes, NoCode, TypeOK
  <2>3. \E c \in 0..255 : exits' = [exits EXCEPT ![i] = c]  BY <2>2, <1>t, CodeReported
  <2>4. \A k \in Instances : Phase(k)' = Phase(k) /\ Process(k)' = Process(k)  BY <2>1
  <2>5. Runtime!Report(i)  BY ONLY <2>1, <2>3, <2>4 DEF Runtime!Report
  <2>. QED  BY <2>5, RuntimeStep
<1>10. ASSUME NEW i \in Instances, RunPodSandbox(i) PROVE [Runtime!CNext]_(Runtime!cvars)
  <2>. USE <1>10, RunPodSandboxEffect
  <2>1. Phase(i)' = Phase(i) /\ Process(i)' = Process(i)  BY DEF Phase, Process, Live
  <2>. QED  BY <2>1, Stutter
<1>11. ASSUME NEW i \in Instances, CreateContainer(i) PROVE [Runtime!CNext]_(Runtime!cvars)
  <2>. USE <1>11, CreateContainerEffect
  <2>1. Phase(i)' = Phase(i) /\ Process(i)' = Process(i)  BY DEF Phase, Process, Live
  <2>. QED  BY <2>1, Stutter
<1>12. ASSUME NEW i \in Instances, CallStartContainer(i) PROVE [Runtime!CNext]_(Runtime!cvars)
  <2>. USE <1>12, CallStartContainerEffect
  <2>1. Phase(i)' = Phase(i) /\ Process(i)' = Process(i)  BY DEF Phase, Process, Live
  <2>. QED  BY <2>1, Stutter
<1>13. ASSUME NEW i \in Instances, Start(i) PROVE [Runtime!CNext]_(Runtime!cvars)
  <2>. USE <1>13, StartEffect
  <2>1. Phase(i) \notin {"absent", "created"} /\ Phase(i)' = Phase(i)
    BY DEF OrderInv, InOrder, Phase, TypeOK, Dirs
  <2>2. Process(i) = "none" /\ Process(i)' = "live"  BY DEF OrderInv, InOrder, Process, Live
  <2>3. Runtime!Launch(i)  BY <2>1, <2>2, ProcessMoves DEF Runtime!Launch
  <2>. QED  BY <2>3, RuntimeStep
<1>14. ASSUME NEW i \in Instances, StartReturns(i) PROVE [Runtime!CNext]_(Runtime!cvars)
  <2>. USE <1>14, StartReturnsEffect
  <2>1. Phase(i)' = Phase(i) /\ Process(i)' = Process(i)  BY DEF Phase, Process, Live
  <2>. QED  BY <2>1, Stutter
<1>15. ASSUME NEW i \in Instances, StartFails(i) PROVE [Runtime!CNext]_(Runtime!cvars)
  <2>. USE <1>15, StartFailsEffect
  <2>1. Phase(i)' = Phase(i) /\ Process(i)' = Process(i)  BY DEF Phase, Process, Live
  <2>. QED  BY <2>1, Stutter
<1>16. ASSUME NEW i \in Instances, StartTimesOut(i) PROVE [Runtime!CNext]_(Runtime!cvars)
  <2>. USE <1>16, StartTimesOutEffect
  <2>1. Phase(i)' = Phase(i) /\ Process(i)' = Process(i)  BY DEF Phase, Process, Live
  <2>. QED  BY <2>1, Stutter
<1>17. ASSUME NEW i \in Instances, MarkStarted(i) PROVE [Runtime!CNext]_(Runtime!cvars)
  <2>. USE <1>17, MarkStartedEffect
  <2>1. Phase(i)' = Phase(i) /\ Process(i)' = Process(i)  BY DEF Phase, Process, Live
  <2>. QED  BY <2>1, Stutter
<1>18. ASSUME NEW i \in Instances, WaitContainer(i) PROVE [Runtime!CNext]_(Runtime!cvars)
  <2>. USE <1>18, WaitContainerEffect
  <2>1. Phase(i)' = Phase(i) /\ Process(i)' = Process(i)  BY DEF Phase, Process, Live
  <2>. QED  BY <2>1, Stutter
<1>19. ASSUME NEW i \in Instances, WaitEnds(i) PROVE [Runtime!CNext]_(Runtime!cvars)
  <2>. USE <1>19, WaitEndsEffect
  <2>1. Phase(i)' = Phase(i) /\ Process(i)' = Process(i)  BY DEF Phase, Process, Live
  <2>. QED  BY <2>1, Stutter
<1>20. ASSUME NEW i \in Instances, GuestExitCode(i) PROVE [Runtime!CNext]_(Runtime!cvars)
  <2>. USE <1>20, GuestExitCodeEffect
  <2>1. Phase(i)' = Phase(i) /\ Process(i)' = Process(i)  BY DEF Phase, Process, Live
  <2>. QED  BY <2>1, Stutter
<1>21. ASSUME NEW i \in Instances, FinishFiles(i) PROVE [Runtime!CNext]_(Runtime!cvars)
  <2>. USE <1>21, FinishFilesEffect
  <2>1. Phase(i) \notin {"absent", "created"} /\ Phase(i)' = Phase(i) /\ Process(i)' = Process(i)
    BY DEF OrderInv, InOrder, Phase, Process, Live, TypeOK, Dirs
  <2>2. exits'[i] # NoCode  BY DEF Bytes, NoCode
  <2>3. \E c \in 0..255 : exits' = [exits EXCEPT ![i] = c]  BY <2>2, <1>t, CodeReported
  <2>4. \A k \in Instances : Phase(k)' = Phase(k) /\ Process(k)' = Process(k)  BY <2>1
  <2>5. Runtime!Report(i)  BY ONLY <2>1, <2>3, <2>4 DEF Runtime!Report
  <2>. QED  BY <2>5, RuntimeStep
<1>22. ASSUME NEW i \in Instances, FinishRead(i) PROVE [Runtime!CNext]_(Runtime!cvars)
  <2>. USE <1>22, FinishReadEffect
  <2>1. Phase(i)' = Phase(i) /\ Process(i)' = Process(i)  BY DEF Phase, Process, Live
  <2>. QED  BY <2>1, Stutter
<1>23. ASSUME NEW i \in Instances, FinishWrite(i) PROVE [Runtime!CNext]_(Runtime!cvars)
  <2>. USE <1>23, FinishWriteEffect
  <2>1. Phase(i) \in {"running", "stopped", "gone"}  BY DEF OrderInv, InOrder, Phase, TypeOK, Dirs
  <2>2. Phase(i)' = "stopped" /\ Process(i)' = Process(i)  BY DEF Phase, Process, Live
  <2>3. CASE Phase(i) = "stopped"  BY <2>2, <2>3, Stutter
  <2>4. CASE Phase(i) = "running"
    <3>1. Runtime!Stop(i)  BY <2>2, <2>4, PhaseMoves DEF Runtime!Stop
    <3>. QED  BY <3>1, RuntimeStep
  <2>5. CASE Phase(i) = "gone"
    <3>1. Runtime!Linger(i)  BY <2>2, <2>5, PhaseMoves DEF Runtime!Linger
    <3>. QED  BY <3>1, RuntimeStep
  <2>. QED  BY <2>1, <2>3, <2>4, <2>5
<1>24. ASSUME NEW i \in Instances, ProcExits(i) PROVE [Runtime!CNext]_(Runtime!cvars)
  <2>. USE <1>24, ProcExitsEffect
  <2>1. Phase(i)' = Phase(i) /\ Process(i) = "live" /\ Process(i)' = "dead"
    BY DEF Phase, Process, Live
  <2>2. Runtime!End({i})  BY <2>1 DEF Runtime!End, Runtime!Ids, Instances
  <2>. QED  BY <2>2, RuntimeStep
<1>25. ASSUME NEW i \in Instances, DoKill(i) PROVE [Runtime!CNext]_(Runtime!cvars)
  <2>. USE <1>25, DoKillEffect
  <2>1. Phase(i)' = Phase(i) /\ Process(i)' = Process(i)  BY DEF Phase, Process, Live
  <2>. QED  BY <2>1, Stutter
<1>26. CASE ShimCrash  BY <1>26, Stutter DEF ShimCrash, Phase, Process, Live, hostVars, guestVars
<1>27. CASE AgentCrash
  BY <1>27, Stutter DEF AgentCrash, Phase, Process, Live, hostVars, guestVars
<1>28. CASE VMStarts  BY <1>28, Stutter DEF VMStarts, Phase, Process, Live, hostVars, guestVars
<1>29. CASE EndPod  BY <1>29, Stutter DEF EndPod, Phase, Process, Live, hostVars, guestVars
<1>30. CASE RemovePodSandbox
  BY <1>30, Stutter DEF RemovePodSandbox, Phase, Process, Live, hostVars, guestVars
<1>31. CASE UNCHANGED vars  BY <1>31, Stutter DEF vars, Phase, Process, Live, hostVars, guestVars
<1>32. CASE VMDies
  <2>1. UNCHANGED <<dir, pause, exits>>  BY <1>32 DEF VMDies, hostVars
  <2>2. \A k \in Instances : Phase(k)' = Phase(k)  BY <2>1 DEF Phase
  <2>3. \A k \in Instances : Process(k)' = IF Live(k) THEN "dead" ELSE Process(k)
    BY <1>32, VMDiesEffect DEF Process
  <2>4. Runtime!End({k \in Instances : Live(k)})
    BY <2>1, <2>2, <2>3 DEF Runtime!End, Runtime!Ids, Instances, Process
  <2>. QED  BY <2>4, RuntimeStep
<1>33. ASSUME NEW i \in Instances, StartGivenUp(i) PROVE [Runtime!CNext]_(Runtime!cvars)
  <2>. USE <1>33, StartGivenUpEffect
  <2>1. Phase(i)' = Phase(i) /\ Process(i)' = Process(i)  BY DEF Phase, Process, Live
  <2>. QED  BY <2>1, Stutter
<1>. QED
  BY <1>1, <1>2, <1>3, <1>4, <1>5, <1>6, <1>7, <1>8, <1>9, <1>10, <1>11, <1>12, <1>13, <1>14,
      <1>15, <1>16, <1>17, <1>18, <1>19, <1>20, <1>21, <1>22, <1>23, <1>24, <1>25, <1>26, <1>27,
      <1>28, <1>29, <1>30, <1>31, <1>32, <1>33
  DEF Next, OciCommand, OciStep, HelperStep, ShimStep
-----------------------------------------------------------------------------
(* The theorems.                                                           *)

\* The inductive invariant holds at the start...
LEMMA InitInv == Init => OciInv
<1>. SUFFICES ASSUME Init PROVE OciInv  OBVIOUS
<1>1. TypeOK
  <2>1. /\ NoDir \in Dirs /\ NoHelper \in Helpers /\ NoStart \in Starts
        /\ NewObj \in Objs /\ NoProc \in Procs
    BY DEF NoDir, NoHelper, NoStart, NewObj, NoProc, Dirs, Helpers, Starts, Objs, Procs, Bytes,
        NoCode
  <2>2. budget \in Budgets  BY FaultsAssumption DEF Init, Budgets
  <2>3. shim \in Shims  BY DEF Init, Shims
  <2>. QED  BY <2>1, <2>2, <2>3 DEF Init, TypeOK, NotStarting
<1>2. \A i \in Instances : /\ dir[i] = NoDir /\ cmd[i] = "none" /\ pause[i] = "none"
                           /\ exits[i] = NoCode /\ helper[i].pc = "none"
                           /\ starting[i].pc = "none" /\ proc[i].st = "none"
  BY DEF Init, NotStarting, NoHelper, NoStart, NoProc
<1>2a. NoDir.st = "none" /\ NoDir.exitcode = NoCode  BY DEF NoDir
<1>3. OrderInv  BY <1>2, <1>2a DEF OrderInv, InOrder
<1>4. \A i \in Instances : NotOvertaken(i) /\ Known(i) /\ CodeKept(i)
  BY <1>2 DEF NotOvertaken, Known, CodeKept, Live, Finished
<1>. QED  BY <1>1, <1>3, <1>4 DEF OciInv, OvertakeInv, KnownInv, CodeInv

\* ...and every step keeps it, each layer with the help of those below.
LEMMA InvStep == OciInv /\ [Next]_vars => OciInv'
<1>. SUFFICES ASSUME OciInv, [Next]_vars PROVE OciInv'  OBVIOUS
<1>1. TypeOK /\ OrderInv  BY DEF OciInv
<1>2. TypeOK' /\ OrderInv'  BY <1>1, TypeStep, OrderStep
<1>3. OvertakeInv'
  <2>. SUFFICES ASSUME NoneOvertaken' PROVE \A k \in Instances : NotOvertaken(k)'
    BY DEF OvertakeInv
  <2>1. \A k \in Instances : NotOvertaken(k)  BY <1>1, FaultsStay DEF OciInv, OvertakeInv
  <2>. QED  BY <1>1, <2>1, OvertakeStep
<1>4. KnownInv'
  <2>. SUFFICES ASSUME NoneForgotten' PROVE \A k \in Instances : Known(k)'  BY DEF KnownInv
  <2>1. NoneForgotten /\ NoneOvertaken  BY <1>1, FaultsStay DEF NoneForgotten
  <2>2. \A k \in Instances : NotOvertaken(k)  BY <2>1 DEF OciInv, OvertakeInv
  <2>3. \A k \in Instances : Known(k)  BY <2>1 DEF OciInv, KnownInv
  <2>. QED  BY <1>1, <2>2, <2>3, KnownStep
<1>5. CodeInv'
  <2>. SUFFICES ASSUME NoneForgotten', budget'.vm = MaxVMDeaths, ~ending'
                PROVE \A k \in Instances : CodeKept(k)'
    BY DEF CodeInv
  <2>1. NoneForgotten /\ NoneOvertaken /\ budget.vm = MaxVMDeaths /\ ~ending
    BY <1>1, FaultsStay DEF NoneForgotten
  <2>2. \A k \in Instances : NotOvertaken(k)  BY <2>1 DEF OciInv, OvertakeInv
  <2>3. \A k \in Instances : Known(k)  BY <2>1 DEF OciInv, KnownInv
  <2>4. \A k \in Instances : CodeKept(k)  BY <2>1 DEF OciInv, CodeInv
  <2>. QED  BY <1>1, <2>2, <2>3, <2>4, CodeStep
<1>. QED  BY <1>2, <1>3, <1>4, <1>5 DEF OciInv

\* The inductive invariant holds in every reachable state, for every number
\* of instances and every bound on the faults.
THEOREM Invariance == Spec => []OciInv
  BY InitInv, InvStep, PTL DEF Spec

\* Every variable of the runtime, the shim and the agent keeps its type.
THEOREM TypeCorrect == Spec => []TypeOK
<1>1. OciInv => TypeOK  BY DEF OciInv
<1>. QED  BY <1>1, Invariance, PTL

\* An instance with a live process has a pause.
LEMMA LiveHasPause ==
  ASSUME OrderInv, NEW i \in Instances, Live(i)
  PROVE pause[i] # "none"
  BY DEF OrderInv, InOrder, Live

\* The guest runs at most one process of the container, as long as no kill,
\* timeout, shim or agent restart has come between: the pause of an instance
\* is created only after the helper of the one before has seen its process end.
THEOREM OneProcessHolds == Spec => []OneProcess
<1>1. OciInv => OneProcess
  <2>. DEFINE S == {i \in Instances : Live(i)}
  <2>. SUFFICES ASSUME OciInv, NoneForgotten PROVE Cardinality(S) <= 1  BY DEF OneProcess
  <2>1. ASSUME NEW i \in Instances, NEW j \in Instances, Live(i), Live(j), i < j PROVE FALSE
    <3>1. Known(j) /\ OrderInv  BY DEF OciInv, KnownInv
    <3>2. pause[j] # "none"  BY <2>1, <3>1, LiveHasPause
    <3>. QED  BY <2>1, <3>1, <3>2 DEF Known
  <2>2. \A i, j \in Instances : Live(i) /\ Live(j) => i = j  BY <2>1 DEF Instances
  <2>3. S = {} \/ \E i \in Instances : S = {i}  BY <2>2
  <2>4. Cardinality({}) = 0 /\ \A i \in Instances : Cardinality({i}) = 1
    BY FS_EmptySet, FS_Singleton
  <2>. HIDE DEF S
  <2>. QED  BY <2>3, <2>4
<1>. QED  BY <1>1, Invariance, PTL

\* state does not take another instance's process for the one it asks about:
\* when the agent's map has moved on, a later instance was created, so the
\* end of this one had been written down before.
THEOREM DeadGuestIsSeen == Spec => []DeadGuestIsNotRunning
<1>1. OciInv => DeadGuestIsNotRunning
  <2>. SUFFICES ASSUME OciInv, NEW i \in Instances, NoneOvertaken, dir[i].st = "running",
                       dir[i].started, proc[i].st = "dead", pause[i] = "live"
                PROVE GuestHasExited(i)
    BY DEF DeadGuestIsNotRunning
  <2>1. CASE ~GuestRunning  BY <2>1 DEF GuestHasExited
  <2>2. CASE GuestRunning
    <3>1. ctr \in Instances /\ Live(ctr) /\ OrderInv
      BY <2>2 DEF GuestRunning, Answers, OciInv, TypeOK
    <3>2. NotOvertaken(i)  BY DEF OciInv, OvertakeInv
    <3>3. i < ctr  BY <3>1, <3>2, NotZero DEF NotOvertaken, Live, Instances
    <3>4. pause[ctr] # "none"  BY <3>1, LiveHasPause
    <3>5. exits[i] # NoCode  BY <3>1, <3>3, <3>4 DEF OrderInv, InOrder
    <3>6. dir[i].exited  BY <3>1, <3>5 DEF OrderInv, InOrder
    <3>. QED  BY <3>6 DEF GuestHasExited
  <2>. QED  BY <2>1, <2>2
<1>. QED  BY <1>1, Invariance, PTL

\* The exit code that reaches the files is the one of the instance's own
\* process, while VM and Pod live on and shim and agent forget nothing: the
\* agent's map holds that process until the helper has fetched the code.
THEOREM ExitCodeHolds == Spec => []ExitCodeIsOwn
<1>1. OciInv => ExitCodeIsOwn  BY DEF OciInv, CodeInv, CodeKept, ExitCodeIsOwn
<1>. QED  BY <1>1, Invariance, PTL

\* The files, the commands, the helpers, the shim's store and the agent's map
\* implement the runtime that CRI-O expects, whatever crashes, times out or is
\* killed, for every number of instances.
THEOREM RuntimeImplemented == Spec => ImplementsRuntime
<1>1. Init => Runtime!CInit
  BY DEF Init, Runtime!CInit, Runtime!Ids, Instances, Phase, Process, Live, NoDir, NoProc
<1>2. OciInv /\ [Next]_vars => [Runtime!CNext]_(Runtime!cvars)  BY ImplementsStep DEF OciInv
<1>. QED  BY <1>1, <1>2, Invariance, PTL DEF Spec, ImplementsRuntime, Runtime!CSpec
=============================================================================
