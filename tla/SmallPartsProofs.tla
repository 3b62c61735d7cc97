--------------------------- MODULE SmallPartsProofs ---------------------------
(***************************************************************************)
(* Proofs about three of the small parts: the commands run in a container, *)
(* for any number of them and any exit codes; the forwarded ports, for any *)
(* ports, addresses and numbers of changes and restarts; and the log of a  *)
(* container, for any number of lines and failed calls.                    *)
(***************************************************************************)
EXTENDS ExecSession, PortForward, GuestLogs, SequenceTheorems, TLAPS

-----------------------------------------------------------------------------
(* ExecSession.                                                            *)

Codes == 0..255 \cup {NoCode}
ExecRecords ==
    [pc: {"idle", "posted", "asked", "checked", "enters", "runs", "left", "ended", "lost", "over"},
     tty: BOOLEAN, steady: BOOLEAN, place: {"none", "guest", "root", "namespace"},
     code: Codes, result: Codes]

ExecTypeOK ==
    /\ target \in {"created", "unpacked", "running", "exited"}
    /\ guestUp \in BOOLEAN /\ shimKnows \in BOOLEAN /\ known \subseteq {"root", "process"}
    /\ execs \in [Execs -> ExecRecords]

\* What is true of one command x: it has a place when it runs and when it has
\* ended well, a success that was returned is final, and a container that has
\* run under its agent since it was asked for has let it only into its namespaces.
Sound(x) ==
    /\ x.pc = "runs" => x.place # "none"
    /\ x.pc \in {"left", "ended"} /\ x.code = 0 => x.place # "none"
    /\ ~x.tty /\ x.result = 0 => x.pc = "over" /\ x.code = 0 /\ x.place # "none"
    /\ x.steady => x.place \in {"none", "namespace"}

ExecInv ==
    \A e \in Execs : Sound(execs[e]) /\ (execs[e].steady => Steady)

\* A command is changed: the others stay, and the invariant with them.
LEMMA OneExecChanges ==
    ASSUME ExecTypeOK, ExecInv, NEW e \in Execs, NEW new \in ExecRecords,
           execs' = [execs EXCEPT ![e] = new], Sound(new), new.steady => Steady,
           UNCHANGED <<target, guestUp, shimKnows, known>>
    PROVE  ExecTypeOK' /\ ExecInv'
<1>1. execs' \in [Execs -> ExecRecords] /\ execs'[e] = new
      /\ \A d \in Execs : d # e => execs'[d] = execs[d]
  BY DEF ExecTypeOK
<1>2. ExecTypeOK'
  BY <1>1 DEF ExecTypeOK
<1>3. ExecInv'
  BY <1>1 DEF ExecInv, Sound, Steady
<1>. QED
  BY <1>2, <1>3

\* NoCode is no code.
LEMMA NoCodeIsApart == NoCode # 0 /\ 0 \in Codes /\ 1 \in Codes /\ 137 \in Codes /\ NoCode \in Codes
  BY ExecAssumption DEF Codes

\* It holds at the start.
LEMMA ExecInitHolds == ExecInit => ExecTypeOK /\ ExecInv
<1>. SUFFICES ASSUME ExecInit PROVE ExecTypeOK /\ ExecInv
  OBVIOUS
<1>1. NotAsked \in ExecRecords
  BY NoCodeIsApart DEF NotAsked, ExecRecords
<1>2. Sound(NotAsked) /\ ~NotAsked.steady
  BY NoCodeIsApart DEF NotAsked, Sound
<1>. HIDE DEF NotAsked
<1>. QED
  BY <1>1, <1>2 DEF ExecInit, ExecTypeOK, ExecInv

\* Every step keeps it.
LEMMA ExecStep == ExecTypeOK /\ ExecInv /\ [ExecNext]_execVars => ExecTypeOK' /\ ExecInv'
<1>. SUFFICES ASSUME ExecTypeOK, ExecInv, [ExecNext]_execVars PROVE ExecTypeOK' /\ ExecInv'
  OBVIOUS
<1>0. \A e \in Execs : /\ execs[e] \in ExecRecords /\ Sound(execs[e])
                       /\ execs[e].steady => Steady
  BY DEF ExecTypeOK, ExecInv
<1>1. ASSUME NEW e \in Execs, NEW tty \in BOOLEAN, DoExec(e, tty) PROVE ExecTypeOK' /\ ExecInv'
  <2>1. LoadExec(tty) \in ExecRecords
    BY NoCodeIsApart DEF LoadExec, NotAsked, ExecRecords, Steady
  <2>2. Sound(LoadExec(tty)) /\ (LoadExec(tty).steady => Steady)
    BY NoCodeIsApart DEF LoadExec, NotAsked, Sound
  <2>. QED
    BY <1>1, <2>1, <2>2, OneExecChanges DEF DoExec
<1>2. ASSUME NEW e \in Execs, ShimExec(e) PROVE ExecTypeOK' /\ ExecInv'
  <2>. DEFINE x == execs[e]
              new == IF shimKnows /\ guestUp THEN [x EXCEPT !.pc = IF x.tty THEN "checked" ELSE "asked"]
                     ELSE [x EXCEPT !.pc = "over", !.result = Failed(e)]
  <2>1. x \in ExecRecords /\ Sound(x) /\ (x.steady => Steady) /\ x.result = NoCode
    BY <1>0, <1>2 DEF ShimExec, Waiting
  <2>2. new \in ExecRecords
    BY <2>1, NoCodeIsApart DEF Failed, ExecRecords
  <2>3. Sound(new) /\ new.steady = x.steady
    BY <2>1, NoCodeIsApart DEF Failed, ExecRecords, Sound
  <2>4. execs' = [execs EXCEPT ![e] = new]
    BY <1>2 DEF ShimExec
  <2>. HIDE DEF new
  <2>. QED
    BY <1>2, <2>1, <2>2, <2>3, <2>4, OneExecChanges DEF ShimExec
<1>3. ASSUME NEW e \in Execs, AgentExec(e) PROVE ExecTypeOK' /\ ExecInv'
  <2>. DEFINE x == execs[e]
              new == IF target = "exited" /\ "process" \in known THEN [x EXCEPT !.pc = "ended", !.code = 1]
                     ELSE [x EXCEPT !.pc = "checked"]
  <2>1. x \in ExecRecords /\ Sound(x) /\ (x.steady => Steady) /\ x.pc = "asked"
    BY <1>0, <1>3 DEF AgentExec
  <2>2. new \in ExecRecords
    BY <2>1, NoCodeIsApart DEF ExecRecords
  <2>3. Sound(new) /\ new.steady = x.steady
    BY <2>1 DEF ExecRecords, Sound
  <2>4. execs' = [execs EXCEPT ![e] = new]
    BY <1>3 DEF AgentExec
  <2>. HIDE DEF new
  <2>. QED
    BY <1>3, <2>1, <2>2, <2>3, <2>4, OneExecChanges DEF AgentExec
<1>4. ASSUME NEW e \in Execs, ChoosePlace(e) PROVE ExecTypeOK' /\ ExecInv'
  <2>. DEFINE x == execs[e]
              enters == [x EXCEPT !.pc = "enters"]
              runs(found) == [x EXCEPT !.pc = "runs", !.place = IF found THEN "root" ELSE "guest"]
  <2>1. x \in ExecRecords /\ Sound(x) /\ (x.steady => Steady) /\ x.pc = "checked"
    BY <1>0, <1>4 DEF ChoosePlace
  <2>2. PICK found \in BOOLEAN :
          /\ "root" \in known => found
          /\ execs' = IF found /\ target = "running" /\ "process" \in known
                      THEN [execs EXCEPT ![e] = enters] ELSE [execs EXCEPT ![e] = runs(found)]
    BY <1>4 DEF ChoosePlace
  <2>3. CASE found /\ target = "running" /\ "process" \in known
    <3>1. enters \in ExecRecords /\ Sound(enters) /\ enters.steady = x.steady
      BY <2>1 DEF ExecRecords, Sound
    <3>2. execs' = [execs EXCEPT ![e] = enters]
      BY <2>2, <2>3
    <3>. HIDE DEF enters
    <3>. QED
      BY <1>4, <2>1, <3>1, <3>2, OneExecChanges DEF ChoosePlace
  <2>4. CASE ~(found /\ target = "running" /\ "process" \in known)
    <3>1. ~x.steady
      BY <2>1, <2>2, <2>4 DEF Steady
    <3>2. runs(found) \in ExecRecords /\ Sound(runs(found)) /\ ~runs(found).steady
      BY <2>1, <3>1 DEF ExecRecords, Sound
    <3>3. execs' = [execs EXCEPT ![e] = runs(found)]
      BY <2>2, <2>4
    <3>. HIDE DEF runs
    <3>. QED
      BY <1>4, <3>2, <3>3, OneExecChanges DEF ChoosePlace
  <2>. QED
    BY <2>3, <2>4
<1>5. ASSUME NEW e \in Execs, RunPidnsExec(e) PROVE ExecTypeOK' /\ ExecInv'
  <2>. DEFINE x == execs[e]
              new == IF target = "running" THEN [x EXCEPT !.pc = "runs", !.place = "namespace"]
                     ELSE [x EXCEPT !.pc = "ended", !.code = 1]
  <2>1. x \in ExecRecords /\ Sound(x) /\ (x.steady => Steady) /\ x.pc = "enters"
    BY <1>0, <1>5 DEF RunPidnsExec
  <2>2. new \in ExecRecords
    BY <2>1, NoCodeIsApart DEF ExecRecords
  <2>3. Sound(new) /\ new.steady = x.steady
    BY <2>1 DEF ExecRecords, Sound
  <2>4. execs' = [execs EXCEPT ![e] = new]
    BY <1>5 DEF RunPidnsExec
  <2>. HIDE DEF new
  <2>. QED
    BY <1>5, <2>1, <2>2, <2>3, <2>4, OneExecChanges DEF RunPidnsExec
<1>6. ASSUME NEW e \in Execs, CommandExits(e) PROVE ExecTypeOK' /\ ExecInv'
  <2>0. PICK code \in CmdCodes, pc \in {"ended", "left"} :
          execs' = [execs EXCEPT ![e].pc = pc, ![e].code = code]
    BY <1>6 DEF CommandExits
  <2>. DEFINE x == execs[e]
              new == [x EXCEPT !.pc = pc, !.code = code]
  <2>1. x \in ExecRecords /\ Sound(x) /\ (x.steady => Steady) /\ x.pc = "runs"
    BY <1>0, <1>6 DEF CommandExits
  <2>2. new \in ExecRecords
    BY <2>1, ExecAssumption DEF ExecRecords, Codes
  <2>3. Sound(new) /\ new.steady = x.steady
    BY <2>1 DEF ExecRecords, Sound
  <2>4. execs' = [execs EXCEPT ![e] = new]
    BY <2>0
  <2>. HIDE DEF new
  <2>. QED
    BY <1>6, <2>1, <2>2, <2>3, <2>4, OneExecChanges DEF CommandExits
<1>61. ASSUME NEW e \in Execs, ChildrenExit(e) PROVE ExecTypeOK' /\ ExecInv'
  <2>. DEFINE x == execs[e]
              new == [x EXCEPT !.pc = "ended"]
  <2>1. x \in ExecRecords /\ Sound(x) /\ (x.steady => Steady) /\ x.pc = "left"
    BY <1>0, <1>61 DEF ChildrenExit
  <2>2. new \in ExecRecords /\ Sound(new) /\ new.steady = x.steady
    BY <2>1 DEF ExecRecords, Sound
  <2>3. execs' = [execs EXCEPT ![e] = new]
    BY <1>61 DEF ChildrenExit
  <2>. HIDE DEF new
  <2>. QED
    BY <1>61, <2>1, <2>2, <2>3, OneExecChanges DEF ChildrenExit
<1>7. ASSUME NEW e \in Execs, AnswerExec(e) \/ AnswerTTY(e) PROVE ExecTypeOK' /\ ExecInv'
  <2>. DEFINE x == execs[e]
              new == [x EXCEPT !.pc = "over",
                               !.result = IF x.result = NoCode THEN IF x.tty THEN 0 ELSE x.code ELSE x.result]
  <2>1. x \in ExecRecords /\ Sound(x) /\ (x.steady => Steady) /\ x.pc = "ended"
    BY <1>0, <1>7 DEF AnswerExec, AnswerTTY
  <2>2. new \in ExecRecords
    BY <2>1, NoCodeIsApart DEF ExecRecords
  <2>3. Sound(new) /\ new.steady = x.steady
    BY <2>1 DEF ExecRecords, Sound
  <2>4. execs' = [execs EXCEPT ![e] = new]
    BY <1>7, <2>1 DEF AnswerExec, AnswerTTY, Waiting
  <2>. HIDE DEF new
  <2>. QED
    BY <1>7, <2>1, <2>2, <2>3, <2>4, OneExecChanges DEF AnswerExec, AnswerTTY
<1>8. ASSUME NEW e \in Execs, ExecTimeout(e) \/ UserLeaves(e) PROVE ExecTypeOK' /\ ExecInv'
  <2>. DEFINE x == execs[e]
              new == [x EXCEPT !.result = IF x.tty THEN 0 ELSE 1]
  <2>1. x \in ExecRecords /\ Sound(x) /\ (x.steady => Steady)
    BY <1>0
  <2>2. new \in ExecRecords
    BY <2>1, NoCodeIsApart DEF ExecRecords
  <2>3. Sound(new) /\ new.steady = x.steady
    BY <2>1 DEF ExecRecords, Sound
  <2>4. execs' = [execs EXCEPT ![e] = new]
    BY <1>8 DEF ExecTimeout, UserLeaves, Failed
  <2>. HIDE DEF new
  <2>. QED
    BY <1>8, <2>1, <2>2, <2>3, <2>4, OneExecChanges DEF ExecTimeout, UserLeaves
<1>9. ASSUME NEW e \in Execs, ConnectionBreaks(e) PROVE ExecTypeOK' /\ ExecInv'
  <2>. DEFINE x == execs[e]
              new == [x EXCEPT !.pc = "over", !.result = IF x.tty THEN 0 ELSE 1]
  <2>1. x \in ExecRecords /\ Sound(x) /\ (x.steady => Steady)
    BY <1>0
  <2>2. new \in ExecRecords
    BY <2>1, NoCodeIsApart DEF ExecRecords
  <2>3. Sound(new) /\ new.steady = x.steady
    BY <2>1 DEF ExecRecords, Sound
  <2>4. execs' = [execs EXCEPT ![e] = new]
    BY <1>9 DEF ConnectionBreaks, Failed
  <2>. HIDE DEF new
  <2>. QED
    BY <1>9, <2>1, <2>2, <2>3, <2>4, OneExecChanges DEF ConnectionBreaks
<1>10. CASE TargetStep
  <2>1. \A e \in Execs : ~execs[e].steady
    BY <1>0, <1>10 DEF TargetStep, Steady
  <2>. QED
    BY <1>10, <2>1 DEF TargetStep, ExecTypeOK, ExecInv
<1>11. CASE TargetExits
  <2>1. ASSUME NEW e \in Execs
        PROVE  execs'[e] \in ExecRecords /\ Sound(execs'[e]) /\ ~execs'[e].steady
    <3>. DEFINE x == execs[e]
                inside == x.place = "namespace"
    <3>1. execs'[e] = [x EXCEPT !.steady = FALSE,
                         !.pc = IF x.pc \in {"runs", "left"} /\ inside THEN "ended" ELSE x.pc,
                         !.code = IF x.pc = "runs" /\ inside THEN 137 ELSE x.code]
      BY <1>11 DEF TargetExits
    <3>2. execs'[e] \in ExecRecords
      BY <1>0, <3>1, NoCodeIsApart DEF ExecRecords
    <3>. QED
      BY <1>0, <3>1, <3>2 DEF Sound, ExecRecords
  <2>2. execs' \in [Execs -> ExecRecords]
    BY <1>11, <2>1 DEF TargetExits
  <2>. QED
    BY <1>11, <2>1, <2>2 DEF TargetExits, ExecTypeOK, ExecInv
<1>12. CASE GuestDies \/ AgentRestarts
  <2>1. ASSUME NEW e \in Execs
        PROVE  execs'[e] \in ExecRecords /\ Sound(execs'[e]) /\ ~execs'[e].steady
    <3>1. execs'[e] = [execs[e] EXCEPT !.steady = FALSE,
                         !.pc = IF execs[e].pc \in {"idle", "posted", "over"} THEN execs[e].pc ELSE "lost"]
      BY <1>12 DEF GuestDies, AgentRestarts, Cut
    <3>. QED
      BY <1>0, <3>1 DEF Sound, ExecRecords
  <2>2. execs' \in [Execs -> ExecRecords]
    BY <1>12, <2>1 DEF GuestDies, AgentRestarts
  <2>. QED
    BY <1>12, <2>1, <2>2 DEF GuestDies, AgentRestarts, ExecTypeOK, ExecInv
<1>13. CASE ShimStartsAgain
  <2>1. ASSUME NEW e \in Execs
        PROVE  execs'[e] \in ExecRecords /\ Sound(execs'[e]) /\ (execs'[e].steady => Steady)
    <3>1. CASE Waiting(e)
      <4>1. execs'[e] = [execs[e] EXCEPT !.result = IF execs[e].tty THEN 0 ELSE 1,
                           !.pc = IF execs[e].pc = "posted" THEN "over" ELSE execs[e].pc]
        BY <1>13, <3>1 DEF ShimStartsAgain, Failed
      <4>2. execs'[e] \in ExecRecords
        BY <1>0, <4>1, NoCodeIsApart DEF ExecRecords
      <4>. QED
        BY <1>0, <4>1, <4>2 DEF Sound, ExecRecords
    <3>2. CASE ~Waiting(e)
      BY <1>0, <1>13, <3>2 DEF ShimStartsAgain
    <3>. QED
      BY <3>1, <3>2
  <2>2. execs' \in [Execs -> ExecRecords]
    BY <1>13, <2>1 DEF ShimStartsAgain
  <2>. QED
    BY <1>13, <2>1, <2>2 DEF ShimStartsAgain, ExecTypeOK, ExecInv, Steady
<1>14. CASE UNCHANGED execVars
  BY <1>14 DEF execVars, ExecTypeOK, ExecInv, Sound, Steady
<1>. QED
  BY <1>1, <1>2, <1>3, <1>4, <1>5, <1>6, <1>61, <1>7, <1>8, <1>9, <1>10, <1>11, <1>12, <1>13, <1>14
     DEF ExecNext, ServeExec

\* A probe's or an exec's success is the command's own, and a command of a
\* container that runs under the agent that started it is run inside it, for
\* any number of commands at once, whatever restarts, dies or times out.
THEOREM ExecRunsAsAskedHolds == ExecInit /\ [][ExecNext]_execVars => []ExecRunsAsAsked
<1>1. ExecTypeOK /\ ExecInv => ExecRunsAsAsked
  BY DEF ExecInv, Sound, ExecRunsAsAsked, SuccessIsReal, ExecLandsInside
<1>. QED
  BY <1>1, ExecInitHolds, ExecStep, PTL

-----------------------------------------------------------------------------
(* PortForward.                                                            *)

Forwarders(ips) == [ip: ips, todo: SUBSET Ports, bound: SUBSET Ports, lost: SUBSET Ports, stop: BOOLEAN]

\* Every address a file has had is one the Pod has had, or stands for none.
ForwardTypeOK ==
    /\ guestIP \in GuestIPs \cup {NoIP}
    /\ writing \in GuestIPs \cup {NoIP}
    /\ file \in GuestIPs \cup {NoIP, NoFile, EmptyFile}
    /\ gors \subseteq Forwarders(GuestIPs \cup {NoIP, NoFile, EmptyFile})

\* A goroutine takes a step: it keeps its type and its stop, and no other has
\* a port it has.
LEMMA OneListens ==
    ASSUME ForwardTypeOK, OneForwarder, NEW g \in gors,
           NEW new \in Forwarders(GuestIPs \cup {NoIP, NoFile, EmptyFile}),
           gors' = (gors \ {g}) \cup {new}, new.stop = g.stop,
           \A h \in gors \ {g} : h.bound \cap new.bound = {},
           UNCHANGED <<guestIP, dir, file, writing>>
    PROVE  ForwardTypeOK' /\ OneForwarder'
<1>1. ForwardTypeOK'
  BY DEF ForwardTypeOK
<1>2. ASSUME NEW a \in gors', NEW b \in gors', a # b
      PROVE  a.bound \cap b.bound = {} /\ (a.stop \/ b.stop)
  <2>1. CASE a # new /\ b # new
    BY <1>2, <2>1 DEF OneForwarder
  <2>2. CASE a = new
    BY <1>2, <2>2 DEF OneForwarder
  <2>3. CASE b = new
    BY <1>2, <2>3 DEF OneForwarder
  <2>. QED
    BY <2>1, <2>2, <2>3
<1>. QED
  BY <1>1, <1>2 DEF OneForwarder

\* Every step keeps it.
LEMMA ForwardStep ==
    ForwardTypeOK /\ OneForwarder /\ [ForwardNext]_fwdVars => ForwardTypeOK' /\ OneForwarder'
<1>. SUFFICES ASSUME ForwardTypeOK, OneForwarder, [ForwardNext]_fwdVars
              PROVE  ForwardTypeOK' /\ OneForwarder'
  OBVIOUS
<1>. DEFINE ips == GuestIPs \cup {NoIP, NoFile, EmptyFile}
<1>1. ASSUME NEW ip \in GuestIPs \cup {NoIP}, SetGuestIP(ip) PROVE ForwardTypeOK' /\ OneForwarder'
  BY <1>1 DEF SetGuestIP, ForwardTypeOK, OneForwarder
<1>2. CASE CreateSandboxDir \/ DeleteSandboxDir
  BY <1>2 DEF CreateSandboxDir, DeleteSandboxDir, ForwardTypeOK, OneForwarder
<1>3. CASE RemoveForward \/ TruncateForward \/ WriteForward \/ StopShim
  BY <1>3 DEF RemoveForward, TruncateForward, WriteForward, StopShim, ForwardTypeOK, OneForwarder
<1>4. CASE RunPauseForwards
  <2>. DEFINE first == [ip |-> Content, todo |-> Ports, bound |-> {}, lost |-> {}, stop |-> FALSE]
  <2>1. first \in Forwarders(ips) /\ first.bound = {}
    BY DEF Content, Forwarders, ForwardTypeOK
  <2>2. \A g \in gors : /\ Stopped(g) \in Forwarders(ips)
                        /\ Stopped(g).stop = TRUE /\ Stopped(g).bound = g.bound
    BY DEF Stopped, Forwarders, ForwardTypeOK
  <2>3. \A h \in gors' : h = first \/ \E g \in gors : h = Stopped(g)
    BY <1>4 DEF RunPauseForwards
  <2>4. dir /\ UNCHANGED <<guestIP, dir, file, writing>>
    BY <1>4 DEF RunPauseForwards
  <2>. HIDE DEF first
  <2>5. ForwardTypeOK'
    BY <2>1, <2>2, <2>3, <2>4 DEF ForwardTypeOK
  <2>6. ASSUME NEW a \in gors', NEW b \in gors', a # b
        PROVE  a.bound \cap b.bound = {} /\ (a.stop \/ b.stop)
    <3>1. CASE a = first \/ b = first
      BY <2>1, <2>2, <2>3, <2>6, <3>1
    <3>2. CASE a # first /\ b # first
      <4>1. PICK g \in gors : a = Stopped(g)
        BY <2>3, <3>2
      <4>2. PICK h \in gors : b = Stopped(h)
        BY <2>3, <3>2
      <4>3. g # h
        BY <2>6, <4>1, <4>2
      <4>. QED
        BY <2>2, <4>1, <4>2, <4>3 DEF OneForwarder
    <3>. QED
      BY <3>1, <3>2
  <2>. QED
    BY <2>4, <2>5, <2>6 DEF OneForwarder
<1>5. ASSUME NEW g \in gors, NEW p \in Ports, Listen(g, p) PROVE ForwardTypeOK' /\ OneForwarder'
  <2>0. g \in Forwarders(ips)
    BY DEF ForwardTypeOK
  <2>1. CASE Taken(p) /\ gors' = (gors \ {g}) \cup {[g EXCEPT !.todo = @ \ {p}, !.lost = @ \cup {p}]}
    <3>. DEFINE new == [g EXCEPT !.todo = @ \ {p}, !.lost = @ \cup {p}]
    <3>1. new \in Forwarders(ips) /\ new.stop = g.stop /\ new.bound = g.bound
      BY <2>0 DEF Forwarders
    <3>2. gors' = (gors \ {g}) \cup {new} /\ UNCHANGED <<guestIP, dir, file, writing>>
      BY <1>5, <2>1 DEF Listen
    <3>. HIDE DEF new
    <3>3. \A h \in gors \ {g} : h.bound \cap new.bound = {}
      BY <3>1 DEF OneForwarder
    <3>. QED
      BY <3>1, <3>2, <3>3, OneListens
  <2>2. CASE Bind(g, p)
    <3>. DEFINE new == [g EXCEPT !.todo = @ \ {p}, !.bound = @ \cup {p}]
    <3>1. new \in Forwarders(ips) /\ new.stop = g.stop /\ new.bound = g.bound \cup {p}
      BY <2>0 DEF Forwarders
    <3>2. gors' = (gors \ {g}) \cup {new} /\ UNCHANGED <<guestIP, dir, file, writing>>
      BY <1>5, <2>2 DEF Listen, Bind
    <3>. HIDE DEF new
    <3>3. \A h \in gors \ {g} : h.bound \cap new.bound = {}
      <4>1. \A h \in gors : p \notin h.bound
        BY <2>2 DEF Bind, BoundPorts
      <4>. QED
        BY <3>1, <4>1 DEF OneForwarder
    <3>. QED
      BY <3>1, <3>2, <3>3, OneListens
  <2>. QED
    BY <1>5, <2>1, <2>2 DEF Listen
<1>6. ASSUME NEW g \in gors, CloseListeners(g) PROVE ForwardTypeOK' /\ OneForwarder'
  BY <1>6 DEF CloseListeners, ForwardTypeOK, OneForwarder
<1>7. CASE UNCHANGED fwdVars
  BY <1>7 DEF fwdVars, ForwardTypeOK, OneForwarder
<1>. QED
  BY <1>1, <1>2, <1>3, <1>4, <1>5, <1>6, <1>7 DEF ForwardNext, Forwarding

\* However the file changes while listeners come and go, a port is listened
\* on once and only one set of listeners is not on its way out.
THEOREM OneForwarderHolds == ForwardInit /\ [][ForwardNext]_fwdVars => []OneForwarder
<1>1. ForwardInit => ForwardTypeOK /\ OneForwarder
  BY DEF ForwardInit, ForwardTypeOK, OneForwarder
<1>. QED
  BY <1>1, ForwardStep, PTL
-----------------------------------------------------------------------------
(* GuestLogs.                                                              *)

Parts == [n: Nat, ends: BOOLEAN]

LogsTypeOK ==
    /\ buffers \in [Streams -> Seq(Parts)]
    /\ podLog \in Seq(Parts)
    /\ pump \in [pc: {"check", "read", "misled", "ended"}, seen: Nat]
    /\ missed \subseteq Nat

\* What LogIsFaithful says of a log, of which so much has been seen.
Faithful(log, buf, seen, lost) ==
    /\ \A i, j \in 1..Len(log) : i < j => log[i].n < log[j].n
    /\ {log[i].n : i \in 1..Len(log)} = (1..seen) \ lost
    /\ \A i \in 1..Len(log) : buf[log[i].n].ends => log[i].ends

\* A buffer that is the only one in use has the parts under their numbers.
Numbered(buf) == \A k \in 1..Len(buf) : buf[k].n = k

LogInv ==
    \A s \in Streams : OneStream(s) =>
       /\ pump.seen <= Len(buffers[s]) /\ Numbered(buffers[s]) /\ missed \subseteq 1..pump.seen
       /\ Faithful(podLog, buffers[s], pump.seen, missed)

\* It holds at the start.
LEMMA LogsInitHolds == LogsInit => LogsTypeOK /\ LogInv
<1>. SUFFICES ASSUME LogsInit PROVE LogsTypeOK /\ LogInv
  OBVIOUS
<1>1. LogsTypeOK
  BY DEF LogsInit, LogsTypeOK, Streams
<1>2. ASSUME NEW s \in Streams
      PROVE  /\ pump.seen <= Len(buffers[s]) /\ Numbered(buffers[s]) /\ missed \subseteq 1..pump.seen
             /\ Faithful(podLog, buffers[s], pump.seen, missed)
  BY DEF LogsInit, Numbered, Faithful
<1>. QED
  BY <1>1, <1>2 DEF LogInv

\* What a chunk adds: the parts b[q + 1], b[q + 2], ... of the buffer.
LEMMA ChunkIsFaithful ==
    ASSUME NEW b \in Seq(Parts), NEW log \in Seq(Parts), NEW new \in Seq(Parts),
           NEW q \in Nat, NEW lost \in SUBSET (1..q), q < Len(b),
           Numbered(b), Faithful(log, b, q, lost),
           Len(new) = Len(b) - q,
           \A i \in 1..Len(new) : new[i].n = b[q + i].n /\ (b[q + i].ends => new[i].ends)
    PROVE  log \o new \in Seq(Parts) /\ Faithful(log \o new, b, Len(b), lost)
<1>. DEFINE all == log \o new
            P == Len(log)
<1>0. P \in Nat /\ Len(b) \in Nat /\ Len(new) \in Nat
  BY LenProperties
<1>1. /\ all \in Seq(Parts) /\ Len(all) = P + Len(new)
      /\ \A i \in 1..P + Len(new) : all[i] = IF i <= P THEN log[i] ELSE new[i - P]
  BY ConcatProperties
<1>. HIDE DEF all
<1>2. ASSUME NEW i \in 1..P PROVE all[i] = log[i] /\ log[i].n \in 1..q /\ log[i].n \notin lost
  <2>1. all[i] = log[i]
    BY <1>0, <1>1
  <2>2. log[i].n \in (1..q) \ lost
    BY DEF Faithful
  <2>. QED
    BY <2>1, <2>2
<1>3. ASSUME NEW i \in P + 1..P + Len(new)
      PROVE  all[i].n = q + (i - P) /\ (b[q + (i - P)].ends => all[i].ends)
  <2>1. i \in 1..P + Len(new) /\ ~(i <= P) /\ i - P \in 1..Len(new) /\ q + (i - P) \in 1..Len(b)
    BY <1>0
  <2>2. all[i] = new[i - P]
    BY <1>1, <2>1
  <2>3. b[q + (i - P)].n = q + (i - P)
    BY <2>1 DEF Numbered
  <2>. QED
    BY <2>1, <2>2, <2>3
<1>4. \A i \in 1..Len(all) : i \in 1..P \/ i \in P + 1..P + Len(new)
  BY <1>0, <1>1
<1>5. ASSUME NEW i \in 1..Len(all), NEW j \in 1..Len(all), i < j PROVE all[i].n < all[j].n
  <2>1. CASE i \in 1..P /\ j \in 1..P
    <3>1. log[i].n < log[j].n
      BY <1>5, <2>1 DEF Faithful
    <3>. QED
      BY <1>2, <2>1, <3>1
  <2>2. CASE i \in 1..P /\ j \in P + 1..P + Len(new)
    <3>1. all[i].n \in 1..q
      BY <1>2, <2>2
    <3>2. all[j].n = q + (j - P)
      BY <1>3, <2>2
    <3>. QED
      BY <1>0, <2>2, <3>1, <3>2
  <2>3. CASE i \in P + 1..P + Len(new) /\ j \in P + 1..P + Len(new)
    <3>1. all[i].n = q + (i - P) /\ all[j].n = q + (j - P)
      BY <1>3, <2>3
    <3>. QED
      BY <1>0, <1>5, <2>3, <3>1
  <2>. QED
    BY <1>0, <1>4, <1>5, <2>1, <2>2, <2>3
<1>6. {all[i].n : i \in 1..Len(all)} = (1..Len(b)) \ lost
  <2>1. ASSUME NEW i \in 1..Len(all) PROVE all[i].n \in (1..Len(b)) \ lost
    <3>1. CASE i \in 1..P
      <4>1. all[i].n \in 1..q /\ all[i].n \notin lost
        BY <1>2, <3>1
      <4>. QED
        BY <1>0, <4>1
    <3>2. CASE i \in P + 1..P + Len(new)
      <4>1. all[i].n = q + (i - P)
        BY <1>3, <3>2
      <4>. QED
        BY <1>0, <3>2, <4>1
    <3>. QED
      BY <1>4, <3>1, <3>2
  <2>2. ASSUME NEW k \in (1..Len(b)) \ lost PROVE \E i \in 1..Len(all) : all[i].n = k
    <3>1. CASE k <= q
      <4>1. k \in (1..q) \ lost
        BY <1>0, <3>1
      <4>2. PICK i \in 1..P : log[i].n = k
        BY <4>1 DEF Faithful
      <4>3. i \in 1..Len(all) /\ all[i] = log[i]
        BY <1>0, <1>1, <1>2
      <4>. QED
        BY <4>2, <4>3
    <3>2. CASE ~(k <= q)
      <4>. DEFINE i == P + (k - q)
      <4>1. i \in P + 1..P + Len(new) /\ i \in 1..Len(all) /\ q + (i - P) = k
        BY <1>0, <1>1, <3>2
      <4>. HIDE DEF i
      <4>2. all[i].n = q + (i - P)
        BY <1>3, <4>1
      <4>. QED
        BY <4>1, <4>2
    <3>. QED
      BY <3>1, <3>2
  <2>. QED
    BY <2>1, <2>2
<1>7. ASSUME NEW i \in 1..Len(all), b[all[i].n].ends PROVE all[i].ends
  <2>1. CASE i \in 1..P
    BY <1>2, <1>7, <2>1 DEF Faithful
  <2>2. CASE i \in P + 1..P + Len(new)
    BY <1>3, <1>7, <2>2
  <2>. QED
    BY <1>4, <2>1, <2>2
<1>8. Faithful(all, b, Len(b), lost)
  BY <1>5, <1>6, <1>7 DEF Faithful
<1>. QED
  BY <1>1, <1>8 DEF all

\* What the agent answers, and the chunk that is new in it.
LEMMA ChunkParts ==
    ASSUME LogsTypeOK, Len(AgentLogs) > pump.seen
    PROVE  /\ AgentLogs \in Seq(Parts) /\ Len(AgentLogs) \in Nat /\ pump.seen \in Nat
           /\ Chunk \in Seq(Parts) /\ Len(Chunk) = Len(AgentLogs) - pump.seen
           /\ \A i \in 1..Len(Chunk) : Chunk[i] = AgentLogs[pump.seen + i]
           /\ \A s \in Streams : OneStream(s) => AgentLogs = buffers[s]
<1>1. buffers["stdout"] \in Seq(Parts) /\ buffers["stderr"] \in Seq(Parts)
  BY DEF LogsTypeOK, Streams
<1>2. ASSUME NEW s \in Streams, OneStream(s) PROVE AgentLogs = buffers[s]
  <2>1. CASE s = "stdout"
    BY <1>1, <1>2, <2>1, ConcatEmptySeq DEF AgentLogs, OneStream, Streams
  <2>2. CASE s = "stderr"
    BY <1>1, <1>2, <2>2, ConcatEmptySeq DEF AgentLogs, OneStream, Streams
  <2>. QED
    BY <2>1, <2>2 DEF Streams
<1>3. AgentLogs \in Seq(Parts)
  BY <1>1, ConcatProperties DEF AgentLogs
<1>. HIDE DEF AgentLogs
<1>4. Len(AgentLogs) \in Nat /\ pump.seen \in Nat
  BY <1>3, LenProperties DEF LogsTypeOK
<1>5. \A i \in pump.seen + 1 .. Len(AgentLogs) : AgentLogs[i] \in Parts
  BY <1>3, <1>4, ElementOfSeq
<1>6. /\ Chunk \in Seq(Parts) /\ Len(Chunk) = Len(AgentLogs) - pump.seen
      /\ \A i \in 1..Len(Chunk) : Chunk[i] = AgentLogs[pump.seen + i]
  BY <1>3, <1>4, <1>5, SubSeqProperties DEF Chunk
<1>. QED
  BY <1>2, <1>3, <1>4, <1>6

\* Every step keeps it: a part goes to the end of its buffer, and the pump adds
\* what the buffer has beyond what it has seen, or loses it.
LEMMA LogsStep == LogsTypeOK /\ LogInv /\ [LogsNext]_logsVars => LogsTypeOK' /\ LogInv'
<1>. SUFFICES ASSUME LogsTypeOK, LogInv, [LogsNext]_logsVars PROVE LogsTypeOK' /\ LogInv'
  OBVIOUS
<1>0. buffers["stdout"] \in Seq(Parts) /\ buffers["stderr"] \in Seq(Parts) /\ Written \in Nat
  BY LenProperties DEF LogsTypeOK, Streams, Written
<1>1. ASSUME NEW s \in Streams, WriteOutput(s) PROVE LogsTypeOK' /\ LogInv'
  <2>0. PICK ends \in BOOLEAN :
          buffers' = [buffers EXCEPT ![s] = Append(@, [n |-> Written + 1, ends |-> ends])]
    BY <1>1 DEF WriteOutput
  <2>. DEFINE part == [n |-> Written + 1, ends |-> ends]
              b == buffers[s]
              c == buffers'[s]
  <2>1. part \in Parts /\ part.n = Written + 1 /\ b \in Seq(Parts)
    BY <1>0 DEF Parts, LogsTypeOK
  <2>2. /\ c = Append(b, part)
        /\ \A t \in Streams \ {s} : buffers'[t] = buffers[t]
        /\ UNCHANGED <<podLog, pump, missed>>
    BY <1>1, <2>0 DEF WriteOutput, LogsTypeOK
  <2>. HIDE DEF part
  <2>3. /\ c \in Seq(Parts) /\ c # <<>> /\ Len(b) \in Nat /\ Len(c) = Len(b) + 1 /\ c[Len(b) + 1] = part
        /\ \A i \in 1..Len(b) : c[i] = b[i]
    BY <2>1, <2>2, AppendProperties, LenProperties
  <2>4. LogsTypeOK'
    <3>1. buffers' \in [Streams -> Seq(Parts)]
      BY <2>0, <2>2, <2>3 DEF LogsTypeOK
    <3>. QED
      BY <2>2, <3>1 DEF LogsTypeOK
  <2>. HIDE DEF b, c
  <2>5. ASSUME NEW u \in Streams, OneStream(u)'
        PROVE  /\ pump.seen <= Len(buffers'[u]) /\ Numbered(buffers'[u]) /\ missed \subseteq 1..pump.seen
               /\ Faithful(podLog, buffers'[u], pump.seen, missed)
    <3>1. u = s
      BY <2>3, <2>5 DEF OneStream, c
    <3>2. OneStream(s)
      BY <2>2, <2>5, <3>1 DEF OneStream
    <3>3. pump.seen <= Len(b) /\ Numbered(b) /\ missed \subseteq 1..pump.seen /\ Faithful(podLog, b, pump.seen, missed)
      BY <3>2 DEF LogInv, b
    <3>4. Written = Len(b)
      <4>1. CASE s = "stdout"
        <5>1. buffers["stderr"] = <<>>
          BY <3>2, <4>1 DEF OneStream, Streams
        <5>2. Written = Len(b) + Len(<<>>)
          BY <4>1, <5>1 DEF Written, b
        <5>. QED
          BY <2>3, <5>2
      <4>2. CASE s = "stderr"
        <5>1. buffers["stdout"] = <<>>
          BY <3>2, <4>2 DEF OneStream, Streams
        <5>2. Written = Len(<<>>) + Len(b)
          BY <4>2, <5>1 DEF Written, b
        <5>. QED
          BY <2>3, <5>2
      <4>. QED
        BY <4>1, <4>2 DEF Streams
    <3>5. Numbered(c)
      <4>. SUFFICES ASSUME NEW k \in 1..Len(c) PROVE c[k].n = k
        BY DEF Numbered
      <4>1. CASE k \in 1..Len(b)
        BY <2>3, <3>3, <4>1 DEF Numbered
      <4>2. CASE k = Len(b) + 1
        BY <2>1, <2>3, <3>4, <4>2
      <4>. QED
        BY <2>3, <4>1, <4>2
    <3>6. ASSUME NEW i \in 1..Len(podLog), c[podLog[i].n].ends PROVE podLog[i].ends
      <4>1. podLog[i].n \in (1..pump.seen) \ missed
        BY <3>3 DEF Faithful
      <4>2. podLog[i].n \in 1..Len(b)
        BY <2>3, <3>3, <4>1 DEF LogsTypeOK
      <4>. QED
        BY <2>3, <3>3, <3>6, <4>2 DEF Faithful
    <3>7. Faithful(podLog, c, pump.seen, missed)
      BY <3>3, <3>6 DEF Faithful
    <3>8. pump.seen <= Len(c)
      BY <2>3, <3>3 DEF LogsTypeOK
    <3>. QED
      BY <3>1, <3>3, <3>5, <3>7, <3>8 DEF c
  <2>. QED
    BY <2>2, <2>4, <2>5 DEF LogInv
<1>2. CASE PumpRead
  <2>. DEFINE new == [i \in 1..Len(Chunk) |-> [n |-> Chunk[i].n, ends |-> Chunk[i].ends \/ i = Len(Chunk)]]
              all == podLog \o new
  <2>0. Len(AgentLogs) > pump.seen
    BY <1>2 DEF PumpRead
  <2>1. /\ AgentLogs \in Seq(Parts) /\ Len(AgentLogs) \in Nat /\ pump.seen \in Nat
        /\ Chunk \in Seq(Parts) /\ Len(Chunk) = Len(AgentLogs) - pump.seen
        /\ \A i \in 1..Len(Chunk) : Chunk[i] = AgentLogs[pump.seen + i]
        /\ \A s \in Streams : OneStream(s) => AgentLogs = buffers[s]
    BY <2>0, ChunkParts
  <2>2. /\ podLog' = all /\ pump' = [pc |-> "check", seen |-> Len(AgentLogs)]
        /\ UNCHANGED <<buffers, missed>>
    BY <1>2 DEF PumpRead, AppendK8sLog
  <2>. HIDE DEF AgentLogs, Chunk
  <2>3. new \in Seq(Parts) /\ Len(new) = Len(Chunk)
    <3>1. \A i \in 1..Len(Chunk) : Chunk[i] \in Parts
      BY <2>1, ElementOfSeq
    <3>2. Len(Chunk) \in Nat
      BY <2>1, LenProperties
    <3>3. ASSUME NEW i \in 1..Len(Chunk)
          PROVE  [n |-> Chunk[i].n, ends |-> Chunk[i].ends \/ i = Len(Chunk)] \in Parts
      BY <3>1 DEF Parts
    <3>. QED
      BY <3>2, <3>3, IsASeq
  <2>4. \A i \in 1..Len(new) : /\ new[i].n = AgentLogs[pump.seen + i].n
                               /\ AgentLogs[pump.seen + i].ends => new[i].ends
    BY <2>1, <2>3
  <2>. HIDE DEF new
  <2>5. podLog \in Seq(Parts)
    BY DEF LogsTypeOK
  <2>6. LogsTypeOK'
    <3>1. all \in Seq(Parts)
      BY <2>3, <2>5, ConcatProperties
    <3>. HIDE DEF all
    <3>. QED
      BY <2>1, <2>2, <3>1 DEF LogsTypeOK
  <2>7. ASSUME NEW s \in Streams, OneStream(s)
        PROVE  Numbered(buffers[s]) /\ Faithful(all, buffers[s], Len(buffers[s]), missed)
               /\ AgentLogs = buffers[s] /\ missed \subseteq 1..pump.seen
    <3>1. /\ AgentLogs = buffers[s] /\ Numbered(buffers[s]) /\ missed \in SUBSET (1..pump.seen)
          /\ Faithful(podLog, buffers[s], pump.seen, missed)
      BY <2>1, <2>7 DEF LogInv
    <3>. QED
      BY <2>0, <2>1, <2>3, <2>4, <2>5, <3>1, ChunkIsFaithful
  <2>. HIDE DEF all
  <2>8. ASSUME NEW s \in Streams, OneStream(s)'
        PROVE  /\ pump'.seen <= Len(buffers'[s]) /\ Numbered(buffers'[s]) /\ missed' \subseteq 1..pump'.seen
               /\ Faithful(podLog', buffers'[s], pump'.seen, missed')
    <3>1. OneStream(s)
      BY <2>2, <2>8 DEF OneStream
    <3>2. pump'.seen = Len(buffers[s])
      BY <2>2, <2>7, <3>1
    <3>. QED
      BY <2>0, <2>1, <2>2, <2>7, <3>1, <3>2
  <2>. QED
    BY <2>6, <2>8 DEF LogInv
<1>3. CASE PumpLoses
  <2>0. Len(AgentLogs) > pump.seen
    BY <1>3 DEF PumpLoses
  <2>1. /\ Len(AgentLogs) \in Nat /\ pump.seen \in Nat /\ Len(Chunk) = Len(AgentLogs) - pump.seen
        /\ \A i \in 1..Len(Chunk) : Chunk[i] = AgentLogs[pump.seen + i]
        /\ \A s \in Streams : OneStream(s) => AgentLogs = buffers[s]
    BY <2>0, ChunkParts
  <2>. DEFINE gone == {Chunk[i].n : i \in 1..Len(Chunk)}
  <2>2. /\ missed' = missed \cup gone /\ pump' = [pc |-> "check", seen |-> Len(AgentLogs)]
        /\ UNCHANGED <<buffers, podLog>>
    BY <1>3 DEF PumpLoses
  <2>3. gone \subseteq Nat
    <3>1. Chunk \in Seq(Parts)
      BY <2>0, ChunkParts
    <3>. HIDE DEF Chunk
    <3>2. \A i \in 1..Len(Chunk) : Chunk[i] \in Parts
      BY <3>1, ElementOfSeq
    <3>. QED
      BY <3>2 DEF Parts
  <2>4. LogsTypeOK'
    <3>. HIDE DEF gone, AgentLogs
    <3>. QED
      BY <2>1, <2>2, <2>3 DEF LogsTypeOK
  <2>5. ASSUME NEW s \in Streams, OneStream(s)
        PROVE  /\ Len(AgentLogs) = Len(buffers[s]) /\ Numbered(buffers[s])
               /\ missed \cup gone \subseteq 1..Len(AgentLogs)
               /\ Faithful(podLog, buffers[s], Len(AgentLogs), missed \cup gone)
    <3>1. /\ AgentLogs = buffers[s] /\ Numbered(buffers[s]) /\ missed \subseteq 1..pump.seen
          /\ Faithful(podLog, buffers[s], pump.seen, missed)
      BY <2>1, <2>5 DEF LogInv
    <3>. HIDE DEF AgentLogs, Chunk
    <3>2. gone = pump.seen + 1 .. Len(AgentLogs)
      <4>1. ASSUME NEW i \in 1..Len(Chunk) PROVE Chunk[i].n = pump.seen + i
        <5>1. pump.seen + i \in 1..Len(AgentLogs)
          BY <2>0, <2>1
        <5>. QED
          BY <2>1, <3>1, <5>1 DEF Numbered
      <4>2. ASSUME NEW k \in pump.seen + 1 .. Len(AgentLogs) PROVE k - pump.seen \in 1..Len(Chunk)
        BY <2>0, <2>1
      <4>3. \A k \in pump.seen + 1 .. Len(AgentLogs) : Chunk[k - pump.seen].n = k
        BY <2>1, <4>1, <4>2
      <4>4. \A i \in 1..Len(Chunk) : pump.seen + i \in pump.seen + 1 .. Len(AgentLogs)
        BY <2>0, <2>1
      <4>5. gone \subseteq pump.seen + 1 .. Len(AgentLogs)
        BY <4>1, <4>4
      <4>6. ASSUME NEW k \in pump.seen + 1 .. Len(AgentLogs) PROVE k \in gone
        <5>1. k - pump.seen \in 1..Len(Chunk) /\ k = Chunk[k - pump.seen].n
          BY <4>2, <4>3
        <5>. QED
          BY <5>1
      <4>. HIDE DEF gone
      <4>. QED
        BY <4>5, <4>6
    <3>. HIDE DEF gone
    <3>3. (1..Len(AgentLogs)) \ (missed \cup gone) = (1..pump.seen) \ missed
      BY <2>0, <2>1, <3>1, <3>2
    <3>4. missed \cup gone \subseteq 1..Len(AgentLogs)
      <4>1. \A k \in 1..pump.seen : k \in 1..Len(AgentLogs)
        BY <2>0, <2>1
      <4>2. \A k \in pump.seen + 1 .. Len(AgentLogs) : k \in 1..Len(AgentLogs)
        BY <2>0, <2>1
      <4>. QED
        BY <3>1, <3>2, <4>1, <4>2
    <3>5. Faithful(podLog, buffers[s], Len(AgentLogs), missed \cup gone)
      BY <3>1, <3>3 DEF Faithful
    <3>. QED
      BY <3>1, <3>4, <3>5
  <2>. HIDE DEF gone
  <2>6. ASSUME NEW s \in Streams, OneStream(s)'
        PROVE  /\ pump'.seen <= Len(buffers'[s]) /\ Numbered(buffers'[s]) /\ missed' \subseteq 1..pump'.seen
               /\ Faithful(podLog', buffers'[s], pump'.seen, missed')
    <3>1. OneStream(s)
      BY <2>2, <2>6 DEF OneStream
    <3>. HIDE DEF AgentLogs
    <3>2. pump'.seen = Len(AgentLogs)
      BY <2>2
    <3>3. Len(AgentLogs) <= Len(buffers[s])
      BY <2>1, <2>5, <3>1
    <3>. QED
      BY <2>2, <2>5, <3>1, <3>2, <3>3
  <2>. QED
    BY <2>4, <2>6 DEF LogInv
<1>4. CASE PauseDies \/ ContainerForgotten \/ PumpCheck \/ PumpMisled \/ PumpNothing \/ PumpError
  <2>1. /\ UNCHANGED <<buffers, podLog, missed>> /\ pump'.seen = pump.seen
        /\ pump' \in [pc: {"check", "read", "misled", "ended"}, seen: Nat]
    BY <1>4 DEF LogsTypeOK, PauseDies, ContainerForgotten, PumpCheck, PumpMisled, PumpNothing, PumpError
  <2>. QED
    BY <2>1 DEF LogsTypeOK, LogInv, OneStream
<1>5. CASE UNCHANGED logsVars
  BY <1>5 DEF logsVars, LogsTypeOK, LogInv, OneStream
<1>. QED
  BY <1>1, <1>2, <1>3, <1>4, <1>5 DEF LogsNext, Pump

\* What the log pump has read of a process that writes to one stream is in the
\* log, each part once, in order and with its line's end, but for the parts
\* whose file could not be opened, whatever calls fail (logs.go).
THEOREM LogIsFaithfulHolds == LogsInit /\ [][LogsNext]_logsVars => []LogIsFaithful
<1>1. LogsTypeOK /\ LogInv => LogIsFaithful
  BY DEF LogInv, LogIsFaithful, Faithful
<1>. QED
  BY <1>1, LogsInitHolds, LogsStep, PTL
===============================================================================
