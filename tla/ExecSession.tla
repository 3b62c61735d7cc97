---------------------------- MODULE ExecSession ----------------------------
(***************************************************************************)
(* kubectl exec and exec probes: marooned-oci posts the command to the     *)
(* shim, the shim calls the guest's agent, the agent runs it.  Without a   *)
(* terminal the answer is the command's output and code, and the call has  *)
(* a deadline; with one, input and output are copied until the output      *)
(* ends.  The container may start and exit at any point between, and the   *)
(* guest's init starts an agent that died again, with nothing in memory,   *)
(* while the container's process goes on.                                  *)
(***************************************************************************)
EXTENDS Naturals

CONSTANTS
    Execs,      \* the commands asked for
    CmdCodes,   \* exit codes of commands that end by themselves
    NoCode      \* no exit code (yet)

ASSUME ExecAssumption == CmdCodes \subseteq 0..255 /\ NoCode \notin 0..255

VARIABLES
    target,      \* the container: "created", "unpacked", "running", "exited"
    guestUp,     \* its VM runs
    shimKnows,   \* the shim's store has the container
    known,       \* what the agent's maps have of it: its "root", its "process"
    execs        \* what became of every command

execVars == <<target, guestUp, shimKnows, known, execs>>

NotAsked == [pc |-> "idle", tty |-> FALSE, steady |-> FALSE,
             place |-> "none", code |-> NoCode, result |-> NoCode]

Waiting(e) == execs[e].pc # "idle" /\ execs[e].result = NoCode

MutFailed(e) == 0

\* What marooned-oci returns for a call that failed.  With a terminal the
\* server has said 200 before it calls the runtime, and drops the error.
Failed(e) == IF execs[e].tty THEN 0 ELSE 1
-----------------------------------------------------------------------------
\* The container runs, and the agent that started it is still there.
Steady == target = "running" /\ known = {"root", "process"}

\* loadExec: the process file's command, and whether it wants a terminal.
LoadExec(tty) == [NotAsked EXCEPT !.pc = "posted", !.tty = tty, !.steady = Steady]

DoExec(e, tty) ==
    /\ execs[e].pc = "idle"
    /\ execs' = [execs EXCEPT ![e] = LoadExec(tty)]
    /\ UNCHANGED <<target, guestUp, shimKnows, known>>

\* The server's execSync and execTTY call the runtime, which looks the
\* container up and dials the agent.
ShimExec(e) ==
    /\ execs[e].pc = "posted" /\ Waiting(e)
    /\ execs' = IF shimKnows /\ guestUp
                THEN [execs EXCEPT ![e].pc = IF execs[e].tty THEN "checked" ELSE "asked"]
                ELSE [execs EXCEPT ![e].pc = "over", ![e].result = Failed(e)]
    /\ UNCHANGED <<target, guestUp, shimKnows, known>>

\* exec refuses a container it knows to be dead; execTTY does not look, and an
\* agent that has started again knows of none.
AgentExec(e) ==
    /\ execs[e].pc = "asked"
    /\ execs' = IF target = "exited" /\ "process" \in known
                THEN [execs EXCEPT ![e].pc = "ended", ![e].code = 1]
                ELSE [execs EXCEPT ![e].pc = "checked"]
    /\ UNCHANGED <<target, guestUp, shimKnows, known>>

\* exec and execTTY choose where the command runs by what they see now: in the
\* namespaces of the live process in their map, in the container's directory
\* alone, or in the guest itself.  A directory that is not in their map they
\* find only if it is named by the container's id.
ChoosePlace(e) ==
    /\ execs[e].pc = "checked"
    /\ \E found \in BOOLEAN :
          /\ "root" \in known => found
          /\ target = "created" => ~found
          /\ execs' = IF found /\ target = "running" /\ "process" \in known
                      THEN [execs EXCEPT ![e].pc = "enters"]
                      ELSE [execs EXCEPT ![e].pc = "runs", ![e].place = IF found THEN "root" ELSE "guest"]
    /\ UNCHANGED <<target, guestUp, shimKnows, known>>

\* pidns-exec joins the namespace of the process read then, if it is there.
RunPidnsExec(e) ==
    /\ execs[e].pc = "enters"
    /\ execs' = IF target = "running"
                THEN [execs EXCEPT ![e].pc = "runs", ![e].place = "namespace"]
                ELSE [execs EXCEPT ![e].pc = "ended", ![e].code = 1]
    /\ UNCHANGED <<target, guestUp, shimKnows, known>>

\* The command ends, and may leave behind children that hold its output.
CommandExits(e) ==
    /\ execs[e].pc = "runs"
    /\ \E code \in CmdCodes, pc \in {"ended", "left"} :
          execs' = [execs EXCEPT ![e].pc = pc, ![e].code = code]
    /\ UNCHANGED <<target, guestUp, shimKnows, known>>

ChildrenExit(e) ==
    /\ execs[e].pc = "left"
    /\ execs' = [execs EXCEPT ![e].pc = "ended"]
    /\ UNCHANGED <<target, guestUp, shimKnows, known>>

\* The answer of exec, with the command's code.
AnswerExec(e) ==
    /\ execs[e].pc = "ended" /\ ~execs[e].tty
    /\ execs' = [execs EXCEPT ![e].pc = "over",
                              ![e].result = IF Waiting(e) THEN execs[e].code ELSE @]
    /\ UNCHANGED <<target, guestUp, shimKnows, known>>

MutAnswerTTY(e) ==
    /\ execs[e].pc = "ended" /\ execs[e].tty /\ ~guestUp
    /\ execs' = [execs EXCEPT ![e].pc = "over", ![e].result = IF Waiting(e) THEN 0 ELSE @]
    /\ UNCHANGED <<target, guestUp, shimKnows, known>>

\* The agent has closed its own end of the command's output, so the output
\* ends with the last process that holds it, then every copy of it; the code
\* is not passed on.
AnswerTTY(e) ==
    /\ execs[e].pc = "ended" /\ execs[e].tty
    /\ execs' = [execs EXCEPT ![e].pc = "over", ![e].result = IF Waiting(e) THEN 0 ELSE @]
    /\ UNCHANGED <<target, guestUp, shimKnows, known>>

\* The deadline of the call; the command goes on in the guest.
ExecTimeout(e) ==
    /\ execs[e].pc \in {"asked", "checked", "enters", "runs", "left", "ended"}
    /\ Waiting(e) /\ ~execs[e].tty
    /\ execs' = [execs EXCEPT ![e].result = Failed(e)]
    /\ UNCHANGED <<target, guestUp, shimKnows, known>>

\* The guest is gone: the connection breaks.
ConnectionBreaks(e) ==
    /\ execs[e].pc = "lost" /\ Waiting(e)
    /\ execs' = [execs EXCEPT ![e].pc = "over", ![e].result = Failed(e)]
    /\ UNCHANGED <<target, guestUp, shimKnows, known>>

\* A user closes the terminal: nobody waits, and nothing tells the guest.
UserLeaves(e) ==
    /\ Waiting(e) /\ execs[e].tty
    /\ execs' = [execs EXCEPT ![e].result = 0]
    /\ UNCHANGED <<target, guestUp, shimKnows, known>>
-----------------------------------------------------------------------------
\* prepareRootfs makes the container's directory, start its process; either
\* is told to the agent's maps, and the first may be asked for again.
TargetStep ==
    /\ guestUp
    /\ \/ target \in {"created", "unpacked"} /\ target' = "unpacked" /\ known' = known \cup {"root"}
       \/ target = "unpacked" /\ target' = "running" /\ known' = known \cup {"process"}
    /\ UNCHANGED <<guestUp, shimKnows, execs>>

\* The container's process ends, and every other one of its namespace.
TargetExits ==
    /\ guestUp /\ target = "running"
    /\ target' = "exited"
    /\ execs' = [e \in Execs |->
          [execs[e] EXCEPT
             !.steady = FALSE,
             !.pc = IF @ \in {"runs", "left"} /\ execs[e].place = "namespace" THEN "ended" ELSE @,
             !.code = IF execs[e].pc = "runs" /\ execs[e].place = "namespace" THEN 137 ELSE @]]
    /\ UNCHANGED <<guestUp, shimKnows, known>>

\* A command the agent is at when it dies with its connections is lost.
Cut(x) == [x EXCEPT !.steady = FALSE, !.pc = IF @ \in {"idle", "posted", "over"} THEN @ ELSE "lost"]

\* init starts the agent again; the container's process is not its own.
AgentRestarts ==
    /\ guestUp /\ known # {}
    /\ known' = {}
    /\ execs' = [e \in Execs |-> Cut(execs[e])]
    /\ UNCHANGED <<target, guestUp, shimKnows>>

GuestDies ==
    /\ guestUp
    /\ guestUp' = FALSE
    /\ execs' = [e \in Execs |-> Cut(execs[e])]
    /\ UNCHANGED <<target, shimKnows, known>>

\* The shim starts again with an empty store; its calls end with it.
ShimStartsAgain ==
    /\ shimKnows
    /\ shimKnows' = FALSE
    /\ execs' = [e \in Execs |->
          IF Waiting(e) THEN [execs[e] EXCEPT !.result = Failed(e),
                                              !.pc = IF @ = "posted" THEN "over" ELSE @]
          ELSE execs[e]]
    /\ UNCHANGED <<target, guestUp, known>>
-----------------------------------------------------------------------------
ExecInit ==
    /\ target = "created"
    /\ guestUp = TRUE /\ shimKnows = TRUE /\ known = {}
    /\ execs = [e \in Execs |-> NotAsked]

\* The shim and the agent do what they are asked.
ServeExec(e) ==
    \/ ShimExec(e) \/ AgentExec(e) \/ ChoosePlace(e) \/ RunPidnsExec(e)
    \/ AnswerExec(e) \/ AnswerTTY(e) \/ ExecTimeout(e) \/ ConnectionBreaks(e)

ExecNext ==
    \/ \E e \in Execs : (\E tty \in BOOLEAN : DoExec(e, tty)) \/ UserLeaves(e) \/ ServeExec(e)
    \/ \E e \in Execs : CommandExits(e) \/ ChildrenExit(e)
    \/ TargetStep \/ TargetExits \/ AgentRestarts \/ GuestDies \/ ShimStartsAgain
-----------------------------------------------------------------------------
\* A probe or an exec without a terminal returns 0 only for a command that was
\* run and ended with 0: no lost call, late answer, dead container or timeout
\* looks like success.
SuccessIsReal ==
    \A e \in Execs : ~execs[e].tty /\ execs[e].result = 0 => execs[e].code = 0 /\ execs[e].place # "none"

\* A command whose container has been running since it was asked for, under
\* the agent that started it, runs with the container's processes, never beside
\* them in its directory or in the guest; it may do that only when the container
\* starts or ends meanwhile, or when the agent has started again.
ExecLandsInside ==
    \A e \in Execs : execs[e].steady => execs[e].place \in {"none", "namespace"}

\* An exec is what it is taken for: its success is the command's own, and
\* the command runs where the container does as long as its agent lives.
ExecRunsAsAsked == SuccessIsReal /\ ExecLandsInside

\* Whoever waits gets an answer, unless it is a terminal whose command, or a
\* child it left, runs: the end of a command, of its container, of the agent,
\* of the VM or of the shim is seen.
ExecEnds ==
    \A e \in Execs : Waiting(e) ~> (~Waiting(e) \/ (execs[e].tty /\ execs[e].pc \in {"runs", "left"}))
=============================================================================
