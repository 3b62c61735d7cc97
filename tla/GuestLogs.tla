----------------------------- MODULE GuestLogs -----------------------------
(***************************************************************************)
(* The log of a container: the agent keeps what the process wrote in two   *)
(* buffers, the log pump beside the pause process asks for all of it every *)
(* 400 ms and appends what is new to the Pod's log file.  Output comes in  *)
(* parts, each of which ends a line or leaves it open.                     *)
(***************************************************************************)
EXTENDS Naturals, Sequences

CONSTANTS
    MaxParts,   \* bound: parts of output written
    MaxAnswer,  \* parts that fit into one message of the agent
    MaxDrops    \* bound: calls, opens and reads of files that fail

ASSUME LogsAssumption == MaxParts \in Nat /\ MaxAnswer \in Nat /\ MaxDrops \in Nat

Streams == {"stdout", "stderr"}

VARIABLES
    buffers,   \* the agent's buffers: parts [n, ends], numbered as they are written
    pauseUp,   \* the pause process lives
    knows,     \* the shim's store and the agent's map have the container
    pump,      \* the pump: [pc, seen]
    podLog,    \* the log file: the parts in it, ends where it has a line's end
    missed,    \* the parts the pump has read but could not write
    drops

logsVars == <<buffers, pauseUp, knows, pump, podLog, missed, drops>>

Written == Len(buffers["stdout"]) + Len(buffers["stderr"])

WriteOutput(s) ==
    /\ pauseUp /\ Written < MaxParts
    /\ \E ends \in BOOLEAN :
          buffers' = [buffers EXCEPT ![s] = Append(@, [n |-> Written + 1, ends |-> ends])]
    /\ UNCHANGED <<pauseUp, knows, pump, podLog, missed, drops>>

PauseDies ==
    /\ pauseUp
    /\ pauseUp' = FALSE
    /\ UNCHANGED <<buffers, knows, pump, podLog, missed, drops>>

\* The shim or the agent starts again with nothing in memory.
ContainerForgotten ==
    /\ knows
    /\ knows' = FALSE
    /\ UNCHANGED <<buffers, pauseUp, pump, podLog, missed, drops>>
-----------------------------------------------------------------------------
\* logs: all of one buffer after all of the other.
AgentLogs == buffers["stdout"] \o buffers["stderr"]

\* ReadEnvelope refuses a message of more than 16 MiB.
TooLong == Len(AgentLogs) > MaxAnswer

\* The call brings an answer.
Answered == pump.pc = "read" /\ knows /\ ~TooLong

\* The loop ends with the pause.
PumpCheck ==
    /\ pump.pc = "check"
    /\ pump' = [pump EXCEPT !.pc = IF pauseUp THEN "read" ELSE "ended"]
    /\ UNCHANGED <<buffers, pauseUp, knows, podLog, missed, drops>>

\* It ends, too, when state.json is read while another process is writing it:
\* readStatePID makes 0 of a file that is cut short.
PumpMisled ==
    /\ pump.pc = "check" /\ drops > 0
    /\ pump' = [pump EXCEPT !.pc = "misled"]
    /\ drops' = drops - 1
    /\ UNCHANGED <<buffers, pauseUp, knows, podLog, missed>>

Chunk == SubSeq(AgentLogs, pump.seen + 1, Len(AgentLogs))

\* appendK8sLog writes whole lines: a chunk that stops inside a line ends it.
AppendK8sLog(log, chunk) ==
    log \o [i \in 1..Len(chunk) |-> [n |-> chunk[i].n, ends |-> chunk[i].ends \/ i = Len(chunk)]]

PumpRead ==
    /\ Answered /\ Len(AgentLogs) > pump.seen
    /\ podLog' = AppendK8sLog(podLog, Chunk)
    /\ pump' = [pc |-> "check", seen |-> Len(AgentLogs)]
    /\ UNCHANGED <<buffers, pauseUp, knows, missed, drops>>

\* The file cannot be opened: the chunk is dropped, and counts as seen.
PumpLoses ==
    /\ Answered /\ Len(AgentLogs) > pump.seen /\ drops > 0
    /\ missed' = missed \cup {Chunk[i].n : i \in 1..Len(Chunk)}
    /\ pump' = [pc |-> "check", seen |-> Len(AgentLogs)]
    /\ drops' = drops - 1
    /\ UNCHANGED <<buffers, pauseUp, knows, podLog>>

PumpNothing ==
    /\ Answered /\ Len(AgentLogs) <= pump.seen
    /\ pump' = [pump EXCEPT !.pc = "check"]
    /\ UNCHANGED <<buffers, pauseUp, knows, podLog, missed, drops>>

MutPumpError ==
    /\ pump.pc = "read"
    /\ IF Answered THEN drops > 0 /\ drops' = drops - 1 ELSE UNCHANGED drops
    /\ pump' = [pump EXCEPT !.pc = "ended"]
    /\ UNCHANGED <<buffers, pauseUp, knows, podLog, missed>>

\* A failed call is made again.
PumpError ==
    /\ pump.pc = "read"
    /\ IF Answered THEN drops > 0 /\ drops' = drops - 1 ELSE UNCHANGED drops
    /\ pump' = [pump EXCEPT !.pc = "check"]
    /\ UNCHANGED <<buffers, pauseUp, knows, podLog, missed>>
-----------------------------------------------------------------------------
LogsInit ==
    /\ buffers = [s \in Streams |-> <<>>]
    /\ pauseUp = TRUE /\ knows = TRUE
    /\ pump = [pc |-> "check", seen |-> 0]
    /\ podLog = <<>> /\ missed = {}
    /\ drops = MaxDrops

Pump == PumpCheck \/ PumpRead \/ PumpNothing \/ PumpError

LogsNext ==
    \/ \E s \in Streams : WriteOutput(s)
    \/ PauseDies \/ ContainerForgotten \/ Pump \/ PumpMisled \/ PumpLoses
-----------------------------------------------------------------------------
OneStream(s) == \A t \in Streams \ {s} : buffers[t] = <<>>

\* What the pump has read from a process that writes to one stream only is in
\* the log, each part once and in the order written, except the parts whose
\* file could not be opened; and no line is joined with the next, though one
\* may be cut where a poll fell.  Once both streams are used it is not so: what
\* is read is one buffer after the other, and what is new is told by its length.
LogIsFaithful ==
    \A s \in Streams : OneStream(s) =>
       /\ \A i, j \in 1..Len(podLog) : i < j => podLog[i].n < podLog[j].n
       /\ {podLog[i].n : i \in 1..Len(podLog)} = (1..pump.seen) \ missed
       /\ \A i \in 1..Len(podLog) : buffers[s][podLog[i].n].ends => podLog[i].ends

\* While the pause lives and the container is known, and as long as its whole
\* output fits into one answer, the pump catches up, unless it has met
\* state.json half written.
LogCatchesUp ==
    (Written > pump.seen) ~> (\/ Written = pump.seen \/ TooLong \/ ~pauseUp \/ ~knows
                               \/ pump.pc = "misled")

\* The Pod's log is, and in the end is all of, what the container has
\* written, through failed calls of the pump (logs.go).
LogFollowsGuest == []LogIsFaithful /\ LogCatchesUp
=============================================================================
