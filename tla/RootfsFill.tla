----------------------------- MODULE RootfsFill -----------------------------
(***************************************************************************)
(* How a container gets its root filesystem inside the VM.  The node's     *)
(* shim (pkg/cri Runtime.StartContainer) asks the guest agent over one     *)
(* connection to prepare the disk, streams the host's tree as a tar, falls *)
(* back to an image pull by the guest, and starts the process; the agent   *)
(* (cmd/marooned-agent) unpacks the stream in a goroutine of its own that  *)
(* it finds again, chunk after chunk, under the container's id.            *)
(*                                                                         *)
(* One container of one VM.  Its StartContainer calls follow one another:  *)
(* the kubelet calls again after a failure or an exit, and a call that a   *)
(* killed container left behind may still be running when the next one     *)
(* comes (Overlap).  A slot of Calls is a call with its connection; it is  *)
(* used again once the agent has left the connection.                      *)
(***************************************************************************)
EXTENDS Naturals, Sequences, FiniteSets

CONSTANTS
    NCalls,      \* bound: calls whose connection the agent still serves
    NPieces,     \* pieces (chunks) of the tar stream
    Marks,       \* pieces that hold a file rootfsPopulated looks for
    ShAt,        \* the one of them that begins bin/sh
    Shell,       \* the pieces bin/sh needs to work: its bytes, link target, loader
    CanPull,     \* is the image's registry reachable from the guest?
    Overlap,     \* may a call begin while another is in progress?
    MaxDiskFaults,  \* bound: failed writes to the guest disk, mounts, layers
    MaxHostFaults,  \* bound: host trees that cannot be read to the end
    MaxTimeouts     \* bound: answers that come after the deadline

ASSUME CallsAssumption == NCalls \in Nat \ {0}
ASSUME PiecesAssumption == /\ NPieces \in Nat \ {0}
                           /\ Marks \subseteq 1..NPieces /\ Shell \subseteq 1..NPieces
                           /\ ShAt \in Marks \cap Shell
ASSUME ModeAssumption == CanPull \in BOOLEAN /\ Overlap \in BOOLEAN
ASSUME FaultsAssumption == /\ MaxDiskFaults \in Nat
                           /\ MaxHostFaults \in Nat
                           /\ MaxTimeouts \in Nat

Calls == 1..NCalls
Pieces == 1..NPieces
Jobs == 1..NCalls + 1  \* at most one per connection and one in the map

VARIABLES
    call,     \* what each StartContainer call waits for
    conn,     \* its connection: requests and answers on the way
    serving,  \* the agent's goroutine for the connection
    jobs,     \* the unpack goroutines that can still be reached
    unpacker, \* the agent's map entry unpackers[id]: a job, 0 when absent
    tree,     \* the pieces of the image that are whole on the guest disk
    made,     \* the pieces whose files are there, whole or cut short
    torn,     \* some file holds bytes of another part of a stream
    started,  \* the agent has started a process from the tree
    budget    \* how many more faults of each kind may happen

vars == <<call, conn, serving, jobs, unpacker, tree, made, torn, started, budget>>
guestVars == <<jobs, unpacker, tree, made, torn, started>>

Whole == tree = Pieces /\ ~torn

\* rootfsPopulated: the name of one shell is enough, whatever its file holds.
RootfsPopulated == Marks \cap made # {}

\* What the start executes: /bin/sh in the new root, as the image has it.
ShellWorks == Shell \subseteq tree /\ ~torn

Spend(kind) ==
    /\ budget[kind] > 0
    /\ budget' = [budget EXCEPT ![kind] = @ - 1]

\* An unpack goroutine waits for piece next; its result can be taken once.
NewJob == [next |-> 1, state |-> "open", taken |-> FALSE]

Request(pc, k) == [of |-> pc, piece |-> k]
InProgress(c) == call[c].pc \notin {"idle", "running", "failed"}
-----------------------------------------------------------------------------
(* StartContainer.  pc names the request whose answer the call waits for.  *)

\* The next request goes out; rep is what stays unread on the connection.
Ask(c, pc, k, rep) ==
    /\ call' = [call EXCEPT ![c] = [pc |-> pc, piece |-> k]]
    /\ conn' = [conn EXCEPT ![c].req = Append(@, Request(pc, k)), ![c].rep = rep]

\* StartContainer returns and its deferred Close ends the connection.
Return(c, pc) ==
    /\ call' = [call EXCEPT ![c] = [pc |-> pc, piece |-> 0]]
    /\ conn' = [conn EXCEPT ![c].open = FALSE, ![c].rep = <<>>]

\* A call begins; PrepareRootfs is its first request.
StartContainer(c) ==
    /\ ~InProgress(c)
    /\ conn[c].req = <<>>
    /\ Overlap \/ \A d \in Calls : ~InProgress(d)
    /\ call' = [call EXCEPT ![c] = [pc |-> "prepare", piece |-> 0]]
    /\ conn' = [conn EXCEPT ![c] = [req |-> <<Request("prepare", 0)>>, rep |-> <<>>, open |-> TRUE]]
    /\ UNCHANGED <<serving, guestVars, budget>>

\* putHostRootfs after k pieces: the next one, EOF after the last, or, when
\* the host tree cannot be read on, guest-pull without an EOF.
PutHostRootfs(c, k, rep) ==
    \/ k < NPieces /\ Ask(c, "copy", k + 1, rep) /\ UNCHANGED budget
    \/ k = NPieces /\ Ask(c, "eof", 0, rep) /\ UNCHANGED budget
    \/ k < NPieces /\ Spend("host") /\ Ask(c, "pull", 0, rep)

\* Call takes the next envelope on the connection for its answer: neither
\* the id nor the method is compared.
TakeAnswer(c) ==
    LET pc == call[c].pc
        r == Head(conn[c].rep)
        rest == Tail(conn[c].rep)
    IN  /\ InProgress(c)
        /\ conn[c].rep # <<>>
        /\ \/ pc = "prepare" /\ ~r.ok /\ Return(c, "failed") /\ UNCHANGED budget
           \/ pc = "prepare" /\ r.ok /\ r.populated /\ Ask(c, "start", 0, rest) /\ UNCHANGED budget
           \/ pc = "prepare" /\ r.ok /\ ~r.populated /\ PutHostRootfs(c, 0, rest)
           \/ pc = "copy" /\ r.ok /\ PutHostRootfs(c, call[c].piece, rest)
           \/ pc \in {"copy", "eof"} /\ ~r.ok /\ Ask(c, "pull", 0, rest) /\ UNCHANGED budget
           \/ pc \in {"eof", "pull"} /\ r.ok /\ Ask(c, "start", 0, rest) /\ UNCHANGED budget
           \/ pc \in {"pull", "start"} /\ ~r.ok /\ Return(c, "failed") /\ UNCHANGED budget
           \/ pc = "start" /\ r.ok /\ Return(c, "running") /\ UNCHANGED budget
        /\ UNCHANGED <<serving, guestVars>>

\* Mutant: a request is sent without a deadline.
MutStuck(c) == FALSE

\* The agent's goroutine waits for a result that another one has taken.
Stuck(c) ==
    /\ serving[c].pc = "write"
    /\ jobs[serving[c].job].taken
    /\ Head(conn[c].req).of = "eof"

\* The deadline passes before the answer.  A copy that times out goes on to
\* guest-pull on the same connection; any other call returns.
Deadline(c) ==
    /\ InProgress(c)
    /\ conn[c].rep = <<>>
    /\ \/ Spend("timeout")
       \/ Stuck(c) /\ UNCHANGED budget
    /\ IF call[c].pc \in {"copy", "eof"} THEN Ask(c, "pull", 0, <<>>)
                                         ELSE Return(c, "failed")
    /\ UNCHANGED <<serving, guestVars>>
-----------------------------------------------------------------------------
(* The agent: one goroutine per connection, one request at a time.         *)

Asked(c, pc) ==
    /\ conn[c].req # <<>>
    /\ Head(conn[c].req).of = pc

\* The answer is lost when the caller has closed the connection.
Answer(c, ok, populated) ==
    LET r == [of |-> Head(conn[c].req).of, ok |-> ok, populated |-> populated]
    IN  /\ conn' = [conn EXCEPT ![c].req = Tail(@),
                                ![c].rep = IF conn[c].open THEN Append(@, r) ELSE @]
        /\ serving' = [serving EXCEPT ![c] = [pc |-> "read", job |-> 0]]

\* serve returns when the connection is closed; what it has not read is lost.
HangUp(c) ==
    /\ ~conn[c].open
    /\ conn[c].req # <<>>
    /\ serving[c].pc = "read"
    /\ conn' = [conn EXCEPT ![c].req = <<>>]
    /\ UNCHANGED <<call, serving, guestVars, budget>>

\* Mutant: the disk is always said to be empty.
MutPrepareRootfs(c) ==
    /\ Asked(c, "prepare")
    /\ Answer(c, TRUE, FALSE)
    /\ UNCHANGED <<call, guestVars, budget>>

\* prepareRootfs: mount the disk once, report whether it has a shell.
PrepareRootfs(c) ==
    /\ Asked(c, "prepare")
    /\ \/ Answer(c, TRUE, RootfsPopulated) /\ UNCHANGED budget
       \/ Spend("disk") /\ Answer(c, FALSE, FALSE)
    /\ UNCHANGED <<call, guestVars>>

\* rootfs looks up the container's unpack job under the lock...
RootfsLookup(c) ==
    /\ Asked(c, "copy") \/ Asked(c, "eof")
    /\ serving[c].pc = "read"
    /\ serving' = [serving EXCEPT ![c] = [pc |-> IF unpacker = 0 THEN "new" ELSE "write",
                                          job |-> unpacker]]
    /\ UNCHANGED <<call, conn, guestVars, budget>>

\* ...and, outside it, starts one when there was none.
RootfsNewJob(c) ==
    LET inUse == {unpacker} \cup {serving[d].job : d \in Calls}
        j == CHOOSE i \in Jobs \ inUse : TRUE
    IN  /\ serving[c].pc = "new"
        /\ jobs' = [jobs EXCEPT ![j] = NewJob]
        /\ unpacker' = j
        /\ serving' = [serving EXCEPT ![c] = [pc |-> "write", job |-> j]]
        /\ UNCHANGED <<call, conn, tree, made, torn, started, budget>>

\* unpackTar has taken piece k of the stream it expected: the archive ends
\* with the last piece, and the goroutine with it.
Taken(job, k) ==
    [job EXCEPT !.next = k + 1, !.state = IF k = NPieces THEN "done" ELSE "open"]

\* unpackTar returns an error and closes its end of the pipe.
Broken(job) == [job EXCEPT !.state = "failed"]

\* A fault of the disk before the files of piece k are created, or after: the
\* file is truncated when it is opened, and copied to then.
CutShort(k) ==
    \/ UNCHANGED <<tree, made>>
    \/ tree' = tree \ {k} /\ made' = made \cup {k}

\* A piece is written to the job's pipe.
RootfsWrite(c) ==
    LET j == serving[c].job
        job == jobs[j]
        k == Head(conn[c].req).piece
    IN  /\ Asked(c, "copy")
        /\ serving[c].pc = "write"
        /\ \* the goroutine is gone: the pipe is closed
           \/ /\ job.state # "open"
              /\ Answer(c, FALSE, FALSE)
              /\ UNCHANGED <<jobs, tree, made, torn, budget>>
           \* the piece the stream goes on with
           \/ /\ job.state = "open" /\ k = job.next
              /\ jobs' = [jobs EXCEPT ![j] = Taken(job, k)]
              /\ tree' = tree \cup {k} /\ made' = made \cup {k}
              /\ Answer(c, TRUE, FALSE)
              /\ UNCHANGED <<torn, budget>>
           \* the disk is full; the error may show in this write or the next
           \/ /\ job.state = "open" /\ Spend("disk")
              /\ jobs' = [jobs EXCEPT ![j] = Broken(job)]
              /\ CutShort(k)
              /\ \E ok \in BOOLEAN : Answer(c, ok, FALSE)
              /\ UNCHANGED torn
           \* a piece of another stream in the middle of this one: it starts
           \* an entry by luck, or ends up inside a file, or is no tar header
           \/ /\ job.state = "open" /\ k # job.next
              /\ \/ /\ jobs' = [jobs EXCEPT ![j] = Taken(job, k)]
                    /\ tree' = tree \cup {k} /\ made' = made \cup {k}
                    /\ Answer(c, TRUE, FALSE)
                    /\ UNCHANGED torn
                 \/ /\ jobs' = [jobs EXCEPT ![j] = Taken(job, k)]
                    /\ torn' = TRUE
                    /\ Answer(c, TRUE, FALSE)
                    /\ UNCHANGED <<tree, made>>
                 \/ /\ jobs' = [jobs EXCEPT ![j] = Broken(job)]
                    /\ \E t, ok \in BOOLEAN : torn' = (torn \/ t) /\ Answer(c, ok, FALSE)
                    /\ UNCHANGED <<tree, made>>
              /\ UNCHANGED budget
        /\ UNCHANGED <<call, unpacker, started>>

\* Mutant: unpackTar's result is not looked at.
MutRootfsEOF(c) ==
    /\ Asked(c, "eof")
    /\ serving[c].pc = "write"
    /\ jobs' = [jobs EXCEPT ![serving[c].job].state = "done"]
    /\ unpacker' = 0
    /\ Answer(c, TRUE, FALSE)
    /\ UNCHANGED <<call, tree, made, torn, started, budget>>

\* EOF: close the pipe, wait for unpackTar's result and forget the job.  A
\* stream that ends early is an error unless it ends between two entries.
RootfsEOF(c) ==
    LET j == serving[c].job
        job == jobs[j]
    IN  /\ Asked(c, "eof")
        /\ serving[c].pc = "write"
        /\ ~job.taken
        /\ jobs' = [jobs EXCEPT ![j].taken = TRUE, ![j].state = IF @ = "open" THEN "done" ELSE @]
        /\ unpacker' = 0
        /\ \/ job.state # "failed" /\ Answer(c, TRUE, FALSE)
           \/ job.state # "done" /\ Answer(c, FALSE, FALSE)
        /\ UNCHANGED <<call, tree, made, torn, started, budget>>

\* The registry gives a manifest with layers for linux/amd64, without a token
\* when it asks for none or gives none.
FetchManifest == CanPull

\* Every layer is fetched and unpacked over what is there, or the layers up to
\* the one that fails, where the file that was being written is cut short.
FetchAndUnpackLayers(whole) ==
    IF whole
    THEN tree' = Pieces /\ made' = Pieces /\ torn' = FALSE /\ UNCHANGED budget
    ELSE /\ Spend("disk")
         /\ \E s \in SUBSET Pieces : \E cut \in {{}} \cup {{k} : k \in s} :
                tree' = (tree \cup s) \ cut /\ made' = made \cup s
         /\ UNCHANGED torn

\* pullImage: an error leaves what has been unpacked.
PullImage(c) ==
    \/ FetchManifest /\ \E whole \in BOOLEAN : FetchAndUnpackLayers(whole) /\ Answer(c, whole, FALSE)
    \/ ~FetchManifest /\ Answer(c, FALSE, FALSE) /\ UNCHANGED <<tree, made, torn, budget>>

\* Mutant: a directory that is not empty counts as populated.
MutPull(c) ==
    /\ Asked(c, "pull")
    /\ \/ made # {} /\ Answer(c, TRUE, FALSE) /\ UNCHANGED <<tree, made, torn, budget>>
       \/ made = {} /\ PullImage(c)
    /\ UNCHANGED <<call, jobs, unpacker, started>>

\* pull: nothing to do when there is a shell.
Pull(c) ==
    /\ Asked(c, "pull")
    /\ \/ RootfsPopulated /\ Answer(c, TRUE, FALSE) /\ UNCHANGED <<tree, made, torn, budget>>
       \/ ~RootfsPopulated /\ PullImage(c)
    /\ UNCHANGED <<call, jobs, unpacker, started>>

\* Mutant: a process that cannot be executed is not reported.
MutStart(c) ==
    /\ Asked(c, "start")
    /\ started' = (started \/ ShellWorks)
    /\ Answer(c, TRUE, FALSE)
    /\ UNCHANGED <<call, jobs, unpacker, tree, made, torn, budget>>

\* start: the image's /bin/sh is the process's PID 1.  Without it exec fails;
\* with one that is cut short, or has lost what it loads, exec may go either way.
Start(c) ==
    /\ Asked(c, "start")
    /\ \/ ShAt \in made /\ started' = TRUE /\ Answer(c, TRUE, FALSE)
       \/ ~ShellWorks /\ Answer(c, FALSE, FALSE) /\ UNCHANGED started
    /\ UNCHANGED <<call, jobs, unpacker, tree, made, torn, budget>>
-----------------------------------------------------------------------------
Init ==
    /\ call = [c \in Calls |-> [pc |-> "idle", piece |-> 0]]
    /\ conn = [c \in Calls |-> [req |-> <<>>, rep |-> <<>>, open |-> FALSE]]
    /\ serving = [c \in Calls |-> [pc |-> "read", job |-> 0]]
    /\ jobs = [j \in Jobs |-> NewJob]
    /\ unpacker = 0
    /\ tree = {} /\ made = {}
    /\ torn = FALSE
    /\ started = FALSE
    /\ budget = [disk |-> MaxDiskFaults, host |-> MaxHostFaults, timeout |-> MaxTimeouts]

ShimStep(c) == TakeAnswer(c) \/ Deadline(c)

AgentStep(c) ==
    \/ HangUp(c)
    \/ PrepareRootfs(c)
    \/ RootfsLookup(c)
    \/ RootfsNewJob(c)
    \/ RootfsWrite(c)
    \/ RootfsEOF(c)
    \/ Pull(c)
    \/ Start(c)

Next == \E c \in Calls : StartContainer(c) \/ ShimStep(c) \/ AgentStep(c)

Spec == Init /\ [][Next]_vars

\* The kubelet tries again; the shim takes answers and the agent handles
\* requests; a deadline fires where nothing else can happen.
FairSpec ==
    /\ Spec
    /\ WF_vars(\E c \in Calls : StartContainer(c))
    /\ \A c \in Calls : /\ WF_vars(TakeAnswer(c))
                        /\ WF_vars(Stuck(c) /\ Deadline(c))
                        /\ WF_vars(AgentStep(c))
-----------------------------------------------------------------------------
(* Properties.                                                             *)

Kinds == {"prepare", "copy", "eof", "pull", "start"}
CallStates == [pc: Kinds \cup {"idle", "running", "failed"}, piece: 0..NPieces]
Requests == {r \in [of: Kinds, piece: 0..NPieces] : r.of = "copy" => r.piece \in Pieces}
Answers == [of: Kinds, ok: BOOLEAN, populated: BOOLEAN]
Connections == [req: Seq(Requests), rep: Seq(Answers), open: BOOLEAN]
Services == [pc: {"read", "new", "write"}, job: Jobs \cup {0}]
Unpackers == [next: 1..NPieces + 1, state: {"open", "done", "failed"}, taken: BOOLEAN]

\* For the proofs: the type invariant; a goroutine that writes holds a job that exists.
TypeOK ==
    /\ call \in [Calls -> CallStates]
    /\ conn \in [Calls -> Connections]
    /\ serving \in [Calls -> Services]
    /\ \A c \in Calls : /\ serving[c].pc = "write" => serving[c].job # 0
                        /\ serving[c].pc = "new" => serving[c].job = 0
    /\ jobs \in [Jobs -> Unpackers]
    /\ unpacker \in Jobs \cup {0}
    /\ tree \subseteq made /\ made \subseteq Pieces
    /\ torn \in BOOLEAN
    /\ started \in BOOLEAN
    /\ budget \in [{"disk", "host", "timeout"} -> Nat]
    /\ budget.host <= MaxHostFaults /\ budget.timeout <= MaxTimeouts

\* No request was given up at its deadline, with its answer still to come.
NothingLate == budget.timeout = MaxTimeouts

\* A host copy that the agent acknowledged to the end has put the whole image
\* on the disk, also after earlier calls that the guest's disk failed half
\* way: an unpack job that has seen an error never reports success to a later
\* stream.  (A stream that the host broke off leaves a job that has seen none.)
CopyOkMeansWhole ==
    [][NothingLate /\ budget.host = MaxHostFaults =>
          \A c \in Calls : call[c].pc = "eof" /\ call'[c].pc = "start" => Whole]_vars

\* hack/sandbox-followups.md: "PrepareRootfs is a no-op if the user-rootfs
\* disk is already mounted (Always restart after killall)": once a process
\* was started from the tree, no call is filling it, and none does again.
RestartLeavesTree ==
    NothingLate /\ started => \A c \in Calls : call[c].pc \notin {"copy", "eof", "pull"}

\* A shell's name is on the disk and /bin/sh is missing, cut short or without
\* what it loads: every later call skips the copy and the pull.
Poisoned == RootfsPopulated /\ ~ShellWorks

\* Two calls of the container are on their way at once.
Overlapping == \E c, d \in Calls : c # d /\ InProgress(c) /\ InProgress(d)

\* Every call comes back, also one that waits for a result another has taken
\* (rootfs.go reads the job's channel once per EOF, the channel has one value).
\* And a container that is retried gets to run again and again, whatever failed
\* calls have left on the disk, in the agent's map and on old connections; the
\* one thing that retries do not repair is a tree that was broken off between
\* the first name rootfsPopulated accepts and a shell that works.  Calls that
\* overlap for ever may tear each other's streams for ever.
RetriesRun ==
    /\ \A c \in Calls : InProgress(c) ~> ~InProgress(c)
    /\ \/ []<>(\E c \in Calls : call[c].pc = "running")
       \/ <>[]Poisoned
       \/ []<>Overlapping

\* cmd/marooned-oci/gueststart.go writes "marooned: guest container started"
\* to the Pod's log when StartContainer succeeds: a call that reports the
\* container running has a process in the guest.
RunningIsStarted == \A c \in Calls : call[c].pc = "running" => started
=============================================================================
