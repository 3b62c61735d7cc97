---------------------------- MODULE PortForward ----------------------------
(***************************************************************************)
(* The ports of a Pod: the shim writes the guest's address and the Pod's   *)
(* ports to forward.json of the sandbox, and the pause process, which      *)
(* polls the file, listens on the ports and passes connections on to the   *)
(* guest.                                                                  *)
(*                                                                         *)
(* The file is truncated before it is written, and rewritten on every tick *)
(* of the shim; a changed file closes the listeners in one goroutine while *)
(* the next one already binds.                                             *)
(***************************************************************************)
EXTENDS Naturals, FiniteSets

CONSTANTS
    Ports,        \* the container ports of the Pod
    GuestIPs,     \* addresses the guest may get
    MaxIPChanges, \* bound: changes of the guest's address
    MaxRewrites,  \* bound: rewrites of the file that find it as it was
    MaxShimStops, \* bound: restarts of the shim
    MaxTaken,     \* bound: ports that somebody else has when they are to be bound
    NoIP,         \* no guest-ip annotation
    NoFile,       \* the file is absent
    EmptyFile     \* the file is truncated

ASSUME ForwardAssumption == /\ MaxIPChanges \in Nat /\ MaxRewrites \in Nat
                            /\ MaxShimStops \in Nat /\ MaxTaken \in Nat

VARIABLES
    guestIP,   \* the Pod's guest-ip annotation
    dir,       \* the sandbox has its directory and its pause process
    file,      \* forward.json: the address, EmptyFile or NoFile
    writing,   \* the address the shim is about to write after truncating
    lastRead,  \* the content the pause has acted on
    gors,      \* the pause's listenForwards: [ip, todo, bound, lost, stop]
    fwdBudget

fwdVars == <<guestIP, dir, file, writing, lastRead, gors, fwdBudget>>

BoundPorts == UNION {g.bound : g \in gors}

SpendFwd(kind) ==
    /\ fwdBudget[kind] > 0
    /\ fwdBudget' = [fwdBudget EXCEPT ![kind] = @ - 1]
-----------------------------------------------------------------------------
SetGuestIP(ip) ==
    /\ ip # guestIP
    /\ SpendFwd("ip")
    /\ guestIP' = ip
    /\ UNCHANGED <<dir, file, writing, lastRead, gors>>

\* The pause process starts with the sandbox and ends with it.
CreateSandboxDir ==
    /\ ~dir
    /\ SpendFwd("dir")
    /\ dir' = TRUE
    /\ UNCHANGED <<guestIP, file, writing, lastRead, gors>>

DeleteSandboxDir ==
    /\ dir
    /\ dir' = FALSE
    /\ file' = NoFile /\ writing' = NoIP /\ lastRead' = NoFile /\ gors' = {}
    /\ UNCHANGED <<guestIP, fwdBudget>>
-----------------------------------------------------------------------------
\* syncPortForwards removes the file of a Pod without an address ...
RemoveForward ==
    /\ dir /\ writing = NoIP
    /\ guestIP = NoIP
    /\ file # NoFile
    /\ file' = NoFile
    /\ UNCHANGED <<guestIP, dir, writing, lastRead, gors, fwdBudget>>

\* ... and writes the others': a truncation, then the content.
TruncateForward ==
    /\ dir /\ writing = NoIP
    /\ guestIP # NoIP
    /\ IF file = guestIP THEN SpendFwd("rewrite") ELSE UNCHANGED fwdBudget
    /\ file' = EmptyFile
    /\ writing' = guestIP
    /\ UNCHANGED <<guestIP, dir, lastRead, gors>>

WriteForward ==
    /\ writing # NoIP
    /\ file' = writing /\ writing' = NoIP
    /\ UNCHANGED <<guestIP, dir, lastRead, gors, fwdBudget>>

StopShim ==
    /\ writing # NoIP
    /\ SpendFwd("shim")
    /\ writing' = NoIP
    /\ UNCHANGED <<guestIP, dir, file, lastRead, gors>>
-----------------------------------------------------------------------------
Content == IF file = EmptyFile THEN NoFile ELSE file

MutStopped(g) == g

Stopped(g) == [g EXCEPT !.stop = TRUE]

\* runPauseForwards acts on a changed content only; no content and no file
\* are the same to it.
RunPauseForwards ==
    /\ dir /\ Content # lastRead
    /\ lastRead' = Content
    /\ gors' = {Stopped(g) : g \in gors}
                  \cup IF Content = NoFile THEN {}
                       ELSE {[ip |-> Content, todo |-> Ports, bound |-> {}, lost |-> {}, stop |-> FALSE]}
    /\ UNCHANGED <<guestIP, dir, file, writing, fwdBudget>>

\* net.Listen fails when the pause itself or somebody else has the port.
Bind(g, p) ==
    /\ p \notin BoundPorts
    /\ gors' = (gors \ {g}) \cup {[g EXCEPT !.todo = @ \ {p}, !.bound = @ \cup {p}]}
    /\ UNCHANGED fwdBudget

Taken(p) == IF p \in BoundPorts THEN UNCHANGED fwdBudget ELSE SpendFwd("taken")

\* Mutant: a port that cannot be bound ends the loop.
MutListen(g, p) ==
    /\ g \in gors /\ p \in g.todo
    /\ \/ Bind(g, p)
       \/ Taken(p) /\ gors' = (gors \ {g}) \cup {[g EXCEPT !.todo = {}, !.lost = @ \cup {p}]}
    /\ UNCHANGED <<guestIP, dir, file, writing, lastRead>>

\* listenForwards goes through all ports before it looks at stop; a port that
\* is taken is skipped.
Listen(g, p) ==
    /\ g \in gors /\ p \in g.todo
    /\ \/ Bind(g, p)
       \/ Taken(p) /\ gors' = (gors \ {g}) \cup {[g EXCEPT !.todo = @ \ {p}, !.lost = @ \cup {p}]}
    /\ UNCHANGED <<guestIP, dir, file, writing, lastRead>>

CloseListeners(g) ==
    /\ g \in gors /\ g.todo = {} /\ g.stop
    /\ gors' = gors \ {g}
    /\ UNCHANGED <<guestIP, dir, file, writing, lastRead, fwdBudget>>
-----------------------------------------------------------------------------
ForwardInit ==
    /\ guestIP = NoIP
    /\ dir = FALSE
    /\ file = NoFile /\ writing = NoIP /\ lastRead = NoFile
    /\ gors = {}
    /\ fwdBudget = [ip |-> MaxIPChanges, rewrite |-> MaxRewrites, shim |-> MaxShimStops,
                    taken |-> MaxTaken, dir |-> 2]

SyncForward == RemoveForward \/ WriteForward \/ (TruncateForward /\ file # guestIP)
Forwarding == RunPauseForwards \/ (\E g \in gors : CloseListeners(g) \/ \E p \in Ports : Listen(g, p))

ForwardNext ==
    \/ \E ip \in GuestIPs \cup {NoIP} : SetGuestIP(ip)
    \/ CreateSandboxDir \/ DeleteSandboxDir
    \/ RemoveForward \/ TruncateForward \/ WriteForward \/ StopShim
    \/ Forwarding
-----------------------------------------------------------------------------
\* A port is listened on once, by a pause that lives, and no more than one
\* set of listeners is not on its way out.
OneForwarder ==
    /\ \A g, h \in gors : g # h => g.bound \cap h.bound = {} /\ (g.stop \/ h.stop)
    /\ gors # {} => dir

Passes(ip, p) == \E g \in gors : g.ip = ip /\ p \in g.bound

\* Listeners that pass connections to an address the guest no longer has are
\* closed in the end.
OldAddressEnds ==
    \A ip \in GuestIPs : (guestIP # ip /\ \E p \in Ports : Passes(ip, p))
                            ~> (guestIP = ip \/ \A p \in Ports : ~Passes(ip, p))

\* Every port is passed on to the guest's address, except one that was taken
\* when it was to be bound, as by the listeners on their way out: the others
\* are not held up.
PortsArePassedOn ==
    \A p \in Ports : (dir /\ guestIP # NoIP)
                        ~> \/ ~dir \/ guestIP = NoIP
                           \/ Passes(guestIP, p)
                           \/ \E g \in gors : g.ip = guestIP /\ p \in g.lost

\* The ports follow the guest's address: passed on to the present one, and in
\* the end not to an earlier one (pause_forward.go).
PortsFollowGuest == OldAddressEnds /\ PortsArePassedOn
=============================================================================
