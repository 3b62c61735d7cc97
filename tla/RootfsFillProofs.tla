--------------------------- MODULE RootfsFillProofs ---------------------------
(***************************************************************************)
(* Proofs about RootfsFill, for any number of calls and pieces.            *)
(*                                                                         *)
(* Protocol: while no answer comes after its deadline a connection is in   *)
(* one of four shapes, so that Call, which compares neither id nor method, *)
(* takes every answer for what it answers.  StartInv, on top of it, says   *)
(* what the answer to a start request means (RunningIsStarted).            *)
(*                                                                         *)
(* The other two theorems are about calls that follow one another.         *)
(* RestartInv: once a process was started there is a shell on the disk for *)
(* good, every prepare request says so, and nobody copies or pulls again   *)
(* (RestartLeavesTree).  StreamInv: how far a stream is on both sides of   *)
(* the connection; a job that is in the map when a stream begins has       *)
(* failed, and fails every stream to its end (CopyOkMeansWhole).           *)
(***************************************************************************)
EXTENDS RootfsFill, FiniteSetTheorems, TLAPS

\* Sequences of typed elements.
LEMMA SeqTyped ==
    ASSUME NEW S, NEW s \in Seq(S), NEW x \in S
    PROVE  Append(s, x) \in Seq(S) /\ (s # <<>> => Head(s) \in S /\ Tail(s) \in Seq(S)) /\ <<>> \in Seq(S)
  OBVIOUS

\* Sequences of one element, and of two.
LEMMA ShortSeqs ==
    ASSUME NEW S, NEW x \in S, NEW y \in S
    PROVE  /\ Append(<<>>, x) = <<x>> /\ Head(<<x>>) = x /\ Tail(<<x>>) = <<>> /\ <<x>> # <<>>
           /\ <<x>> \in Seq(S)
           /\ Append(<<x>>, y) # <<>> /\ Head(Append(<<x>>, y)) = x
           /\ <<x>> = <<y>> => x = y
  OBVIOUS

\* What a request puts on the connection, and that it keeps the types.
LEMMA AskTyped ==
    ASSUME TypeOK, NEW c \in Calls, NEW pc \in Kinds, NEW k \in 0..NPieces, pc = "copy" => k \in Pieces,
           NEW rep \in Seq(Answers), Ask(c, pc, k, rep)
    PROVE  /\ call' \in [Calls -> CallStates] /\ conn' \in [Calls -> Connections]
           /\ call'[c].pc = pc /\ call'[c].piece = k
           /\ conn'[c].req = Append(conn[c].req, Request(pc, k))
           /\ conn'[c].rep = rep /\ conn'[c].open = conn[c].open
           /\ \A d \in Calls : d # c => call'[d] = call[d] /\ conn'[d] = conn[d]
<1>. DEFINE new == [pc |-> pc, piece |-> k]
            link == [conn[c] EXCEPT !.req = Append(conn[c].req, Request(pc, k)), !.rep = rep]
<1>1. new \in CallStates
  BY DEF CallStates
<1>2. Request(pc, k) \in Requests
  BY DEF Request, Requests
<1>3. conn[c] \in Connections
  BY DEF TypeOK
<1>4. conn[c].req \in Seq(Requests) /\ conn[c].open \in BOOLEAN
  BY <1>3 DEF Connections
<1>5. Append(conn[c].req, Request(pc, k)) \in Seq(Requests)
  BY <1>2, <1>4, SeqTyped
<1>6. link \in Connections
  BY <1>3, <1>4, <1>5 DEF Connections
<1>7. call' = [call EXCEPT ![c] = new]
  BY DEF Ask
<1>8. conn' = [conn EXCEPT ![c] = link]
  BY DEF Ask
<1>9. new.pc = pc /\ new.piece = k
  OBVIOUS
<1>10. link.req = Append(conn[c].req, Request(pc, k)) /\ link.rep = rep /\ link.open = conn[c].open
  BY <1>3 DEF Connections
<1>. HIDE DEF new, link
<1>11. call' \in [Calls -> CallStates] /\ conn' \in [Calls -> Connections]
  BY <1>1, <1>6, <1>7, <1>8 DEF TypeOK
<1>12. call'[c] = new /\ conn'[c] = link /\ \A d \in Calls : d # c => call'[d] = call[d] /\ conn'[d] = conn[d]
  BY <1>7, <1>8 DEF TypeOK
<1>. QED
  BY <1>9, <1>10, <1>11, <1>12

\* What a return does to the call and its connection, and that it keeps the types.
LEMMA ReturnTyped ==
    ASSUME TypeOK, NEW c \in Calls, NEW pc \in {"running", "failed"}, Return(c, pc)
    PROVE  /\ call' \in [Calls -> CallStates] /\ conn' \in [Calls -> Connections]
           /\ call'[c].pc = pc
           /\ conn'[c].req = conn[c].req /\ conn'[c].rep = <<>>
           /\ \A d \in Calls : d # c => call'[d] = call[d] /\ conn'[d] = conn[d]
<1>. DEFINE new == [pc |-> pc, piece |-> 0]
            link == [conn[c] EXCEPT !.open = FALSE, !.rep = <<>>]
<1>1. new \in CallStates
  BY PiecesAssumption DEF CallStates
<1>3. conn[c] \in Connections
  BY DEF TypeOK
<1>4. conn[c].req \in Seq(Requests) /\ <<>> \in Seq(Answers)
  BY <1>3 DEF Connections
<1>6. link \in Connections
  BY <1>3, <1>4 DEF Connections
<1>7. call' = [call EXCEPT ![c] = new]
  BY DEF Return
<1>8. conn' = [conn EXCEPT ![c] = link]
  BY DEF Return
<1>9. new.pc = pc /\ link.req = conn[c].req /\ link.rep = <<>>
  BY <1>3 DEF Connections
<1>. HIDE DEF new, link
<1>11. call' \in [Calls -> CallStates] /\ conn' \in [Calls -> Connections]
  BY <1>1, <1>6, <1>7, <1>8 DEF TypeOK
<1>12. call'[c] = new /\ conn'[c] = link /\ \A d \in Calls : d # c => call'[d] = call[d] /\ conn'[d] = conn[d]
  BY <1>7, <1>8 DEF TypeOK
<1>. QED
  BY <1>9, <1>11, <1>12

\* What an answer of the agent does to the connection, and that it keeps the types.
LEMMA AnswerTyped ==
    ASSUME TypeOK, NEW c \in Calls, conn[c].req # <<>>, NEW ok \in BOOLEAN, NEW populated \in BOOLEAN,
           Answer(c, ok, populated)
    PROVE  /\ conn' \in [Calls -> Connections] /\ serving' \in [Calls -> Services]
           /\ Head(conn[c].req) \in Requests
           /\ conn'[c].req = Tail(conn[c].req) /\ conn'[c].open = conn[c].open
           /\ conn[c].open => conn'[c].rep =
                 Append(conn[c].rep, [of |-> Head(conn[c].req).of, ok |-> ok, populated |-> populated])
           /\ ~conn[c].open => conn'[c].rep = conn[c].rep
           /\ serving'[c].pc = "read" /\ serving'[c].job = 0
           /\ \A d \in Calls : d # c => conn'[d] = conn[d] /\ serving'[d] = serving[d]
<1>. DEFINE a == [of |-> Head(conn[c].req).of, ok |-> ok, populated |-> populated]
            link == [conn[c] EXCEPT !.req = Tail(conn[c].req),
                                    !.rep = IF conn[c].open THEN Append(conn[c].rep, a) ELSE conn[c].rep]
            idle == [pc |-> "read", job |-> 0]
<1>1. conn[c] \in Connections
  BY DEF TypeOK
<1>2. conn[c].req \in Seq(Requests) /\ conn[c].rep \in Seq(Answers) /\ conn[c].open \in BOOLEAN
  BY <1>1 DEF Connections
<1>3. Head(conn[c].req) \in Requests /\ Tail(conn[c].req) \in Seq(Requests)
  BY <1>2
<1>4. a \in Answers
  BY <1>3 DEF Requests, Answers
<1>5. Append(conn[c].rep, a) \in Seq(Answers)
  BY <1>2, <1>4, SeqTyped
<1>6. link \in Connections
  BY <1>1, <1>2, <1>3, <1>5 DEF Connections
<1>7. conn' = [conn EXCEPT ![c] = link]
  BY DEF Answer
<1>8. serving' = [serving EXCEPT ![c] = idle]
  BY DEF Answer
<1>9. idle \in Services /\ idle.pc = "read" /\ idle.job = 0
  BY DEF Services
<1>10. /\ link.req = Tail(conn[c].req) /\ link.open = conn[c].open
       /\ link.rep = IF conn[c].open THEN Append(conn[c].rep, a) ELSE conn[c].rep
  BY <1>1 DEF Connections
<1>. HIDE DEF link, idle
<1>11. conn' \in [Calls -> Connections] /\ serving' \in [Calls -> Services]
  BY <1>6, <1>7, <1>8, <1>9 DEF TypeOK
<1>12. conn'[c] = link /\ serving'[c] = idle /\ \A d \in Calls : d # c => conn'[d] = conn[d] /\ serving'[d] = serving[d]
  BY <1>7, <1>8 DEF TypeOK
<1>. QED
  BY <1>3, <1>9, <1>10, <1>11, <1>12

\* A goroutine that wants an unpack job finds one that nobody holds.
LEMMA FreeJob ==
    ASSUME TypeOK, NEW c \in Calls, serving[c].pc = "new"
    PROVE  Jobs \ ({unpacker} \cup {serving[d].job : d \in Calls}) # {}
<1>. DEFINE others == Calls \ {c}
            held == {serving[d].job : d \in others}
<1>1. NCalls \in Nat /\ NCalls >= 1 /\ Calls = 1..NCalls /\ Jobs = 1..NCalls + 1
  BY CallsAssumption DEF Calls, Jobs
<1>2. IsFiniteSet(Calls) /\ Cardinality(Calls) = NCalls
  BY <1>1, FS_Interval
<1>3. IsFiniteSet(Jobs) /\ Cardinality(Jobs) = NCalls + 1
  BY <1>1, FS_Interval
<1>4. IsFiniteSet(others) /\ Cardinality(others) = NCalls - 1
  BY <1>2, FS_RemoveElement
<1>5. IsFiniteSet(held) /\ Cardinality(held) <= NCalls - 1
  <2>. DEFINE f == [d \in others |-> serving[d].job]
  <2>1. f \in Surjection(others, held)
    BY DEF Surjection
  <2>. QED
    BY <1>4, <2>1, FS_Surjection
<1>6. IsFiniteSet(held \cup {unpacker}) /\ Cardinality(held \cup {unpacker}) <= NCalls
  <2>1. Cardinality(held) \in Nat
    BY <1>5, FS_CardinalityType
  <2>2. /\ IsFiniteSet(held \cup {unpacker})
        /\ \/ Cardinality(held \cup {unpacker}) = Cardinality(held)
           \/ Cardinality(held \cup {unpacker}) = Cardinality(held) + 1
    BY <1>5, FS_AddElement
  <2>. HIDE DEF held
  <2>. QED
    BY <1>1, <1>5, <2>1, <2>2
<1>7. SUFFICES ASSUME Jobs \subseteq {unpacker} \cup {serving[d].job : d \in Calls} PROVE FALSE
  OBVIOUS
<1>8. serving[c].job = 0 /\ 0 \notin Jobs
  BY <1>1 DEF TypeOK
<1>9. Jobs \subseteq held \cup {unpacker}
  BY <1>7, <1>8
<1>10. Cardinality(Jobs) <= Cardinality(held \cup {unpacker})
  BY <1>6, <1>9, FS_Subset
<1>11. Cardinality(held \cup {unpacker}) \in Nat
  BY <1>6, FS_CardinalityType
<1>. QED
  BY <1>1, <1>3, <1>6, <1>10, <1>11

\* The faults left do not grow, and a fault is counted.
LEMMA BudgetTyped ==
    ASSUME TypeOK, NEW kind \in {"disk", "host", "timeout"}, Spend(kind) \/ UNCHANGED budget
    PROVE  /\ budget' \in [{"disk", "host", "timeout"} -> Nat]
           /\ budget'.host <= budget.host /\ budget'.timeout <= budget.timeout
           /\ budget'.host <= MaxHostFaults /\ budget'.timeout <= MaxTimeouts
           /\ Spend("host") => budget'.host # MaxHostFaults
           /\ Spend("timeout") => budget'.timeout # MaxTimeouts
<1>1. /\ budget \in [{"disk", "host", "timeout"} -> Nat]
      /\ budget.host <= MaxHostFaults /\ budget.timeout <= MaxTimeouts
  BY DEF TypeOK
<1>2. MaxHostFaults \in Nat /\ MaxTimeouts \in Nat
  BY FaultsAssumption
<1>3. \A k \in {"disk", "host", "timeout"} : budget'[k] \in Nat /\ budget'[k] <= budget[k]
  BY <1>1 DEF Spend
<1>4. budget' \in [{"disk", "host", "timeout"} -> Nat]
  BY <1>1 DEF Spend
<1>5. Spend("host") => budget'.host # MaxHostFaults
  BY <1>1, <1>2 DEF Spend
<1>6. Spend("timeout") => budget'.timeout # MaxTimeouts
  BY <1>1, <1>2 DEF Spend
<1>. QED
  BY <1>1, <1>2, <1>3, <1>4, <1>5, <1>6

\* What the shim may do with an answer: go on with a request, or return.
LEMMA TakeAnswerCases ==
    ASSUME TypeOK, NEW c \in Calls, TakeAnswer(c)
    PROVE  /\ InProgress(c) /\ conn[c].rep # <<>>
           /\ Head(conn[c].rep) \in Answers /\ Tail(conn[c].rep) \in Seq(Answers)
           /\ UNCHANGED <<serving, guestVars>>
           /\ LET r == Head(conn[c].rep)
                  rest == Tail(conn[c].rep)
                  pc == call[c].pc
                  k == call[c].piece
              IN  \/ /\ ~r.ok /\ Return(c, "failed") /\ UNCHANGED budget
                     /\ pc \in {"prepare", "pull", "start"}
                  \/ pc = "start" /\ r.ok /\ Return(c, "running") /\ UNCHANGED budget
                  \/ /\ \/ pc = "prepare" /\ r.ok /\ r.populated
                        \/ pc \in {"eof", "pull"} /\ r.ok
                     /\ Ask(c, "start", 0, rest) /\ UNCHANGED budget
                  \/ /\ pc = "prepare" /\ r.ok /\ ~r.populated
                     /\ Ask(c, "copy", 1, rest) /\ UNCHANGED budget
                  \/ pc = "copy" /\ r.ok /\ k < NPieces /\ Ask(c, "copy", k + 1, rest) /\ UNCHANGED budget
                  \/ pc = "copy" /\ r.ok /\ k = NPieces /\ Ask(c, "eof", 0, rest) /\ UNCHANGED budget
                  \/ pc \in {"copy", "eof"} /\ ~r.ok /\ Ask(c, "pull", 0, rest) /\ UNCHANGED budget
                  \/ /\ pc = "copy" \/ (pc = "prepare" /\ r.ok /\ ~r.populated)
                     /\ Spend("host") /\ Ask(c, "pull", 0, rest)
<1>1. InProgress(c) /\ conn[c].rep # <<>> /\ UNCHANGED <<serving, guestVars>>
  BY DEF TakeAnswer
<1>2. conn[c] \in Connections
  BY DEF TypeOK
<1>3. conn[c].rep \in Seq(Answers)
  BY <1>2 DEF Connections
<1>4. Head(conn[c].rep) \in Answers /\ Tail(conn[c].rep) \in Seq(Answers)
  BY <1>1, <1>3
<1>5. 0 < NPieces /\ 0 # NPieces /\ 0 + 1 = 1
  BY PiecesAssumption
<1>. QED
  BY <1>1, <1>4, <1>5 DEF TakeAnswer, PutHostRootfs

\* A piece after the call's is a piece, while there are any.
LEMMA NextPiece ==
    ASSUME TypeOK, NEW c \in Calls
    PROVE  /\ call[c] \in CallStates /\ call[c].piece \in 0..NPieces
           /\ call[c].piece < NPieces => call[c].piece + 1 \in Pieces /\ call[c].piece + 1 \in 0..NPieces
           /\ 1 \in Pieces /\ 1 \in 0..NPieces /\ 0 \in 0..NPieces /\ NPieces \in Nat
<1>1. call[c] \in CallStates
  BY DEF TypeOK
<1>2. call[c].piece \in 0..NPieces
  BY <1>1 DEF CallStates
<1>3. NPieces \in Nat /\ NPieces >= 1
  BY PiecesAssumption
<1>. QED
  BY <1>1, <1>2, <1>3 DEF Pieces

\* The shim's steps keep its own types.
LEMMA ShimTyped ==
    ASSUME TypeOK, NEW c \in Calls, StartContainer(c) \/ TakeAnswer(c) \/ Deadline(c)
    PROVE  TypeOK'
<1>0. 0 \in 0..NPieces /\ {"prepare", "copy", "eof", "pull", "start"} = Kinds /\ <<>> \in Seq(Answers)
  BY PiecesAssumption DEF Kinds
<1>1. UNCHANGED <<serving, guestVars>>
  BY DEF StartContainer, TakeAnswer, Deadline
<1>2. /\ call' \in [Calls -> CallStates] /\ conn' \in [Calls -> Connections]
  <2>1. CASE StartContainer(c)
    <3>. DEFINE new == [pc |-> "prepare", piece |-> 0]
                link == [req |-> <<Request("prepare", 0)>>, rep |-> <<>>, open |-> TRUE]
    <3>1. new \in CallStates
      BY <1>0 DEF CallStates, Kinds
    <3>2. Request("prepare", 0) \in Requests
      BY <1>0 DEF Request, Requests, Kinds
    <3>3. link \in Connections
      BY <1>0, <3>2 DEF Connections
    <3>4. call' = [call EXCEPT ![c] = new] /\ conn' = [conn EXCEPT ![c] = link]
      BY <2>1 DEF StartContainer
    <3>. HIDE DEF new, link
    <3>. QED
      BY <3>1, <3>3, <3>4 DEF TypeOK
  <2>2. CASE TakeAnswer(c)
    <3>1. Tail(conn[c].rep) \in Seq(Answers)
      BY <2>2, TakeAnswerCases
    <3>. DEFINE rest == Tail(conn[c].rep)
    <3>2. \/ Return(c, "failed") \/ Return(c, "running")
          \/ Ask(c, "start", 0, rest) \/ Ask(c, "copy", 1, rest)
          \/ (call[c].piece < NPieces /\ Ask(c, "copy", call[c].piece + 1, rest))
          \/ Ask(c, "eof", 0, rest) \/ Ask(c, "pull", 0, rest)
      BY <2>2, TakeAnswerCases
    <3>. HIDE DEF rest
    <3>3. CASE Return(c, "failed") \/ Return(c, "running")
      BY <3>3, ReturnTyped
    <3>4. CASE Ask(c, "start", 0, rest) \/ Ask(c, "eof", 0, rest) \/ Ask(c, "pull", 0, rest)
      BY <1>0, <3>1, <3>4, AskTyped DEF rest
    <3>5. CASE Ask(c, "copy", 1, rest)
      BY <1>0, <3>1, <3>5, AskTyped, NextPiece DEF rest
    <3>6. CASE call[c].piece < NPieces /\ Ask(c, "copy", call[c].piece + 1, rest)
      BY <1>0, <3>1, <3>6, AskTyped, NextPiece DEF rest
    <3>. QED
      BY <3>2, <3>3, <3>4, <3>5, <3>6
  <2>3. CASE Deadline(c)
    <3>1. Ask(c, "pull", 0, <<>>) \/ Return(c, "failed")
      BY <2>3 DEF Deadline
    <3>2. CASE Ask(c, "pull", 0, <<>>)
      BY <1>0, <3>2, AskTyped
    <3>3. CASE Return(c, "failed")
      BY <3>3, ReturnTyped
    <3>. QED
      BY <3>1, <3>2, <3>3
  <2>. QED
    BY <2>1, <2>2, <2>3
<1>3. UNCHANGED budget \/ Spend("host") \/ Spend("timeout")
  BY TakeAnswerCases DEF StartContainer, Deadline
<1>. QED
  BY <1>1, <1>2, <1>3, BudgetTyped DEF TypeOK, guestVars

\* An answer keeps the types of what it touches.
LEMMA AnswerKeepsTypes ==
    ASSUME TypeOK, NEW c \in Calls, conn[c].req # <<>>,
           \E ok, populated \in BOOLEAN : Answer(c, ok, populated), UNCHANGED call,
           jobs' \in [Jobs -> Unpackers], unpacker' \in Jobs \cup {0},
           tree' \subseteq made', made' \subseteq Pieces, torn' \in BOOLEAN, started' \in BOOLEAN,
           UNCHANGED budget \/ Spend("disk")
    PROVE  TypeOK'
<1>1. PICK ok \in BOOLEAN, populated \in BOOLEAN : Answer(c, ok, populated)
  OBVIOUS
<1>2. /\ conn' \in [Calls -> Connections] /\ serving' \in [Calls -> Services]
      /\ \A d \in Calls : /\ serving'[d].pc = "write" => serving'[d].job # 0
                          /\ serving'[d].pc = "new" => serving'[d].job = 0
  <2>1. conn' \in [Calls -> Connections] /\ serving' \in [Calls -> Services]
    BY <1>1, AnswerTyped
  <2>4. serving'[c].pc = "read" /\ \A d \in Calls : d # c => serving'[d] = serving[d]
    BY <1>1, AnswerTyped
  <2>2. \A d \in Calls : /\ serving[d].pc = "write" => serving[d].job # 0
                         /\ serving[d].pc = "new" => serving[d].job = 0
    BY DEF TypeOK
  <2>3. ASSUME NEW d \in Calls
        PROVE  /\ serving'[d].pc = "write" => serving'[d].job # 0
               /\ serving'[d].pc = "new" => serving'[d].job = 0
    <3>1. CASE d = c
      BY <2>4, <3>1
    <3>2. CASE d # c
      <4>1. serving'[d] = serving[d]
        BY <2>4, <3>2
      <4>. QED
        BY <2>2, <4>1
    <3>. QED
      BY <3>1, <3>2
  <2>. QED
    BY <2>1, <2>3
<1>3. /\ budget' \in [{"disk", "host", "timeout"} -> Nat]
      /\ budget'.host <= MaxHostFaults /\ budget'.timeout <= MaxTimeouts
  BY BudgetTyped
<1>. QED
  BY <1>2, <1>3 DEF TypeOK

\* The job of a goroutine that writes, and the piece it has read.
LEMMA WriterTyped ==
    ASSUME TypeOK, NEW c \in Calls, serving[c].pc = "write"
    PROVE  /\ serving[c].job \in Jobs /\ jobs[serving[c].job] \in Unpackers
           /\ Asked(c, "copy") => Head(conn[c].req).piece \in Pieces
<1>1. serving[c].job \in Jobs
  BY DEF TypeOK, Services
<1>2. jobs[serving[c].job] \in Unpackers
  BY <1>1 DEF TypeOK
<1>3. ASSUME Asked(c, "copy") PROVE Head(conn[c].req).piece \in Pieces
  <2>1. conn[c] \in Connections
    BY DEF TypeOK
  <2>2. conn[c].req \in Seq(Requests) /\ conn[c].req # <<>>
    BY <1>3, <2>1 DEF Connections, Asked
  <2>3. Head(conn[c].req) \in Requests
    BY <2>2
  <2>. QED
    BY <1>3, <2>3 DEF Asked, Requests
<1>. QED
  BY <1>1, <1>2, <1>3

\* What unpackTar makes of its job.
LEMMA UnpackTyped ==
    ASSUME NEW job \in Unpackers, NEW k \in Pieces
    PROVE  /\ Taken(job, k) \in Unpackers /\ Broken(job) \in Unpackers
           /\ Taken(job, k).next = k + 1 /\ Taken(job, k).taken = job.taken
           /\ Taken(job, k).state = IF k = NPieces THEN "done" ELSE "open"
           /\ Broken(job).state = "failed" /\ Broken(job).taken = job.taken
<1>1. k + 1 \in 1..NPieces + 1
  BY PiecesAssumption DEF Pieces
<1>. QED
  BY <1>1 DEF Taken, Broken, Unpackers

\* The agent's steps keep the types.
LEMMA AgentTyped ==
    ASSUME TypeOK, NEW c \in Calls, AgentStep(c)
    PROVE  TypeOK'
<1>1. CASE HangUp(c)
  <2>. DEFINE link == [conn[c] EXCEPT !.req = <<>>]
  <2>1. conn[c] \in Connections /\ <<>> \in Seq(Requests)
    BY DEF TypeOK
  <2>2. link \in Connections
    BY <2>1 DEF Connections
  <2>3. conn' = [conn EXCEPT ![c] = link]
    BY <1>1 DEF HangUp
  <2>. HIDE DEF link
  <2>4. conn' \in [Calls -> Connections]
    BY <2>2, <2>3 DEF TypeOK
  <2>. QED
    BY <1>1, <2>4 DEF HangUp, guestVars, TypeOK
<1>2. CASE PrepareRootfs(c)
  <2>1. RootfsPopulated \in BOOLEAN
    BY DEF RootfsPopulated
  <2>2. \E ok, populated \in BOOLEAN : Answer(c, ok, populated)
    BY <1>2, <2>1 DEF PrepareRootfs
  <2>. QED
    BY <1>2, <2>2, AnswerKeepsTypes DEF PrepareRootfs, Asked, guestVars, TypeOK
<1>3. CASE RootfsLookup(c)
  <2>. DEFINE new == [pc |-> IF unpacker = 0 THEN "new" ELSE "write", job |-> unpacker]
  <2>1. new \in Services /\ (new.pc = "write" => new.job # 0) /\ (new.pc = "new" => new.job = 0)
    BY DEF Services, TypeOK
  <2>2. serving' = [serving EXCEPT ![c] = new]
    BY <1>3 DEF RootfsLookup
  <2>. HIDE DEF new
  <2>3. /\ serving' \in [Calls -> Services]
        /\ \A d \in Calls : /\ serving'[d].pc = "write" => serving'[d].job # 0
                            /\ serving'[d].pc = "new" => serving'[d].job = 0
    BY <2>1, <2>2 DEF TypeOK
  <2>. QED
    BY <1>3, <2>3 DEF RootfsLookup, guestVars, TypeOK
<1>4. CASE RootfsNewJob(c)
  <2>. DEFINE inUse == {unpacker} \cup {serving[d].job : d \in Calls}
              j == CHOOSE i \in Jobs \ inUse : TRUE
              new == [pc |-> "write", job |-> j]
  <2>1. serving[c].pc = "new"
    BY <1>4 DEF RootfsNewJob
  <2>2. j \in Jobs /\ j # 0
    <3>1. j \in Jobs \ inUse
      BY <2>1, FreeJob, Zenon
    <3>. HIDE DEF j
    <3>. QED BY <3>1, CallsAssumption DEF Jobs
  <2>3. /\ jobs' = [jobs EXCEPT ![j] = NewJob] /\ unpacker' = j /\ serving' = [serving EXCEPT ![c] = new]
        /\ UNCHANGED <<call, conn, tree, made, torn, started, budget>>
    BY <1>4, Zenon DEF RootfsNewJob
  <2>. HIDE DEF j
  <2>4. new \in Services /\ new.pc = "write" /\ new.job # 0
    BY <2>2 DEF Services
  <2>5. NewJob \in Unpackers
    BY PiecesAssumption DEF NewJob, Unpackers
  <2>. HIDE DEF new
  <2>6. /\ serving' \in [Calls -> Services]
        /\ \A d \in Calls : /\ serving'[d].pc = "write" => serving'[d].job # 0
                            /\ serving'[d].pc = "new" => serving'[d].job = 0
    BY <2>3, <2>4 DEF TypeOK
  <2>7. jobs' \in [Jobs -> Unpackers]
    BY <2>3, <2>5 DEF TypeOK
  <2>. QED
    BY <2>2, <2>3, <2>6, <2>7 DEF TypeOK
<1>5. CASE RootfsWrite(c)
  <2>. DEFINE j == serving[c].job
              k == Head(conn[c].req).piece
  <2>1. j \in Jobs /\ jobs[j] \in Unpackers /\ k \in Pieces
    BY <1>5, WriterTyped DEF RootfsWrite
  <2>2. Taken(jobs[j], k) \in Unpackers /\ Broken(jobs[j]) \in Unpackers
    BY <2>1, UnpackTyped
  <2>3. /\ conn[c].req # <<>> /\ UNCHANGED <<call, unpacker, started>>
        /\ \E ok, populated \in BOOLEAN : Answer(c, ok, populated)
        /\ \/ UNCHANGED jobs
           \/ jobs' = [jobs EXCEPT ![j] = Taken(jobs[j], k)]
           \/ jobs' = [jobs EXCEPT ![j] = Broken(jobs[j])]
        /\ \/ UNCHANGED <<tree, made>>
           \/ tree' = tree \cup {k} /\ made' = made \cup {k}
           \/ tree' = tree \ {k} /\ made' = made \cup {k}
        /\ torn' = torn \/ torn' = TRUE \/ \E t \in BOOLEAN : torn' = (torn \/ t)
        /\ UNCHANGED budget \/ Spend("disk")
    BY <1>5 DEF RootfsWrite, CutShort, Asked
  <2>. HIDE DEF j, k
  <2>4. jobs' \in [Jobs -> Unpackers]
    BY <2>1, <2>2, <2>3 DEF TypeOK
  <2>5. tree' \subseteq made' /\ made' \subseteq Pieces /\ torn' \in BOOLEAN
    BY <2>1, <2>3 DEF TypeOK
  <2>. QED
    BY <2>3, <2>4, <2>5, AnswerKeepsTypes DEF TypeOK
<1>6. CASE RootfsEOF(c)
  <2>. DEFINE j == serving[c].job
              new == [jobs[j] EXCEPT !.taken = TRUE, !.state = IF jobs[j].state = "open" THEN "done" ELSE jobs[j].state]
  <2>1. j \in Jobs /\ jobs[j] \in Unpackers
    BY <1>6, WriterTyped DEF RootfsEOF
  <2>2. new \in Unpackers
    BY <2>1 DEF Unpackers
  <2>3. /\ conn[c].req # <<>> /\ UNCHANGED <<call, tree, made, torn, started, budget>> /\ unpacker' = 0
        /\ \E ok, populated \in BOOLEAN : Answer(c, ok, populated)
        /\ jobs' = [jobs EXCEPT ![j] = new]
    BY <1>6 DEF RootfsEOF, Asked
  <2>. HIDE DEF j, new
  <2>4. jobs' \in [Jobs -> Unpackers]
    BY <2>1, <2>2, <2>3 DEF TypeOK
  <2>. QED
    BY <2>3, <2>4, AnswerKeepsTypes DEF TypeOK
<1>7. CASE Pull(c)
  <2>1. /\ conn[c].req # <<>> /\ UNCHANGED <<call, jobs, unpacker, started>>
        /\ \E ok, populated \in BOOLEAN : Answer(c, ok, populated)
        /\ UNCHANGED budget \/ Spend("disk")
        /\ \/ UNCHANGED <<tree, made>>
           \/ tree' = Pieces /\ made' = Pieces
           \/ \E s \in SUBSET Pieces : \E cut \in {{}} \cup {{k} : k \in s} :
                tree' = (tree \cup s) \ cut /\ made' = made \cup s
        /\ UNCHANGED torn \/ torn' = FALSE
    BY <1>7 DEF Pull, PullImage, FetchAndUnpackLayers, Asked
  <2>2. tree' \subseteq made' /\ made' \subseteq Pieces
    BY <2>1 DEF TypeOK
  <2>. QED
    BY <2>1, <2>2, AnswerKeepsTypes DEF TypeOK
<1>8. CASE Start(c)
  <2>1. /\ conn[c].req # <<>> /\ UNCHANGED <<call, jobs, unpacker, tree, made, torn, budget>>
        /\ \E ok, populated \in BOOLEAN : Answer(c, ok, populated)
        /\ started' = TRUE \/ UNCHANGED started
    BY <1>8 DEF Start, Asked
  <2>. QED
    BY <2>1, AnswerKeepsTypes DEF TypeOK
<1>. QED
  BY <1>1, <1>2, <1>3, <1>4, <1>5, <1>6, <1>7, <1>8 DEF AgentStep

\* Every step keeps the types.
LEMMA TypeStep == TypeOK /\ [Next]_vars => TypeOK'
<1>. SUFFICES ASSUME TypeOK, [Next]_vars PROVE TypeOK'
  OBVIOUS
<1>1. CASE UNCHANGED vars
  BY <1>1 DEF vars, TypeOK
<1>2. CASE Next
  BY <1>2, ShimTyped, AgentTyped DEF Next, ShimStep
<1>. QED
  BY <1>1, <1>2

\* Nothing is under way at the start.
LEMMA InitTyped == Init => TypeOK
<1>. SUFFICES ASSUME Init PROVE TypeOK
  OBVIOUS
<1>1. 0 \in 0..NPieces /\ 1 \in 1..NPieces + 1 /\ MaxHostFaults \in Nat /\ MaxTimeouts \in Nat /\ MaxDiskFaults \in Nat
  BY PiecesAssumption, FaultsAssumption
<1>2. call \in [Calls -> CallStates]
  BY <1>1 DEF Init, CallStates
<1>3. conn \in [Calls -> Connections]
  BY DEF Init, Connections
<1>4. serving \in [Calls -> Services] /\ \A c \in Calls : serving[c].pc = "read"
  BY DEF Init, Services
<1>5. jobs \in [Jobs -> Unpackers]
  <2>1. NewJob \in Unpackers
    BY <1>1 DEF NewJob, Unpackers
  <2>. QED
    BY <2>1 DEF Init
<1>6. /\ budget \in [{"disk", "host", "timeout"} -> Nat]
      /\ budget.host <= MaxHostFaults /\ budget.timeout <= MaxTimeouts
  BY <1>1 DEF Init
<1>. QED
  BY <1>2, <1>3, <1>4, <1>5, <1>6 DEF Init, TypeOK

\* The types hold throughout: every unpack goroutine is one the agent can
\* reach, however the calls overlap.
THEOREM TypeCorrect == Spec => []TypeOK
  BY InitTyped, TypeStep, PTL DEF Spec
-----------------------------------------------------------------------------
(* What a connection holds while no request is answered late.              *)

AtRest(c) ==
    /\ ~InProgress(c) /\ conn[c].req = <<>> /\ conn[c].rep = <<>> /\ serving[c].pc = "read"

\* One request is out; the agent has begun at most with a piece or an EOF.
Asking(c) ==
    /\ InProgress(c) /\ conn[c].open
    /\ conn[c].req = <<Request(call[c].pc, call[c].piece)>> /\ conn[c].rep = <<>>
    /\ serving[c].pc # "read" => call[c].pc \in {"copy", "eof"}

\* Its answer is there, and is the answer to it.
Answered(c) ==
    /\ InProgress(c) /\ conn[c].open /\ conn[c].req = <<>> /\ serving[c].pc = "read"
    /\ \E a \in Answers : conn[c].rep = <<a>> /\ a.of = call[c].pc

\* The agent waits for a result that another connection has taken.
GivenUp(c) ==
    /\ serving[c].pc = "write" /\ jobs[serving[c].job].taken = TRUE
    /\ conn[c].req # <<>> /\ Head(conn[c].req).of = "eof" /\ conn[c].rep = <<>>
    /\ call[c].pc \in {"pull", "failed"}

Shape(c) == AtRest(c) \/ Asking(c) \/ Answered(c) \/ GivenUp(c)
Protocol == NothingLate => \A c \in Calls : Shape(c)

\* The shim and the agent leave another call's connection alone.
LEMMA ShapeKept ==
    ASSUME NEW c \in Calls, Shape(c), call'[c] = call[c], conn'[c] = conn[c], serving'[c] = serving[c],
           serving[c].pc = "write" /\ jobs[serving[c].job].taken = TRUE => jobs'[serving[c].job].taken = TRUE
    PROVE  Shape(c)'
<1>1. InProgress(c)' <=> InProgress(c)
  BY DEF InProgress
<1>. QED
  BY <1>1 DEF Shape, AtRest, Asking, Answered, GivenUp

\* A call that asks has a kind of request as its pc.
LEMMA AskingKind ==
    ASSUME TypeOK, NEW c \in Calls, InProgress(c)
    PROVE  call[c].pc \in Kinds /\ call[c].piece \in 0..NPieces /\ call[c] \in CallStates
<1>1. call[c] \in CallStates
  BY DEF TypeOK
<1>. QED
  BY <1>1 DEF CallStates, InProgress

\* The agent answers the one request that is out.
LEMMA AnswerShape ==
    ASSUME TypeOK, NEW c \in Calls, Asking(c), NEW ok \in BOOLEAN, NEW populated \in BOOLEAN,
           Answer(c, ok, populated), UNCHANGED call
    PROVE  /\ Answered(c)' /\ conn'[c].req = <<>>
           /\ [of |-> call[c].pc, ok |-> ok, populated |-> populated] \in Answers
           /\ conn'[c].rep = <<[of |-> call[c].pc, ok |-> ok, populated |-> populated]>>
           /\ serving'[c].pc = "read" /\ serving'[c].job = 0
           /\ \A d \in Calls : d # c => conn'[d] = conn[d] /\ serving'[d] = serving[d]
<1>. DEFINE q == Request(call[c].pc, call[c].piece)
            a == [of |-> call[c].pc, ok |-> ok, populated |-> populated]
<1>1. conn[c].req = <<q>> /\ conn[c].rep = <<>> /\ conn[c].open /\ InProgress(c)
  BY DEF Asking
<1>2. call[c].pc \in Kinds
  BY <1>1, AskingKind
<1>3. a \in Answers /\ a.of = call[c].pc
  BY <1>2 DEF Answers
<1>4. q.of = call[c].pc
  BY DEF Request
<1>5. conn[c].req # <<>> /\ Head(conn[c].req) = q /\ Tail(conn[c].req) = <<>> /\ Append(conn[c].rep, a) = <<a>>
  <2>. HIDE DEF q, a
  <2>. QED
    BY <1>1, ShortSeqs
<1>6. /\ conn'[c].req = Tail(conn[c].req) /\ conn'[c].open = conn[c].open
      /\ conn'[c].rep = Append(conn[c].rep, [of |-> Head(conn[c].req).of, ok |-> ok, populated |-> populated])
      /\ serving'[c].pc = "read" /\ serving'[c].job = 0
      /\ \A d \in Calls : d # c => conn'[d] = conn[d] /\ serving'[d] = serving[d]
  BY <1>1, <1>5, AnswerTyped
<1>7. conn'[c].rep = <<a>> /\ conn'[c].req = <<>> /\ conn'[c].open
  BY <1>1, <1>4, <1>5, <1>6
<1>. HIDE DEF a, q
<1>8. InProgress(c)'
  BY <1>1 DEF InProgress
<1>9. Answered(c)'
  BY <1>3, <1>6, <1>7, <1>8 DEF Answered
<1>. QED
  BY <1>3, <1>6, <1>7, <1>9 DEF a

\* The shim's next request is alone on the connection.
LEMMA AskShape ==
    ASSUME TypeOK, NEW c \in Calls, Answered(c), NEW pc \in Kinds, NEW k \in 0..NPieces,
           pc = "copy" => k \in Pieces, Ask(c, pc, k, Tail(conn[c].rep)), UNCHANGED serving
    PROVE  /\ Asking(c)' /\ call'[c].pc = pc /\ call'[c].piece = k /\ conn'[c].rep = <<>> /\ conn'[c].req # <<>>
           /\ \A d \in Calls : d # c => call'[d] = call[d] /\ conn'[d] = conn[d]
<1>1. PICK a \in Answers : conn[c].rep = <<a>>
  BY DEF Answered
<1>2. conn[c].req = <<>> /\ conn[c].open /\ serving[c].pc = "read"
  BY DEF Answered
<1>3. Tail(conn[c].rep) = <<>> /\ Tail(conn[c].rep) \in Seq(Answers)
  BY <1>1, ShortSeqs
<1>4. /\ call'[c].pc = pc /\ call'[c].piece = k
      /\ conn'[c].req = Append(conn[c].req, Request(pc, k))
      /\ conn'[c].rep = Tail(conn[c].rep) /\ conn'[c].open = conn[c].open
      /\ \A d \in Calls : d # c => call'[d] = call[d] /\ conn'[d] = conn[d]
  <2>. DEFINE rest == Tail(conn[c].rep)
  <2>1. rest \in Seq(Answers) /\ Ask(c, pc, k, rest)
    BY <1>3
  <2>. HIDE DEF rest
  <2>2. /\ call'[c].pc = pc /\ call'[c].piece = k
        /\ conn'[c].req = Append(conn[c].req, Request(pc, k))
        /\ conn'[c].rep = rest /\ conn'[c].open = conn[c].open
        /\ \A d \in Calls : d # c => call'[d] = call[d] /\ conn'[d] = conn[d]
    BY <2>1, AskTyped
  <2>. QED
    BY <2>2 DEF rest
<1>5. conn'[c].req = <<Request(pc, k)>> /\ conn'[c].req # <<>>
  BY <1>2, <1>4, ShortSeqs
<1>6. InProgress(c)'
  BY <1>4 DEF InProgress, Kinds
<1>. QED
  BY <1>2, <1>3, <1>4, <1>5, <1>6 DEF Asking

\* A call that returns leaves its connection at rest.
LEMMA ReturnShape ==
    ASSUME TypeOK, NEW c \in Calls, Answered(c), NEW pc \in {"running", "failed"}, Return(c, pc), UNCHANGED serving
    PROVE  /\ AtRest(c)' /\ call'[c].pc = pc
           /\ \A d \in Calls : d # c => call'[d] = call[d] /\ conn'[d] = conn[d]
<1>1. conn[c].req = <<>> /\ serving[c].pc = "read"
  BY DEF Answered
<1>2. /\ call'[c].pc = pc /\ conn'[c].req = conn[c].req /\ conn'[c].rep = <<>>
      /\ \A d \in Calls : d # c => call'[d] = call[d] /\ conn'[d] = conn[d]
  BY ReturnTyped
<1>3. ~InProgress(c)'
  BY <1>2 DEF InProgress
<1>. QED
  BY <1>1, <1>2, <1>3 DEF AtRest

\* The request that is out is the one its call waits for.
LEMMA AskingHead ==
    ASSUME TypeOK, NEW c \in Calls, Asking(c)
    PROVE  /\ conn[c].req # <<>> /\ Head(conn[c].req).of = call[c].pc /\ Head(conn[c].req).piece = call[c].piece
           /\ conn[c].rep = <<>>
<1>. DEFINE q == Request(call[c].pc, call[c].piece)
<1>1. conn[c].req = <<q>> /\ conn[c].rep = <<>>
  BY DEF Asking
<1>2. q.of = call[c].pc /\ q.piece = call[c].piece
  BY DEF Request
<1>. HIDE DEF q
<1>3. conn[c].req # <<>> /\ Head(conn[c].req) = q
  BY <1>1, ShortSeqs
<1>. QED
  BY <1>1, <1>2, <1>3

\* While nothing is late, the agent works on requests whose call waits.
LEMMA AgentServes ==
    ASSUME TypeOK, NEW c \in Calls, Shape(c), AgentStep(c)
    PROVE  /\ ~HangUp(c) /\ Asking(c) /\ UNCHANGED call
           /\ PrepareRootfs(c) => call[c].pc = "prepare"
           /\ RootfsLookup(c) => call[c].pc \in {"copy", "eof"}
           /\ RootfsWrite(c) => call[c].pc = "copy"
           /\ RootfsEOF(c) => call[c].pc = "eof"
           /\ Pull(c) => call[c].pc = "pull"
           /\ Start(c) => call[c].pc = "start"
<1>1. ~HangUp(c)
  BY DEF HangUp, Shape, AtRest, Asking, Answered, GivenUp
<1>2. UNCHANGED call
  BY DEF AgentStep, HangUp, PrepareRootfs, RootfsLookup, RootfsNewJob, RootfsWrite, RootfsEOF, Pull, Start
<1>3. Asking(c)
  <2>1. ~AtRest(c) /\ ~Answered(c)
    BY <1>1 DEF AtRest, Answered, AgentStep, PrepareRootfs, RootfsLookup, RootfsNewJob, RootfsWrite, RootfsEOF,
                Pull, Start, Asked
  <2>2. ~GivenUp(c)
    BY <1>1 DEF GivenUp, AgentStep, PrepareRootfs, RootfsLookup, RootfsNewJob, RootfsWrite, RootfsEOF,
                Pull, Start, Asked
  <2>. QED
    BY <2>1, <2>2 DEF Shape
<1>4. Head(conn[c].req).of = call[c].pc
  BY <1>3, AskingHead
<1>. QED
  BY <1>1, <1>2, <1>3, <1>4 DEF PrepareRootfs, RootfsLookup, RootfsWrite, RootfsEOF, Pull, Start, Asked

\* What RootfsNewJob does, with the job named.
LEMMA NewJobCase ==
    ASSUME TypeOK, NEW c \in Calls, RootfsNewJob(c)
    PROVE  \E j \in Jobs :
              /\ j # unpacker /\ \A d \in Calls : j # serving[d].job
              /\ jobs' = [jobs EXCEPT ![j] = NewJob] /\ unpacker' = j
              /\ serving' = [serving EXCEPT ![c] = [pc |-> "write", job |-> j]]
<1>. DEFINE inUse == {unpacker} \cup {serving[d].job : d \in Calls}
            j == CHOOSE i \in Jobs \ inUse : TRUE
<1>1. serving[c].pc = "new"
  BY DEF RootfsNewJob
<1>2. j \in Jobs \ inUse
  BY <1>1, FreeJob, Zenon
<1>3. /\ jobs' = [jobs EXCEPT ![j] = NewJob] /\ unpacker' = j
      /\ serving' = [serving EXCEPT ![c] = [pc |-> "write", job |-> j]]
  BY Zenon DEF RootfsNewJob
<1>. HIDE DEF j
<1>4. j # unpacker /\ \A d \in Calls : j # serving[d].job
  BY <1>2
<1>. QED
  BY <1>2, <1>3, <1>4

\* What RootfsWrite does to its job.
LEMMA WriteCase ==
    ASSUME TypeOK, NEW c \in Calls, RootfsWrite(c)
    PROVE  LET j == serving[c].job
               k == Head(conn[c].req).piece
           IN  /\ j \in Jobs /\ k \in Pieces /\ jobs[j] \in Unpackers
               /\ \/ UNCHANGED jobs
                  \/ jobs' = [jobs EXCEPT ![j] = Taken(jobs[j], k)]
                  \/ jobs' = [jobs EXCEPT ![j] = Broken(jobs[j])]
<1>1. serving[c].pc = "write" /\ Asked(c, "copy")
  BY DEF RootfsWrite
<1>2. serving[c].job \in Jobs /\ Head(conn[c].req).piece \in Pieces /\ jobs[serving[c].job] \in Unpackers
  BY <1>1, WriterTyped
<1>. QED
  BY <1>2 DEF RootfsWrite

\* What RootfsEOF does to its job.
LEMMA EOFCase ==
    ASSUME TypeOK, NEW c \in Calls, RootfsEOF(c)
    PROVE  LET j == serving[c].job
           IN  /\ j \in Jobs /\ jobs[j] \in Unpackers /\ jobs'[j].taken = TRUE
               /\ \A i \in Jobs : i # j => jobs'[i] = jobs[i]
<1>. DEFINE j == serving[c].job
            new == [jobs[j] EXCEPT !.taken = TRUE, !.state = IF jobs[j].state = "open" THEN "done" ELSE jobs[j].state]
<1>1. j \in Jobs /\ jobs[j] \in Unpackers
  BY WriterTyped DEF RootfsEOF
<1>2. jobs' = [jobs EXCEPT ![j] = new]
  BY DEF RootfsEOF
<1>3. new.taken = TRUE
  BY <1>1 DEF Unpackers
<1>. HIDE DEF new
<1>4. jobs'[j] = new /\ \A i \in Jobs : i # j => jobs'[i] = jobs[i]
  BY <1>1, <1>2 DEF TypeOK
<1>. QED
  BY <1>1, <1>3, <1>4

\* A result that was taken stays taken for those that wait for it.
LEMMA TakenStays ==
    ASSUME TypeOK, NEW c \in Calls, AgentStep(c),
           NEW d \in Calls, serving[d].pc = "write", jobs[serving[d].job].taken = TRUE
    PROVE  jobs'[serving[d].job].taken = TRUE
<1>. DEFINE i == serving[d].job
<1>1. i \in Jobs
  BY WriterTyped
<1>2. CASE RootfsNewJob(c)
  <2>1. PICK j \in Jobs : (\A e \in Calls : j # serving[e].job) /\ jobs' = [jobs EXCEPT ![j] = NewJob]
    BY <1>2, NewJobCase
  <2>2. i # j
    BY <2>1
  <2>. HIDE DEF i
  <2>3. jobs'[i] = jobs[i]
    BY <1>1, <2>1, <2>2 DEF TypeOK
  <2>. QED
    BY <2>3 DEF i
<1>3. CASE RootfsWrite(c)
  <2>. DEFINE j == serving[c].job
              k == Head(conn[c].req).piece
  <2>1. /\ j \in Jobs /\ k \in Pieces /\ jobs[j] \in Unpackers
        /\ \/ UNCHANGED jobs
           \/ jobs' = [jobs EXCEPT ![j] = Taken(jobs[j], k)]
           \/ jobs' = [jobs EXCEPT ![j] = Broken(jobs[j])]
    BY <1>3, WriteCase
  <2>2. Taken(jobs[j], k).taken = jobs[j].taken /\ Broken(jobs[j]).taken = jobs[j].taken
    BY <2>1, UnpackTyped
  <2>. HIDE DEF i, j, k
  <2>3. jobs'[i].taken = jobs[i].taken
    BY <1>1, <2>1, <2>2 DEF TypeOK
  <2>. QED
    BY <2>3 DEF i
<1>4. CASE RootfsEOF(c)
  BY <1>1, <1>4, EOFCase
<1>5. CASE HangUp(c) \/ PrepareRootfs(c) \/ RootfsLookup(c) \/ Pull(c) \/ Start(c)
  BY <1>5 DEF HangUp, PrepareRootfs, RootfsLookup, Pull, Start, guestVars
<1>. QED
  BY <1>2, <1>3, <1>4, <1>5 DEF AgentStep

\* The agent answers, or goes on with a piece or an EOF it has read.
LEMMA AgentAnswers ==
    ASSUME NEW c \in Calls, AgentStep(c), ~HangUp(c)
    PROVE  RootfsLookup(c) \/ RootfsNewJob(c) \/ \E ok, populated \in BOOLEAN : Answer(c, ok, populated)
<1>1. RootfsPopulated \in BOOLEAN
  BY DEF RootfsPopulated
<1>2. PrepareRootfs(c) => \E ok, populated \in BOOLEAN : Answer(c, ok, populated)
  BY <1>1 DEF PrepareRootfs
<1>3. RootfsWrite(c) => \E ok, populated \in BOOLEAN : Answer(c, ok, populated)
  BY DEF RootfsWrite
<1>4. RootfsEOF(c) => \E ok, populated \in BOOLEAN : Answer(c, ok, populated)
  BY DEF RootfsEOF
<1>5. Pull(c) => \E ok, populated \in BOOLEAN : Answer(c, ok, populated)
  BY DEF Pull, PullImage
<1>6. Start(c) => \E ok, populated \in BOOLEAN : Answer(c, ok, populated)
  BY DEF Start
<1>. QED
  BY <1>2, <1>3, <1>4, <1>5, <1>6 DEF AgentStep

\* The agent's steps keep every connection in one of the four shapes.
LEMMA AgentShape ==
    ASSUME TypeOK, NEW c \in Calls, AgentStep(c), \A d \in Calls : Shape(d)
    PROVE  /\ \A d \in Calls : Shape(d)'
           /\ \A d \in Calls : d # c => call'[d] = call[d] /\ conn'[d] = conn[d] /\ serving'[d] = serving[d]
<1>1. Asking(c) /\ ~HangUp(c) /\ UNCHANGED call
  BY AgentServes
<1>2. /\ Shape(c)'
      /\ \A d \in Calls : d # c => conn'[d] = conn[d] /\ serving'[d] = serving[d]
  <2>1. CASE RootfsLookup(c)
    <3>. DEFINE new == [pc |-> IF unpacker = 0 THEN "new" ELSE "write", job |-> unpacker]
    <3>1. call[c].pc \in {"copy", "eof"}
      BY <2>1, AgentServes
    <3>2. serving' = [serving EXCEPT ![c] = new] /\ UNCHANGED conn
      BY <2>1 DEF RootfsLookup
    <3>. HIDE DEF new
    <3>3. \A d \in Calls : d # c => conn'[d] = conn[d] /\ serving'[d] = serving[d]
      BY <3>2 DEF TypeOK
    <3>4. Asking(c)'
      BY <1>1, <3>1, <3>2 DEF Asking, InProgress
    <3>. QED
      BY <3>3, <3>4 DEF Shape
  <2>2. CASE RootfsNewJob(c)
    <3>1. PICK j \in Jobs : serving' = [serving EXCEPT ![c] = [pc |-> "write", job |-> j]]
      BY <2>2, NewJobCase
    <3>2. serving[c].pc = "new" /\ UNCHANGED conn
      BY <2>2 DEF RootfsNewJob
    <3>3. call[c].pc \in {"copy", "eof"}
      BY <1>1, <3>2 DEF Asking
    <3>. DEFINE new == [pc |-> "write", job |-> j]
    <3>4. serving' = [serving EXCEPT ![c] = new]
      BY <3>1
    <3>. HIDE DEF new
    <3>5. \A d \in Calls : d # c => conn'[d] = conn[d] /\ serving'[d] = serving[d]
      BY <3>2, <3>4 DEF TypeOK
    <3>6. Asking(c)'
      BY <1>1, <3>2, <3>3 DEF Asking, InProgress
    <3>. QED
      BY <3>5, <3>6 DEF Shape
  <2>3. CASE \E ok, populated \in BOOLEAN : Answer(c, ok, populated)
    <3>1. PICK ok \in BOOLEAN, populated \in BOOLEAN : Answer(c, ok, populated)
      BY <2>3
    <3>2. Answered(c)' /\ \A d \in Calls : d # c => conn'[d] = conn[d] /\ serving'[d] = serving[d]
      BY <1>1, <3>1, AnswerShape
    <3>. QED
      BY <3>2 DEF Shape
  <2>. QED
    BY <1>1, <2>1, <2>2, <2>3, AgentAnswers
<1>3. ASSUME NEW d \in Calls, d # c PROVE Shape(d)'
  <2>1. call'[d] = call[d] /\ conn'[d] = conn[d] /\ serving'[d] = serving[d]
    BY <1>1, <1>2, <1>3
  <2>2. serving[d].pc = "write" /\ jobs[serving[d].job].taken = TRUE => jobs'[serving[d].job].taken = TRUE
    BY TakenStays
  <2>. QED
    BY <2>1, <2>2, ShapeKept
<1>. QED
  BY <1>1, <1>2, <1>3

\* A deadline that is not late is that of a call whose EOF waits for nothing.
LEMMA DeadlineStuck ==
    ASSUME TypeOK, NEW c \in Calls, Deadline(c), NothingLate'
    PROVE  Stuck(c) /\ UNCHANGED <<serving, guestVars, budget>>
<1>1. Spend("timeout") => budget'.timeout # MaxTimeouts
  BY BudgetTyped
<1>. QED
  BY <1>1 DEF Deadline, NothingLate

\* Its call goes on to the guest pull or returns, and is given up.
LEMMA DeadlineShape ==
    ASSUME TypeOK, NEW c \in Calls, Deadline(c), NothingLate', Shape(c)
    PROVE  /\ GivenUp(c)' /\ conn[c].req # <<>>
           /\ call[c].pc \in {"eof", "pull"} /\ call'[c].pc \in {"pull", "failed"}
           /\ \A d \in Calls : d # c => call'[d] = call[d] /\ conn'[d] = conn[d]
<1>1. Stuck(c) /\ UNCHANGED <<serving, guestVars>> /\ InProgress(c) /\ conn[c].rep = <<>>
  BY DeadlineStuck DEF Deadline
<1>2. serving[c].pc = "write" /\ jobs[serving[c].job].taken = TRUE /\ Head(conn[c].req).of = "eof"
  <2>1. jobs[serving[c].job] \in Unpackers
    BY <1>1, WriterTyped DEF Stuck
  <2>2. jobs[serving[c].job].taken \in BOOLEAN
    BY <2>1 DEF Unpackers
  <2>. QED
    BY <1>1, <2>2 DEF Stuck
<1>3. (Asking(c) /\ call[c].pc = "eof") \/ (GivenUp(c) /\ call[c].pc = "pull")
  <2>1. Asking(c) => call[c].pc = "eof"
    BY <1>2, AskingHead
  <2>. QED
    BY <1>1, <1>2, <2>1 DEF Shape, AtRest, Answered, GivenUp, InProgress
<1>4. CASE Asking(c) /\ call[c].pc = "eof"
  <2>1. Ask(c, "pull", 0, <<>>)
    BY <1>4 DEF Deadline
  <2>2. <<>> \in Seq(Answers) /\ 0 \in 0..NPieces /\ "pull" \in Kinds
    BY PiecesAssumption DEF Kinds
  <2>3. /\ call'[c].pc = "pull" /\ conn'[c].req = Append(conn[c].req, Request("pull", 0)) /\ conn'[c].rep = <<>>
        /\ \A d \in Calls : d # c => call'[d] = call[d] /\ conn'[d] = conn[d]
    <3>. DEFINE none == <<>>
                pull == "pull"
    <3>1. none \in Seq(Answers) /\ pull \in Kinds /\ pull # "copy" /\ Ask(c, pull, 0, none)
      BY <2>1, <2>2
    <3>. HIDE DEF none, pull
    <3>2. /\ call'[c].pc = pull /\ conn'[c].req = Append(conn[c].req, Request(pull, 0)) /\ conn'[c].rep = none
          /\ \A d \in Calls : d # c => call'[d] = call[d] /\ conn'[d] = conn[d]
      BY <2>2, <3>1, AskTyped
    <3>. QED
      BY <3>2 DEF none, pull
  <2>4. conn[c].req \in Seq(Requests) /\ conn[c].req # <<>> /\ Request("pull", 0) \in Requests
    <3>1. conn[c] \in Connections
      BY DEF TypeOK
    <3>2. conn[c].req # <<>>
      BY <1>4, AskingHead
    <3>. QED
      BY <2>2, <3>1, <3>2 DEF Connections, Request, Requests
  <2>5. conn'[c].req # <<>> /\ Head(conn'[c].req) = Head(conn[c].req)
    BY <2>3, <2>4
  <2>6. serving'[c] = serving[c] /\ jobs' = jobs
    BY <1>1 DEF guestVars
  <2>7. GivenUp(c)'
    BY <1>2, <2>3, <2>5, <2>6 DEF GivenUp
  <2>. QED
    BY <1>4, <2>3, <2>4, <2>7
<1>5. CASE GivenUp(c) /\ call[c].pc = "pull"
  <2>1. Return(c, "failed")
    BY <1>5 DEF Deadline
  <2>2. /\ call'[c].pc = "failed" /\ conn'[c].req = conn[c].req /\ conn'[c].rep = <<>>
        /\ \A d \in Calls : d # c => call'[d] = call[d] /\ conn'[d] = conn[d]
    BY <2>1, ReturnTyped
  <2>3. serving'[c] = serving[c] /\ jobs' = jobs
    BY <1>1 DEF guestVars
  <2>4. GivenUp(c)'
    BY <1>2, <1>5, <2>2, <2>3 DEF GivenUp
  <2>. QED
    BY <1>5, <2>2, <2>4 DEF GivenUp
<1>. QED
  BY <1>3, <1>4, <1>5

\* A new call finds its connection at rest, and asks.
LEMMA StartShape ==
    ASSUME TypeOK, NEW c \in Calls, StartContainer(c), Shape(c)
    PROVE  /\ AtRest(c) /\ Asking(c)' /\ call'[c].pc = "prepare" /\ conn'[c].rep = <<>> /\ conn'[c].req # <<>>
           /\ \A d \in Calls : d # c => call'[d] = call[d] /\ conn'[d] = conn[d]
           /\ UNCHANGED <<serving, guestVars, budget>>
<1>. DEFINE new == [pc |-> "prepare", piece |-> 0]
            link == [req |-> <<Request("prepare", 0)>>, rep |-> <<>>, open |-> TRUE]
<1>1. AtRest(c)
  BY DEF StartContainer, Shape, Asking, Answered, GivenUp
<1>2. /\ call' = [call EXCEPT ![c] = new] /\ conn' = [conn EXCEPT ![c] = link]
      /\ UNCHANGED <<serving, guestVars, budget>>
  BY DEF StartContainer
<1>3. /\ new.pc = "prepare" /\ new.piece = 0
      /\ link.req = <<Request("prepare", 0)>> /\ link.rep = <<>> /\ link.open = TRUE /\ link.req # <<>>
  OBVIOUS
<1>. HIDE DEF new, link
<1>4. /\ call'[c] = new /\ conn'[c] = link
      /\ \A d \in Calls : d # c => call'[d] = call[d] /\ conn'[d] = conn[d]
  BY <1>2 DEF TypeOK
<1>5. InProgress(c)' /\ serving'[c].pc = "read"
  BY <1>1, <1>2, <1>3, <1>4 DEF InProgress, AtRest
<1>6. Asking(c)'
  BY <1>3, <1>4, <1>5 DEF Asking
<1>. QED
  BY <1>1, <1>2, <1>3, <1>4, <1>6

\* The faults left are those of the step before, or fewer.
LEMMA FaultsOnlySpent ==
    ASSUME TypeOK, [Next]_vars
    PROVE  /\ NothingLate' => NothingLate
           /\ budget'.host = MaxHostFaults => budget.host = MaxHostFaults
<1>1. UNCHANGED budget \/ \E kind \in {"disk", "host", "timeout"} : Spend(kind)
  <2>1. CASE UNCHANGED vars
    BY <2>1 DEF vars
  <2>2. ASSUME NEW c \in Calls, StartContainer(c) \/ ShimStep(c)
        PROVE  UNCHANGED budget \/ Spend("host") \/ Spend("timeout")
    BY <2>2, TakeAnswerCases DEF ShimStep, StartContainer, Deadline
  <2>3. ASSUME NEW c \in Calls, AgentStep(c)
        PROVE  UNCHANGED budget \/ Spend("disk")
    BY <2>3 DEF AgentStep, HangUp, PrepareRootfs, RootfsLookup, RootfsNewJob, RootfsWrite, RootfsEOF, Pull,
                PullImage, FetchAndUnpackLayers, Start
  <2>. QED
    BY <2>1, <2>2, <2>3 DEF Next
<1>2. /\ budget'.host <= budget.host /\ budget'.timeout <= budget.timeout
      /\ budget' \in [{"disk", "host", "timeout"} -> Nat]
  BY <1>1, BudgetTyped
<1>3. /\ budget.host <= MaxHostFaults /\ budget.timeout <= MaxTimeouts
      /\ budget \in [{"disk", "host", "timeout"} -> Nat]
  BY DEF TypeOK
<1>4. MaxHostFaults \in Nat /\ MaxTimeouts \in Nat
  BY FaultsAssumption
<1>5. budget.host \in Nat /\ budget'.host \in Nat /\ budget.timeout \in Nat /\ budget'.timeout \in Nat
  BY <1>2, <1>3
<1>. QED
  BY <1>2, <1>3, <1>4, <1>5 DEF NothingLate

\* What the shim makes of the one answer that is there.
LEMMA TakenShape ==
    ASSUME TypeOK, NEW c \in Calls, TakeAnswer(c), Shape(c)
    PROVE  \E a \in Answers :
              /\ Answered(c) /\ conn[c].rep = <<a>> /\ a.of = call[c].pc
              /\ UNCHANGED <<serving, guestVars>>
              /\ \A d \in Calls : d # c => call'[d] = call[d] /\ conn'[d] = conn[d]
              /\ \/ AtRest(c)' /\ call'[c].pc = "failed" /\ call[c].pc \in {"prepare", "pull", "start"}
                 \/ AtRest(c)' /\ call'[c].pc = "running" /\ call[c].pc = "start" /\ a.ok
                 \/ /\ Asking(c)' /\ conn'[c].rep = <<>>
                    /\ \/ /\ call'[c].pc = "start"
                          /\ \/ call[c].pc = "prepare" /\ a.ok /\ a.populated
                             \/ call[c].pc \in {"eof", "pull"} /\ a.ok
                       \/ /\ call'[c].pc = "copy" /\ call'[c].piece = 1
                          /\ call[c].pc = "prepare" /\ a.ok /\ ~a.populated
                       \/ /\ call'[c].pc = "copy" /\ call'[c].piece = call[c].piece + 1
                          /\ call[c].pc = "copy" /\ a.ok /\ call[c].piece < NPieces
                       \/ call'[c].pc = "eof" /\ call[c].pc = "copy" /\ a.ok /\ call[c].piece = NPieces
                       \/ /\ call'[c].pc = "pull"
                          /\ \/ call[c].pc \in {"copy", "eof"} /\ ~a.ok
                             \/ Spend("host") /\ call[c].pc = "copy"
                             \/ Spend("host") /\ call[c].pc = "prepare" /\ a.ok /\ ~a.populated
<1>1. InProgress(c) /\ conn[c].rep # <<>> /\ UNCHANGED <<serving, guestVars>>
  BY TakeAnswerCases
<1>2. Answered(c)
  BY <1>1 DEF Shape, AtRest, Asking, GivenUp
<1>3. PICK a \in Answers : conn[c].rep = <<a>> /\ a.of = call[c].pc
  BY <1>2 DEF Answered
<1>4. Head(conn[c].rep) = a
  BY <1>3, ShortSeqs
<1>. DEFINE rest == Tail(conn[c].rep)
            k == call[c].piece
<1>5. \/ call[c].pc \in {"prepare", "pull", "start"} /\ Return(c, "failed")
      \/ call[c].pc = "start" /\ a.ok /\ Return(c, "running")
      \/ /\ \/ call[c].pc = "prepare" /\ a.ok /\ a.populated
            \/ call[c].pc \in {"eof", "pull"} /\ a.ok
         /\ Ask(c, "start", 0, rest)
      \/ call[c].pc = "prepare" /\ a.ok /\ ~a.populated /\ Ask(c, "copy", 1, rest)
      \/ call[c].pc = "copy" /\ a.ok /\ k < NPieces /\ Ask(c, "copy", k + 1, rest)
      \/ call[c].pc = "copy" /\ a.ok /\ k = NPieces /\ Ask(c, "eof", 0, rest)
      \/ /\ \/ call[c].pc \in {"copy", "eof"} /\ ~a.ok
            \/ Spend("host") /\ call[c].pc = "copy"
            \/ Spend("host") /\ call[c].pc = "prepare" /\ a.ok /\ ~a.populated
         /\ Ask(c, "pull", 0, rest)
  BY <1>4, TakeAnswerCases
<1>6. UNCHANGED serving
  BY <1>1
<1>7. ASSUME NEW pc \in {"running", "failed"}, Return(c, pc)
      PROVE  /\ AtRest(c)' /\ call'[c].pc = pc
             /\ \A d \in Calls : d # c => call'[d] = call[d] /\ conn'[d] = conn[d]
  BY <1>2, <1>6, <1>7, ReturnShape
<1>8. ASSUME NEW pc \in {"start", "copy", "eof", "pull"}, NEW i \in 0..NPieces, pc = "copy" => i \in Pieces,
             Ask(c, pc, i, rest)
      PROVE  /\ Asking(c)' /\ call'[c].pc = pc /\ call'[c].piece = i /\ conn'[c].rep = <<>>
             /\ \A d \in Calls : d # c => call'[d] = call[d] /\ conn'[d] = conn[d]
  <2>1. pc \in Kinds
    BY DEF Kinds
  <2>. QED
    BY <1>2, <1>6, <1>8, <2>1, AskShape
<1>9. /\ 0 \in 0..NPieces /\ 1 \in 0..NPieces /\ 1 \in Pieces
      /\ k < NPieces => k + 1 \in 0..NPieces /\ k + 1 \in Pieces
  BY NextPiece
<1>. HIDE DEF rest, k
<1>10. CASE call[c].pc \in {"prepare", "pull", "start"} /\ Return(c, "failed")
  BY <1>1, <1>2, <1>3, <1>7, <1>10
<1>11. CASE call[c].pc = "start" /\ a.ok /\ Return(c, "running")
  BY <1>1, <1>2, <1>3, <1>7, <1>11
<1>12. CASE /\ \/ call[c].pc = "prepare" /\ a.ok /\ a.populated
               \/ call[c].pc \in {"eof", "pull"} /\ a.ok
            /\ Ask(c, "start", 0, rest)
  <2>1. /\ Asking(c)' /\ call'[c].pc = "start" /\ conn'[c].rep = <<>>
        /\ \A d \in Calls : d # c => call'[d] = call[d] /\ conn'[d] = conn[d]
    BY <1>8, <1>9, <1>12
  <2>. QED
    BY <1>1, <1>2, <1>3, <1>12, <2>1
<1>13. CASE call[c].pc = "prepare" /\ a.ok /\ ~a.populated /\ Ask(c, "copy", 1, rest)
  <2>1. /\ Asking(c)' /\ call'[c].pc = "copy" /\ call'[c].piece = 1 /\ conn'[c].rep = <<>>
        /\ \A d \in Calls : d # c => call'[d] = call[d] /\ conn'[d] = conn[d]
    BY <1>8, <1>9, <1>13
  <2>. QED
    BY <1>1, <1>2, <1>3, <1>13, <2>1
<1>14. CASE call[c].pc = "copy" /\ a.ok /\ k < NPieces /\ Ask(c, "copy", k + 1, rest)
  <2>1. /\ Asking(c)' /\ call'[c].pc = "copy" /\ call'[c].piece = k + 1 /\ conn'[c].rep = <<>>
        /\ \A d \in Calls : d # c => call'[d] = call[d] /\ conn'[d] = conn[d]
    BY <1>8, <1>9, <1>14
  <2>. QED
    BY <1>1, <1>2, <1>3, <1>14, <2>1 DEF k
<1>15. CASE call[c].pc = "copy" /\ a.ok /\ k = NPieces /\ Ask(c, "eof", 0, rest)
  <2>1. /\ Asking(c)' /\ call'[c].pc = "eof" /\ conn'[c].rep = <<>>
        /\ \A d \in Calls : d # c => call'[d] = call[d] /\ conn'[d] = conn[d]
    BY <1>8, <1>9, <1>15
  <2>. QED
    BY <1>1, <1>2, <1>3, <1>15, <2>1 DEF k
<1>16. CASE /\ \/ call[c].pc \in {"copy", "eof"} /\ ~a.ok
               \/ Spend("host") /\ call[c].pc = "copy"
               \/ Spend("host") /\ call[c].pc = "prepare" /\ a.ok /\ ~a.populated
            /\ Ask(c, "pull", 0, rest)
  <2>1. /\ Asking(c)' /\ call'[c].pc = "pull" /\ conn'[c].rep = <<>>
        /\ \A d \in Calls : d # c => call'[d] = call[d] /\ conn'[d] = conn[d]
    BY <1>8, <1>9, <1>16
  <2>. QED
    BY <1>1, <1>2, <1>3, <1>16, <2>1
<1>. QED
  BY <1>5, <1>10, <1>11, <1>12, <1>13, <1>14, <1>15, <1>16

\* Every step keeps the protocol while nothing is late.
LEMMA ProtocolStep == TypeOK /\ Protocol /\ [Next]_vars => Protocol'
<1>. SUFFICES ASSUME TypeOK, Protocol, [Next]_vars, NothingLate' PROVE \A d \in Calls : Shape(d)'
  BY DEF Protocol
<1>1. \A d \in Calls : Shape(d)
  BY FaultsOnlySpent DEF Protocol
<1>2. CASE UNCHANGED vars
  BY <1>1, <1>2 DEF vars, Shape, AtRest, Asking, Answered, GivenUp, InProgress
<1>3. ASSUME NEW c \in Calls, AgentStep(c) PROVE \A d \in Calls : Shape(d)'
  BY <1>1, <1>3, AgentShape
<1>4. ASSUME NEW c \in Calls, StartContainer(c) \/ ShimStep(c) PROVE \A d \in Calls : Shape(d)'
  <2>1. Shape(c)' /\ \A d \in Calls : d # c => call'[d] = call[d] /\ conn'[d] = conn[d]
    <3>1. CASE StartContainer(c)
      BY <1>1, <3>1, StartShape DEF Shape
    <3>2. CASE TakeAnswer(c)
      BY <1>1, <3>2, TakenShape DEF Shape
    <3>3. CASE Deadline(c)
      BY <1>1, <3>3, DeadlineShape DEF Shape
    <3>. QED
      BY <1>4, <3>1, <3>2, <3>3 DEF ShimStep
  <2>2. serving' = serving /\ jobs' = jobs
    BY <1>4 DEF StartContainer, ShimStep, TakeAnswer, Deadline, guestVars
  <2>3. ASSUME NEW d \in Calls, d # c PROVE Shape(d)'
    BY <1>1, <2>1, <2>2, <2>3, ShapeKept
  <2>. QED
    BY <2>1, <2>3
<1>. QED
  BY <1>2, <1>3, <1>4 DEF Next
-----------------------------------------------------------------------------
(* A container that is reported running was started.                       *)

\* The answer to a start request tells what the agent did.
StartInv ==
    NothingLate => \A c \in Calls :
        /\ call[c].pc = "running" => started = TRUE
        /\ \A a \in Answers : call[c].pc = "start" /\ conn[c].rep = <<a>> /\ a.ok = TRUE => started = TRUE

\* The agent never takes a start back.
LEMMA StartedStays ==
    ASSUME [Next]_vars, started = TRUE
    PROVE  started' = TRUE
  BY DEF Next, vars, guestVars, StartContainer, ShimStep, TakeAnswer, Deadline, AgentStep, HangUp, PrepareRootfs,
         RootfsLookup, RootfsNewJob, RootfsWrite, RootfsEOF, Pull, Start

\* The fields of an answer.
LEMMA AnswerFields ==
    ASSUME NEW a \in Answers
    PROVE  a.of \in Kinds /\ a.ok \in BOOLEAN /\ a.populated \in BOOLEAN
  BY DEF Answers

\* A sequence of one answer holds that answer.
LEMMA OneAnswer ==
    ASSUME NEW a \in Answers, NEW b \in Answers, <<a>> = <<b>>
    PROVE  a = b
  BY ShortSeqs

\* The agent's answer to a start request.
LEMMA StartAnswers ==
    ASSUME TypeOK, NEW c \in Calls, Asking(c), Start(c), NEW a \in Answers, conn'[c].rep = <<a>>, a.ok = TRUE
    PROVE  started' = TRUE
<1>1. UNCHANGED call
  BY DEF Start
<1>2. CASE started' = TRUE
  BY <1>2
<1>3. CASE Answer(c, FALSE, FALSE)
  <2>. DEFINE b == [of |-> call[c].pc, ok |-> FALSE, populated |-> FALSE]
  <2>1. b \in Answers /\ conn'[c].rep = <<b>>
    BY <1>1, <1>3, AnswerShape
  <2>2. b.ok = FALSE
    OBVIOUS
  <2>. HIDE DEF b
  <2>3. a = b
    BY <2>1, OneAnswer
  <2>. QED
    BY <2>2, <2>3
<1>. QED
  BY <1>2, <1>3 DEF Start

\* Every step keeps StartInv.
LEMMA StartStep == TypeOK /\ Protocol /\ StartInv /\ [Next]_vars => StartInv'
<1>. SUFFICES ASSUME TypeOK, Protocol, StartInv, [Next]_vars, NothingLate', started # TRUE, started' # TRUE,
                     NEW d \in Calls
              PROVE  /\ call'[d].pc # "running"
                     /\ \A a \in Answers : ~(call'[d].pc = "start" /\ conn'[d].rep = <<a>> /\ a.ok = TRUE)
  BY StartedStays DEF StartInv
<1>1. /\ \A c \in Calls : Shape(c)
      /\ \A c \in Calls : /\ call[c].pc # "running"
                          /\ \A a \in Answers : ~(call[c].pc = "start" /\ conn[c].rep = <<a>> /\ a.ok = TRUE)
  BY FaultsOnlySpent DEF Protocol, StartInv
<1>2. CASE call'[d] = call[d] /\ conn'[d] = conn[d]
  BY <1>1, <1>2
<1>3. CASE UNCHANGED vars
  BY <1>2, <1>3 DEF vars
<1>4. ASSUME NEW c \in Calls, AgentStep(c), ~(call'[d] = call[d] /\ conn'[d] = conn[d])
      PROVE  /\ call'[d].pc # "running"
             /\ \A a \in Answers : ~(call'[d].pc = "start" /\ conn'[d].rep = <<a>> /\ a.ok = TRUE)
  <2>1. d = c /\ Asking(c) /\ ~HangUp(c) /\ UNCHANGED call
    BY <1>1, <1>4, AgentShape, AgentServes
  <2>2. call'[d].pc # "running"
    BY <1>1, <2>1
  <2>3. CASE Start(c)
    BY <2>1, <2>2, <2>3, StartAnswers
  <2>4. CASE ~Start(c)
    <3>1. call[c].pc # "start"
      <4>1. PrepareRootfs(c) \/ RootfsLookup(c) \/ RootfsNewJob(c) \/ RootfsWrite(c) \/ RootfsEOF(c) \/ Pull(c)
        BY <1>4, <2>1, <2>4 DEF AgentStep
      <4>2. RootfsNewJob(c) => call[c].pc \in {"copy", "eof"}
        BY <2>1 DEF RootfsNewJob, Asking
      <4>. QED
        BY <1>1, <1>4, <4>1, <4>2, AgentServes
    <3>. QED
      BY <2>1, <2>2, <3>1
  <2>. QED
    BY <2>3, <2>4
<1>5. ASSUME NEW c \in Calls, StartContainer(c) \/ ShimStep(c), ~(call'[d] = call[d] /\ conn'[d] = conn[d])
      PROVE  /\ call'[d].pc # "running"
             /\ \A a \in Answers : ~(call'[d].pc = "start" /\ conn'[d].rep = <<a>> /\ a.ok = TRUE)
  <2>1. CASE StartContainer(c)
    BY <1>1, <1>5, <2>1, StartShape
  <2>2. CASE Deadline(c)
    BY <1>1, <1>5, <2>2, DeadlineShape
  <2>3. CASE TakeAnswer(c)
    <3>1. PICK b \in Answers :
             /\ conn[c].rep = <<b>>
             /\ \A e \in Calls : e # c => call'[e] = call[e] /\ conn'[e] = conn[e]
             /\ \/ call'[c].pc = "failed"
                \/ call'[c].pc = "running" /\ call[c].pc = "start" /\ b.ok
                \/ conn'[c].rep = <<>> /\ call'[c].pc \in {"start", "copy", "eof", "pull"}
      BY <1>1, <2>3, TakenShape
    <3>2. d = c
      BY <1>5, <3>1
    <3>3. b.ok = TRUE \/ b.ok = FALSE
      BY AnswerFields
    <3>4. ~(call[c].pc = "start" /\ b.ok)
      BY <1>1, <3>1, <3>3
    <3>5. \A a \in Answers : <<a>> # <<>>
      BY ShortSeqs
    <3>. QED
      BY <3>1, <3>2, <3>4, <3>5
  <2>. QED
    BY <1>5, <2>1, <2>2, <2>3 DEF ShimStep
<1>. QED
  BY <1>2, <1>3, <1>4, <1>5 DEF Next

\* The three invariants of the protocol together.
LEMMA ProtocolHolds == Spec => [](TypeOK /\ Protocol /\ StartInv)
<1>1. Init => Protocol
  BY DEF Init, Protocol, Shape, AtRest, InProgress
<1>2. Init => StartInv
  BY DEF Init, StartInv
<1>3. TypeOK /\ Protocol /\ StartInv /\ [Next]_vars => TypeOK' /\ Protocol' /\ StartInv'
  BY TypeStep, ProtocolStep, StartStep
<1>. QED
  BY <1>1, <1>2, <1>3, InitTyped, PTL DEF Spec

\* As long as no answer has come after its deadline, a call that reports the
\* container running has a process in the guest, with calls that overlap too.
\* The condition is needed: a late answer is taken for the answer to the next
\* request (RootfsLateAnswer.cfg).
THEOREM RunningIsStartedHolds == Spec => [](NothingLate => RunningIsStarted)
<1>1. StartInv => (NothingLate => RunningIsStarted)
  BY DEF StartInv, RunningIsStarted
<1>. QED
  BY <1>1, ProtocolHolds, PTL
-----------------------------------------------------------------------------
(* A restart leaves the tree alone.                                        *)

\* Without overlap one call at a time is in progress.
OneCall == ~Overlap => \A c, d \in Calls : InProgress(c) /\ InProgress(d) => c = d

\* A process needs a shell, and no step takes a file off the disk.
ShellStays == started = TRUE => RootfsPopulated

RestartInv ==
    ~Overlap /\ NothingLate /\ started = TRUE => \A c \in Calls :
        /\ call[c].pc \notin {"copy", "eof", "pull"}
        /\ \A a \in Answers : call[c].pc = "prepare" /\ conn[c].rep = <<a>> /\ a.ok = TRUE => a.populated = TRUE

\* A step of one call is a step of no other.
LEMMA OthersWait ==
    ASSUME TypeOK, NEW c \in Calls, StartContainer(c) \/ ShimStep(c)
    PROVE  /\ \A d \in Calls : d # c => call'[d] = call[d]
           /\ InProgress(c) \/ StartContainer(c)
<1>1. InProgress(c) \/ StartContainer(c)
  BY DEF ShimStep, TakeAnswer, Deadline
<1>2. \E new : call' = [call EXCEPT ![c] = new]
  <2>1. StartContainer(c) => \E new : call' = [call EXCEPT ![c] = new]
    BY DEF StartContainer
  <2>2. TakeAnswer(c) => \E new : call' = [call EXCEPT ![c] = new]
    <3>1. \A pc, k, rep : Ask(c, pc, k, rep) => \E new : call' = [call EXCEPT ![c] = new]
      BY DEF Ask
    <3>2. \A pc : Return(c, pc) => \E new : call' = [call EXCEPT ![c] = new]
      BY DEF Return
    <3>. QED
      BY <3>1, <3>2, TakeAnswerCases
  <2>3. Deadline(c) => \E new : call' = [call EXCEPT ![c] = new]
    BY DEF Deadline, Ask, Return
  <2>. QED
    BY <2>1, <2>2, <2>3 DEF ShimStep
<1>. QED
  BY <1>1, <1>2 DEF TypeOK

\* Every step keeps OneCall.
LEMMA OneCallStep == TypeOK /\ OneCall /\ [Next]_vars => OneCall'
<1>. SUFFICES ASSUME TypeOK, OneCall, [Next]_vars, ~Overlap,
                     NEW d \in Calls, NEW e \in Calls, InProgress(d)', InProgress(e)'
              PROVE  d = e
  BY DEF OneCall
<1>1. CASE call' = call
  BY <1>1 DEF OneCall, InProgress
<1>2. ASSUME NEW c \in Calls, StartContainer(c) \/ ShimStep(c) PROVE d = e
  <2>1. \A f \in Calls : f # c /\ InProgress(f)' => InProgress(f)
    BY <1>2, OthersWait DEF InProgress
  <2>2. CASE StartContainer(c)
    BY <2>1, <2>2 DEF StartContainer
  <2>3. CASE InProgress(c)
    BY <2>1, <2>3 DEF OneCall
  <2>. QED
    BY <1>2, <2>2, <2>3, OthersWait
<1>3. ASSUME NEW c \in Calls, AgentStep(c) PROVE call' = call
  BY <1>3 DEF AgentStep, HangUp, PrepareRootfs, RootfsLookup, RootfsNewJob, RootfsWrite, RootfsEOF, Pull, Start
<1>. QED
  BY <1>1, <1>2, <1>3 DEF Next, vars

\* The files on the disk only become more.
LEMMA FilesStay ==
    ASSUME TypeOK, [Next]_vars
    PROVE  made \subseteq made'
<1>1. ASSUME NEW c \in Calls, RootfsWrite(c) PROVE made \subseteq made'
  BY <1>1 DEF RootfsWrite, CutShort
<1>2. ASSUME NEW c \in Calls, Pull(c) PROVE made \subseteq made'
  <2>1. made' = made \/ made' = Pieces \/ \E s \in SUBSET Pieces : made' = made \cup s
    BY <1>2 DEF Pull, PullImage, FetchAndUnpackLayers
  <2>. QED
    BY <2>1 DEF TypeOK
<1>3. ASSUME NEW c \in Calls, ~RootfsWrite(c), ~Pull(c), StartContainer(c) \/ ShimStep(c) \/ AgentStep(c)
      PROVE  made' = made
  BY <1>3 DEF guestVars, StartContainer, ShimStep, TakeAnswer, Deadline, AgentStep, HangUp, PrepareRootfs,
              RootfsLookup, RootfsNewJob, RootfsEOF, Start
<1>. QED
  BY <1>1, <1>2, <1>3 DEF Next, vars

\* A process was started by a start request, and there was a shell.
LEMMA StartedBy ==
    ASSUME [Next]_vars, started # TRUE, started' = TRUE
    PROVE  RootfsPopulated /\ \E c \in Calls : Start(c)
<1>1. ShAt \in made /\ \E c \in Calls : Start(c)
  BY DEF Next, vars, guestVars, StartContainer, ShimStep, TakeAnswer, Deadline, AgentStep, HangUp, PrepareRootfs,
         RootfsLookup, RootfsNewJob, RootfsWrite, RootfsEOF, Pull, Start
<1>. QED
  BY <1>1, PiecesAssumption DEF RootfsPopulated

\* Every step keeps ShellStays.
LEMMA ShellStep == TypeOK /\ ShellStays /\ [Next]_vars => ShellStays'
<1>. SUFFICES ASSUME TypeOK, ShellStays, [Next]_vars, started' = TRUE PROVE Marks \cap made' # {}
  BY DEF ShellStays, RootfsPopulated
<1>1. Marks \cap made # {}
  BY StartedBy DEF ShellStays, RootfsPopulated
<1>. QED
  BY <1>1, FilesStay

\* The agent's answer to a prepare request.
LEMMA PrepareAnswers ==
    ASSUME TypeOK, NEW c \in Calls, Asking(c), PrepareRootfs(c), RootfsPopulated,
           NEW a \in Answers, conn'[c].rep = <<a>>, a.ok = TRUE
    PROVE  a.populated = TRUE
<1>1. UNCHANGED call /\ RootfsPopulated = TRUE
  BY DEF PrepareRootfs, RootfsPopulated
<1>2. CASE Answer(c, FALSE, FALSE)
  <2>. DEFINE b == [of |-> call[c].pc, ok |-> FALSE, populated |-> FALSE]
  <2>1. b \in Answers /\ conn'[c].rep = <<b>>
    BY <1>1, <1>2, AnswerShape
  <2>2. b.ok = FALSE
    OBVIOUS
  <2>. HIDE DEF b
  <2>3. a = b
    BY <2>1, OneAnswer
  <2>. QED
    BY <2>2, <2>3
<1>3. CASE Answer(c, TRUE, TRUE)
  <2>. DEFINE b == [of |-> call[c].pc, ok |-> TRUE, populated |-> TRUE]
  <2>1. b \in Answers /\ conn'[c].rep = <<b>>
    BY <1>1, <1>3, AnswerShape
  <2>2. b.populated = TRUE
    OBVIOUS
  <2>. HIDE DEF b
  <2>3. a = b
    BY <2>1, OneAnswer
  <2>. QED
    BY <2>2, <2>3
<1>. QED
  BY <1>1, <1>2, <1>3 DEF PrepareRootfs

\* Every step keeps RestartInv.
LEMMA RestartStep ==
    TypeOK /\ Protocol /\ OneCall /\ ShellStays /\ RestartInv /\ [Next]_vars => RestartInv'
<1>. SUFFICES ASSUME TypeOK, Protocol, OneCall, ShellStays, RestartInv, [Next]_vars,
                     ~Overlap, NothingLate', started' = TRUE, NEW d \in Calls
              PROVE  /\ call'[d].pc \notin {"copy", "eof", "pull"}
                     /\ \A a \in Answers : call'[d].pc = "prepare" /\ conn'[d].rep = <<a>> /\ a.ok = TRUE
                                              => a.populated = TRUE
  BY DEF RestartInv
<1>1. NothingLate /\ \A c \in Calls : Shape(c)
  BY FaultsOnlySpent DEF Protocol
<1>2. CASE started # TRUE
  <2>1. PICK c \in Calls : Start(c)
    BY <1>2, StartedBy
  <2>2. Asking(c) /\ call[c].pc = "start" /\ UNCHANGED call /\ AgentStep(c)
    BY <1>1, <2>1, AgentServes DEF AgentStep
  <2>3. InProgress(c)
    BY <2>2 DEF Asking
  <2>4. d = c \/ ~InProgress(d)
    BY <2>3 DEF OneCall
  <2>5. call[d].pc \notin {"copy", "eof", "pull", "prepare"}
    BY <2>2, <2>4 DEF InProgress
  <2>. QED
    BY <2>2, <2>5
<1>3. CASE started = TRUE
  <2>1. RootfsPopulated
    BY <1>3 DEF ShellStays
  <2>2. \A c \in Calls :
          /\ call[c].pc \notin {"copy", "eof", "pull"}
          /\ \A a \in Answers : call[c].pc = "prepare" /\ conn[c].rep = <<a>> /\ a.ok = TRUE => a.populated = TRUE
    BY <1>1, <1>3 DEF RestartInv
  <2>3. CASE call'[d] = call[d] /\ conn'[d] = conn[d]
    BY <2>2, <2>3
  <2>4. \A a \in Answers : <<a>> # <<>>
    BY ShortSeqs
  <2>5. ASSUME NEW c \in Calls, AgentStep(c), ~(call'[d] = call[d] /\ conn'[d] = conn[d])
        PROVE  /\ call'[d].pc \notin {"copy", "eof", "pull"}
               /\ \A a \in Answers : call'[d].pc = "prepare" /\ conn'[d].rep = <<a>> /\ a.ok = TRUE
                                        => a.populated = TRUE
    <3>1. d = c /\ Asking(c) /\ ~HangUp(c) /\ UNCHANGED call
      BY <1>1, <2>5, AgentShape, AgentServes
    <3>2. CASE PrepareRootfs(c)
      BY <2>1, <2>2, <3>1, <3>2, PrepareAnswers
    <3>3. CASE ~PrepareRootfs(c)
      <4>1. call[c].pc # "prepare"
        <5>1. RootfsLookup(c) \/ RootfsNewJob(c) \/ RootfsWrite(c) \/ RootfsEOF(c) \/ Pull(c) \/ Start(c)
          BY <2>5, <3>1, <3>3 DEF AgentStep
        <5>2. RootfsNewJob(c) => call[c].pc \in {"copy", "eof"}
          BY <3>1 DEF RootfsNewJob, Asking
        <5>. QED
          BY <1>1, <2>5, <5>1, <5>2, AgentServes
      <4>. QED
        BY <2>2, <3>1, <4>1
    <3>. QED
      BY <3>2, <3>3
  <2>6. ASSUME NEW c \in Calls, StartContainer(c) \/ ShimStep(c), ~(call'[d] = call[d] /\ conn'[d] = conn[d])
        PROVE  /\ call'[d].pc \notin {"copy", "eof", "pull"}
               /\ \A a \in Answers : call'[d].pc = "prepare" /\ conn'[d].rep = <<a>> /\ a.ok = TRUE
                                        => a.populated = TRUE
    <3>1. CASE StartContainer(c)
      BY <1>1, <2>4, <2>6, <3>1, StartShape
    <3>2. ~Deadline(c)
      BY <1>1, <2>2, DeadlineShape
    <3>3. CASE TakeAnswer(c)
      <4>1. PICK b \in Answers :
               /\ conn[c].rep = <<b>>
               /\ \A e \in Calls : e # c => call'[e] = call[e] /\ conn'[e] = conn[e]
               /\ \/ call'[c].pc \in {"failed", "running", "start"}
                  \/ call[c].pc = "prepare" /\ b.ok /\ ~b.populated
                  \/ call[c].pc \in {"copy", "eof", "pull"}
        BY <1>1, <3>3, TakenShape
      <4>2. d = c
        BY <2>6, <4>1
      <4>3. b.ok \in BOOLEAN /\ b.populated \in BOOLEAN
        BY AnswerFields
      <4>4. call'[c].pc \in {"failed", "running", "start"}
        BY <2>2, <4>1, <4>3
      <4>. QED
        BY <4>2, <4>4
    <3>. QED
      BY <2>6, <3>1, <3>2, <3>3 DEF ShimStep
  <2>. QED
    BY <2>3, <2>5, <2>6 DEF Next, vars
<1>. QED
  BY <1>2, <1>3

\* Calls that follow one another leave the tree of a started container alone:
\* none of them is filling it, and none does again.
THEOREM RestartLeavesTreeHolds == ~Overlap => (Spec => []RestartLeavesTree)
<1>. SUFFICES ASSUME ~Overlap PROVE Spec => []RestartLeavesTree
  OBVIOUS
<1>1. Init => OneCall /\ ShellStays /\ RestartInv
  BY DEF Init, OneCall, ShellStays, RestartInv, InProgress
<1>2. TypeOK /\ Protocol /\ OneCall /\ ShellStays /\ RestartInv /\ [Next]_vars => OneCall' /\ ShellStays' /\ RestartInv'
  BY OneCallStep, ShellStep, RestartStep
<1>3. TypeOK /\ RestartInv => RestartLeavesTree
  BY DEF TypeOK, RestartInv, RestartLeavesTree
<1>. QED
  BY <1>1, <1>2, <1>3, ProtocolHolds, PTL DEF Spec
-----------------------------------------------------------------------------
(* An acknowledged host copy has put the whole image on the disk.          *)

\* No answer came late, and the host could read its trees to the end.
Quiet == NothingLate /\ budget.host = MaxHostFaults

JobFailed == unpacker # 0 /\ jobs[unpacker].state = "failed"

\* Job u of js has unpacked the pieces before k into t.
Reached(u, js, t, k) ==
    /\ u # 0 /\ js[u].next = k /\ (\A i \in Pieces : i < k => i \in t)
    /\ js[u].state = IF k = NPieces + 1 THEN "done" ELSE "open"

JobAt(k) == Reached(unpacker, jobs, tree, k)

Sound == torn = FALSE /\ (unpacker # 0 => jobs[unpacker].taken = FALSE)

\* Between two copies the map holds at most a job that has failed.
LeftOver == unpacker = 0 \/ JobFailed

\* How far the stream of call c is, on both sides of the connection.
Stream(c) ==
    /\ serving[c].pc = "write" => serving[c].job = unpacker
    /\ serving[c].pc = "new" => unpacker = 0
    /\ call[c].pc = "copy" => call[c].piece \in Pieces
    /\ call[c].pc = "copy" /\ conn[c].req # <<>> =>
          (unpacker = 0 /\ call[c].piece = 1) \/ JobFailed \/ JobAt(call[c].piece)
    /\ call[c].pc = "eof" /\ conn[c].req # <<>> => JobFailed \/ JobAt(NPieces + 1)
    /\ \A a \in Answers : call[c].pc = "copy" /\ conn[c].rep = <<a>> =>
          JobFailed \/ (a.ok = TRUE /\ JobAt(call[c].piece + 1))
    /\ \A a \in Answers : call[c].pc = "eof" /\ conn[c].rep = <<a>> =>
          unpacker = 0 /\ (a.ok = TRUE => tree = Pieces)

StreamInv ==
    ~Overlap /\ Quiet =>
        /\ Sound
        /\ (\A c \in Calls : call[c].pc \notin {"copy", "eof"}) => LeftOver
        /\ \A c \in Calls : Stream(c)

\* While one call works, every other one is at rest.
LEMMA OthersRest ==
    ASSUME TypeOK, OneCall, StreamInv, ~Overlap, Quiet, \A d \in Calls : Shape(d),
           NEW c \in Calls, InProgress(c) \/ StartContainer(c), NEW d \in Calls, d # c
    PROVE  AtRest(d)
<1>1. ~InProgress(d)
  BY DEF OneCall, StartContainer
<1>2. ~GivenUp(d)
  <2>. SUFFICES ASSUME GivenUp(d) PROVE FALSE
    OBVIOUS
  <2>1. serving[d].pc = "write" /\ jobs[serving[d].job].taken = TRUE
    BY DEF GivenUp
  <2>2. serving[d].job = unpacker /\ Sound
    BY <2>1 DEF StreamInv, Stream
  <2>3. unpacker # 0
    BY <2>1, <2>2 DEF TypeOK
  <2>. QED
    BY <2>1, <2>2, <2>3 DEF Sound
<1>. QED
  BY <1>1, <1>2 DEF Shape, Asking, Answered

\* So what the one call keeps is kept.
LEMMA StreamOfOne ==
    ASSUME NEW c \in Calls,
           \A d \in Calls : d # c => AtRest(d) /\ call'[d] = call[d] /\ serving'[d] = serving[d],
           Sound', Stream(c)', call'[c].pc \notin {"copy", "eof"} => LeftOver'
    PROVE  /\ Sound'
           /\ (\A d \in Calls : call'[d].pc \notin {"copy", "eof"}) => LeftOver'
           /\ \A d \in Calls : Stream(d)'
<1>1. ASSUME NEW d \in Calls, d # c PROVE Stream(d)'
  <2>1. AtRest(d) /\ call'[d] = call[d] /\ serving'[d] = serving[d]
    BY <1>1
  <2>2. serving'[d].pc = "read" /\ call'[d].pc \notin {"copy", "eof"}
    BY <2>1 DEF AtRest, InProgress
  <2>. QED
    BY <2>2 DEF Stream
<1>. QED
  BY <1>1

\* The number of the next piece.
LEMMA PieceNumbers ==
    ASSUME NEW k \in Pieces
    PROVE  /\ k # NPieces + 1 /\ (k = NPieces <=> k + 1 = NPieces + 1) /\ k \in Nat /\ NPieces \in Nat
           /\ \A i \in Pieces : (i < k + 1 => i < k \/ i = k) /\ i < NPieces + 1 /\ ~(i < 1)
<1>1. NPieces \in Nat /\ k \in 1..NPieces
  BY PiecesAssumption DEF Pieces
<1>2. \A i \in Pieces : i \in Nat /\ i >= 1 /\ i <= NPieces
  BY <1>1 DEF Pieces
<1>. QED
  BY <1>1, <1>2

\* A call that begins finds no copy under way.
LEMMA StartStream ==
    ASSUME TypeOK, NEW c \in Calls, StartContainer(c), Shape(c), Sound, Stream(c), LeftOver
    PROVE  Sound' /\ Stream(c)' /\ LeftOver'
<1>1. /\ AtRest(c) /\ call'[c].pc = "prepare"
      /\ UNCHANGED <<serving, guestVars, budget>>
  BY StartShape
<1>2. Sound' /\ LeftOver'
  BY <1>1 DEF Sound, LeftOver, JobFailed, guestVars
<1>3. Stream(c)'
  BY <1>1 DEF Stream, guestVars
<1>. QED
  BY <1>2, <1>3

\* The shim goes on after an answer.
LEMMA TakenStream ==
    ASSUME TypeOK, NEW c \in Calls, TakeAnswer(c), Shape(c), Sound, Stream(c), ~Spend("host"),
           call[c].pc \notin {"copy", "eof"} => LeftOver
    PROVE  Sound' /\ Stream(c)' /\ (call'[c].pc \notin {"copy", "eof"} => LeftOver')
<1>1. PICK a \in Answers :
         /\ Answered(c) /\ conn[c].rep = <<a>>
         /\ UNCHANGED <<serving, guestVars>>
         /\ \/ call'[c].pc \in {"failed", "running", "start"} /\ call[c].pc # "copy"
            \/ /\ conn'[c].rep = <<>>
               /\ \/ call'[c].pc = "copy" /\ call'[c].piece = 1 /\ call[c].pc = "prepare"
                  \/ /\ call'[c].pc = "copy" /\ call'[c].piece = call[c].piece + 1
                     /\ call[c].pc = "copy" /\ call[c].piece < NPieces
                  \/ call'[c].pc = "eof" /\ call[c].pc = "copy" /\ call[c].piece = NPieces
                  \/ call'[c].pc = "pull" /\ call[c].pc \in {"copy", "eof"} /\ ~a.ok
  BY TakenShape
<1>2. Sound' /\ (LeftOver' <=> LeftOver) /\ (JobFailed' <=> JobFailed) /\ unpacker' = unpacker /\ serving' = serving
  BY <1>1 DEF Sound, LeftOver, JobFailed, guestVars
<1>3. serving'[c].pc = "read"
  BY <1>1, <1>2 DEF Answered
<1>4. \A b \in Answers : <<b>> # <<>>
  BY ShortSeqs
<1>5. a.ok \in BOOLEAN
  BY AnswerFields
<1>6. call[c].pc = "eof" => unpacker = 0
  BY <1>1 DEF Stream
<1>7. call[c].pc = "copy" => JobFailed \/ (a.ok = TRUE /\ JobAt(call[c].piece + 1))
  BY <1>1 DEF Stream
<1>8. CASE call'[c].pc \in {"failed", "running", "start"} /\ call[c].pc # "copy"
  <2>1. LeftOver
    BY <1>6, <1>8 DEF LeftOver
  <2>2. Stream(c)'
    BY <1>3, <1>8 DEF Stream
  <2>. QED
    BY <1>2, <2>1, <2>2
<1>9. CASE conn'[c].rep = <<>> /\ call'[c].pc = "copy" /\ call'[c].piece = 1 /\ call[c].pc = "prepare"
  <2>1. LeftOver
    BY <1>9
  <2>2. 1 \in Pieces
    BY NextPiece
  <2>3. Stream(c)'
    BY <1>2, <1>3, <1>4, <1>9, <2>1, <2>2 DEF Stream, LeftOver
  <2>. QED
    BY <1>2, <1>9, <2>3
<1>10. CASE /\ conn'[c].rep = <<>> /\ call'[c].pc = "copy" /\ call'[c].piece = call[c].piece + 1
            /\ call[c].pc = "copy" /\ call[c].piece < NPieces
  <2>1. JobFailed \/ JobAt(call[c].piece + 1)
    BY <1>7, <1>10
  <2>2. call[c].piece + 1 \in Pieces
    BY <1>10, NextPiece
  <2>3. Stream(c)'
    <3>1. UNCHANGED <<unpacker, jobs, tree>>
      BY <1>1 DEF guestVars
    <3>2. JobFailed \/ Reached(unpacker', jobs', tree', call'[c].piece)
      BY <1>10, <2>1, <3>1 DEF JobAt
    <3>. QED
      BY <1>2, <1>3, <1>4, <1>10, <2>2, <3>2 DEF Stream, JobAt
  <2>. QED
    BY <1>2, <1>10, <2>3
<1>11. CASE conn'[c].rep = <<>> /\ call'[c].pc = "eof" /\ call[c].pc = "copy" /\ call[c].piece = NPieces
  <2>1. JobFailed \/ JobAt(NPieces + 1)
    BY <1>7, <1>11
  <2>2. UNCHANGED <<unpacker, jobs, tree>>
    BY <1>1 DEF guestVars
  <2>3. JobFailed \/ Reached(unpacker', jobs', tree', NPieces + 1)
    BY <2>1, <2>2 DEF JobAt
  <2>4. Stream(c)'
    BY <1>2, <1>3, <1>4, <1>11, <2>3 DEF Stream, JobAt
  <2>. QED
    BY <1>2, <1>11, <2>4
<1>12. CASE conn'[c].rep = <<>> /\ call'[c].pc = "pull" /\ call[c].pc \in {"copy", "eof"} /\ ~a.ok
  <2>1. LeftOver
    BY <1>5, <1>6, <1>7, <1>12 DEF LeftOver
  <2>2. Stream(c)'
    BY <1>3, <1>12 DEF Stream
  <2>. QED
    BY <1>2, <2>1, <2>2
<1>. QED
  BY <1>1, <1>8, <1>9, <1>10, <1>11, <1>12

\* The agent looks up the job.
LEMMA LookupStream ==
    ASSUME TypeOK, NEW c \in Calls, RootfsLookup(c), Sound, Stream(c), call[c].pc \in {"copy", "eof"}
    PROVE  Sound' /\ Stream(c)' /\ call'[c].pc \in {"copy", "eof"}
<1>. DEFINE new == [pc |-> IF unpacker = 0 THEN "new" ELSE "write", job |-> unpacker]
<1>1. serving' = [serving EXCEPT ![c] = new] /\ UNCHANGED <<call, conn, guestVars>>
  BY DEF RootfsLookup
<1>2. (new.pc = "write" => new.job = unpacker) /\ (new.pc = "new" => unpacker = 0)
  OBVIOUS
<1>. HIDE DEF new
<1>3. serving'[c] = new
  BY <1>1 DEF TypeOK
<1>4. Sound'
  BY <1>1 DEF Sound, guestVars
<1>5. UNCHANGED <<call, conn, unpacker, jobs, tree>>
  BY <1>1 DEF guestVars
<1>6. Stream(c)'
  BY <1>2, <1>3, <1>5 DEF Stream, JobFailed, JobAt
<1>. QED
  BY <1>1, <1>4, <1>6

\* A job is only begun with the first piece.
LEMMA NewJobStream ==
    ASSUME TypeOK, NEW c \in Calls, RootfsNewJob(c), Asking(c), Sound, Stream(c)
    PROVE  Sound' /\ Stream(c)' /\ call'[c].pc \in {"copy", "eof"}
<1>1. PICK j \in Jobs :
         /\ jobs' = [jobs EXCEPT ![j] = NewJob] /\ unpacker' = j
         /\ serving' = [serving EXCEPT ![c] = [pc |-> "write", job |-> j]]
  BY NewJobCase
<1>2. serving[c].pc = "new" /\ UNCHANGED <<call, conn, tree, made, torn>>
  BY DEF RootfsNewJob
<1>3. unpacker = 0 /\ ~JobFailed /\ ~JobAt(call[c].piece) /\ ~JobAt(NPieces + 1)
  BY <1>2 DEF Stream, JobFailed, JobAt, Reached
<1>4. conn[c].req # <<>> /\ conn[c].rep = <<>>
  BY AskingHead
<1>5. call[c].pc = "copy" /\ call[c].piece = 1
  BY <1>2, <1>3, <1>4 DEF Stream, Asking
<1>6. jobs'[j] = NewJob /\ serving'[c].pc = "write" /\ serving'[c].job = j
  BY <1>1 DEF TypeOK
<1>7. NewJob.taken = FALSE /\ NewJob.next = 1 /\ NewJob.state = "open"
  BY DEF NewJob
<1>8. j # 0
  BY CallsAssumption DEF Jobs
<1>9. (\A i \in Pieces : ~(i < 1)) /\ 1 # NPieces + 1
  BY <1>5, PieceNumbers DEF Stream
<1>10. Reached(unpacker', jobs', tree', call'[c].piece)
  BY <1>1, <1>2, <1>5, <1>6, <1>7, <1>8, <1>9 DEF Reached
<1>11. Sound'
  BY <1>1, <1>2, <1>6, <1>7 DEF Sound
<1>12. call[c].piece \in Pieces
  BY <1>5 DEF Stream
<1>13. \A a \in Answers : <<a>> # <<>>
  BY ShortSeqs
<1>14. Stream(c)'
  BY <1>1, <1>2, <1>4, <1>5, <1>6, <1>10, <1>12, <1>13 DEF Stream, JobAt
<1>. QED
  BY <1>2, <1>5, <1>11, <1>14

\* Answers that are no part of a copy, from an agent that leaves the jobs.
LEMMA OtherStream ==
    ASSUME TypeOK, NEW c \in Calls, Asking(c), NEW ok \in BOOLEAN, NEW populated \in BOOLEAN,
           Answer(c, ok, populated), UNCHANGED <<call, jobs, unpacker>>, torn' = torn \/ torn' = FALSE,
           Sound, LeftOver, call[c].pc \notin {"copy", "eof"}
    PROVE  Sound' /\ Stream(c)' /\ LeftOver'
<1>1. serving'[c].pc = "read"
  BY AnswerShape
<1>. QED
  BY <1>1 DEF Sound, Stream, LeftOver, JobFailed

\* What the agent's goroutine makes of a piece that the stream expects, and of
\* one that comes after an error.
LEMMA WriteExpected ==
    ASSUME TypeOK, NEW c \in Calls, RootfsWrite(c), Asking(c), Sound, Stream(c)
    PROVE  /\ serving[c].job = unpacker /\ unpacker \in Jobs /\ jobs[unpacker] \in Unpackers
           /\ call[c].pc = "copy" /\ call[c].piece \in Pieces
           /\ UNCHANGED <<call, unpacker, torn>>
           /\ \/ /\ JobFailed /\ Answer(c, FALSE, FALSE) /\ UNCHANGED <<jobs, tree>>
              \/ /\ JobAt(call[c].piece) /\ Answer(c, TRUE, FALSE)
                 /\ jobs' = [jobs EXCEPT ![unpacker] = Taken(jobs[unpacker], call[c].piece)]
                 /\ tree' = tree \cup {call[c].piece}
              \/ /\ \E ok \in BOOLEAN : Answer(c, ok, FALSE)
                 /\ jobs' = [jobs EXCEPT ![unpacker] = Broken(jobs[unpacker])]
<1>1. serving[c].pc = "write" /\ Asked(c, "copy")
  BY DEF RootfsWrite
<1>2. serving[c].job = unpacker /\ unpacker # 0
  BY <1>1 DEF Stream, TypeOK
<1>3. unpacker \in Jobs /\ jobs[unpacker] \in Unpackers
  BY <1>1, <1>2, WriterTyped
<1>4. call[c].pc = "copy" /\ Head(conn[c].req).piece = call[c].piece /\ conn[c].req # <<>>
  BY <1>1, AskingHead DEF Asked
<1>5. call[c].piece \in Pieces /\ (JobFailed \/ JobAt(call[c].piece))
  BY <1>2, <1>4 DEF Stream
<1>6. JobAt(call[c].piece) => jobs[unpacker].state = "open" /\ jobs[unpacker].next = call[c].piece
  BY <1>5, PieceNumbers DEF JobAt, Reached
<1>7. JobFailed => jobs[unpacker].state # "open"
  BY DEF JobFailed
<1>8. UNCHANGED <<call, unpacker>>
  BY DEF RootfsWrite
<1>9. CASE JobFailed
  BY <1>2, <1>3, <1>4, <1>5, <1>7, <1>8, <1>9 DEF RootfsWrite
<1>10. CASE JobAt(call[c].piece)
  BY <1>2, <1>3, <1>4, <1>5, <1>6, <1>8, <1>10 DEF RootfsWrite
<1>. QED
  BY <1>5, <1>9, <1>10

\* A piece is unpacked, or the job has failed.
LEMMA WriteStream ==
    ASSUME TypeOK, NEW c \in Calls, RootfsWrite(c), Asking(c), Sound, Stream(c)
    PROVE  Sound' /\ Stream(c)' /\ call'[c].pc \in {"copy", "eof"}
<1>. DEFINE u == unpacker
            k == call[c].piece
<1>1. /\ u \in Jobs /\ jobs[u] \in Unpackers /\ call[c].pc = "copy" /\ k \in Pieces
      /\ UNCHANGED <<call, unpacker, torn>>
  BY WriteExpected
<1>2. u # 0
  BY <1>1, CallsAssumption DEF Jobs
<1>3. jobs[u].taken = FALSE /\ torn = FALSE
  BY <1>2 DEF Sound
<1>4. /\ Taken(jobs[u], k).next = k + 1 /\ Taken(jobs[u], k).taken = jobs[u].taken
      /\ Taken(jobs[u], k).state = IF k = NPieces THEN "done" ELSE "open"
      /\ Broken(jobs[u]).state = "failed" /\ Broken(jobs[u]).taken = jobs[u].taken
  BY <1>1, UnpackTyped
<1>5. ASSUME NEW ok \in BOOLEAN, Answer(c, ok, FALSE), jobs'[u].taken = FALSE,
             JobFailed' \/ (ok = TRUE /\ Reached(unpacker', jobs', tree', k + 1))
      PROVE  Sound' /\ Stream(c)' /\ call'[c].pc \in {"copy", "eof"}
  <2>. DEFINE b == [of |-> call[c].pc, ok |-> ok, populated |-> FALSE]
  <2>1. b \in Answers /\ conn'[c].rep = <<b>> /\ conn'[c].req = <<>> /\ serving'[c].pc = "read"
    BY <1>1, <1>5, AnswerShape
  <2>2. b.ok = ok
    OBVIOUS
  <2>. HIDE DEF b
  <2>3. \A a \in Answers : conn'[c].rep = <<a>> => a = b
    BY <2>1, OneAnswer
  <2>4. Sound'
    BY <1>1, <1>3, <1>5 DEF Sound
  <2>5. \A a \in Answers : conn'[c].rep = <<a>> =>
           JobFailed' \/ (a.ok = TRUE /\ Reached(unpacker', jobs', tree', call'[c].piece + 1))
    BY <1>1, <1>5, <2>2, <2>3
  <2>6. Stream(c)'
    BY <1>1, <2>1, <2>5 DEF Stream, JobAt
  <2>. QED
    BY <1>1, <2>4, <2>6
<1>6. CASE JobFailed /\ Answer(c, FALSE, FALSE) /\ UNCHANGED <<jobs, tree>>
  <2>1. JobFailed' /\ jobs'[u].taken = FALSE
    BY <1>1, <1>3, <1>6 DEF JobFailed
  <2>. QED
    BY <1>5, <1>6, <2>1
<1>7. CASE /\ JobAt(k) /\ Answer(c, TRUE, FALSE)
           /\ jobs' = [jobs EXCEPT ![u] = Taken(jobs[u], k)] /\ tree' = tree \cup {k}
  <2>1. jobs'[u] = Taken(jobs[u], k)
    BY <1>1, <1>7 DEF TypeOK
  <2>2. \A i \in Pieces : i < k => i \in tree
    BY <1>7 DEF JobAt, Reached
  <2>3. \A i \in Pieces : i < k + 1 => i \in tree'
    BY <1>1, <1>7, <2>2, PieceNumbers
  <2>4. jobs'[u].state = IF k + 1 = NPieces + 1 THEN "done" ELSE "open"
    BY <1>1, <1>4, <2>1, PieceNumbers
  <2>5. jobs'[u].next = k + 1 /\ jobs'[u].taken = FALSE
    BY <1>3, <1>4, <2>1
  <2>6. Reached(u, jobs', tree', k + 1)
    BY <1>2, <2>3, <2>4, <2>5 DEF Reached
  <2>7. Reached(unpacker', jobs', tree', k + 1)
    BY <1>1, <2>6
  <2>. QED
    BY <1>5, <1>7, <2>5, <2>7
<1>8. CASE /\ \E ok \in BOOLEAN : Answer(c, ok, FALSE)
           /\ jobs' = [jobs EXCEPT ![u] = Broken(jobs[u])]
  <2>1. jobs'[u] = Broken(jobs[u])
    BY <1>1, <1>8 DEF TypeOK
  <2>2. jobs'[u].taken = FALSE /\ JobFailed'
    BY <1>1, <1>2, <1>3, <1>4, <2>1 DEF JobFailed
  <2>. QED
    BY <1>5, <1>8, <2>2
<1>. QED
  BY <1>6, <1>7, <1>8, WriteExpected

\* The end of a stream is acknowledged only when every piece was unpacked.
LEMMA EOFStream ==
    ASSUME TypeOK, NEW c \in Calls, RootfsEOF(c), Asking(c), Sound, Stream(c), call[c].pc = "eof"
    PROVE  Sound' /\ Stream(c)' /\ call'[c].pc \in {"copy", "eof"}
<1>1. serving[c].pc = "write" /\ UNCHANGED <<call, tree, made, torn>> /\ unpacker' = 0
  BY DEF RootfsEOF
<1>2. serving[c].job = unpacker /\ unpacker # 0
  BY <1>1 DEF Stream, TypeOK
<1>3. conn[c].req # <<>>
  BY AskingHead
<1>4. JobFailed \/ JobAt(NPieces + 1)
  BY <1>3 DEF Stream
<1>5. JobAt(NPieces + 1) => tree = Pieces
  <2>1. JobAt(NPieces + 1) => \A i \in Pieces : i < NPieces + 1 => i \in tree
    BY DEF JobAt, Reached
  <2>2. tree \subseteq Pieces
    BY DEF TypeOK
  <2>. QED
    BY <2>1, <2>2, PieceNumbers
<1>6. ASSUME NEW ok \in BOOLEAN, Answer(c, ok, FALSE), ok = TRUE => tree = Pieces
      PROVE  Sound' /\ Stream(c)' /\ call'[c].pc \in {"copy", "eof"}
  <2>. DEFINE b == [of |-> call[c].pc, ok |-> ok, populated |-> FALSE]
  <2>1. b \in Answers /\ conn'[c].rep = <<b>> /\ conn'[c].req = <<>> /\ serving'[c].pc = "read"
    BY <1>1, <1>6, AnswerShape
  <2>2. b.ok = ok
    OBVIOUS
  <2>. HIDE DEF b
  <2>3. \A a \in Answers : conn'[c].rep = <<a>> => a = b
    BY <2>1, OneAnswer
  <2>4. Sound'
    BY <1>1 DEF Sound
  <2>5. \A a \in Answers : conn'[c].rep = <<a>> => unpacker' = 0 /\ (a.ok = TRUE => tree' = Pieces)
    BY <1>1, <1>6, <2>2, <2>3
  <2>6. Stream(c)'
    BY <1>1, <2>1, <2>5 DEF Stream
  <2>. QED
    BY <1>1, <2>4, <2>6
<1>7. CASE JobFailed
  <2>1. Answer(c, FALSE, FALSE)
    BY <1>2, <1>7 DEF RootfsEOF, JobFailed
  <2>. QED
    BY <1>6, <2>1
<1>8. CASE JobAt(NPieces + 1)
  <2>1. Answer(c, TRUE, FALSE) \/ Answer(c, FALSE, FALSE)
    BY DEF RootfsEOF
  <2>. QED
    BY <1>5, <1>6, <1>8, <2>1
<1>. QED
  BY <1>4, <1>7, <1>8

\* The agent's steps, together.
LEMMA AgentStream ==
    ASSUME TypeOK, NEW c \in Calls, AgentStep(c), Shape(c), Sound, Stream(c),
           call[c].pc \notin {"copy", "eof"} => LeftOver
    PROVE  Sound' /\ Stream(c)' /\ (call'[c].pc \notin {"copy", "eof"} => LeftOver')
<1>1. Asking(c) /\ ~HangUp(c) /\ UNCHANGED call
  BY AgentServes
<1>2. CASE RootfsLookup(c)
  BY <1>2, AgentServes, LookupStream
<1>3. CASE RootfsNewJob(c)
  BY <1>1, <1>3, NewJobStream
<1>4. CASE RootfsWrite(c)
  BY <1>1, <1>4, WriteStream
<1>5. CASE RootfsEOF(c)
  BY <1>1, <1>5, AgentServes, EOFStream
<1>6. CASE PrepareRootfs(c) \/ Pull(c) \/ Start(c)
  <2>1. call[c].pc \notin {"copy", "eof"}
    BY <1>6, AgentServes
  <2>2. RootfsPopulated \in BOOLEAN
    BY DEF RootfsPopulated
  <2>3. UNCHANGED <<call, jobs, unpacker>> /\ (torn' = torn \/ torn' = FALSE)
    BY <1>6 DEF PrepareRootfs, Pull, PullImage, FetchAndUnpackLayers, Start, guestVars
  <2>4. \E ok, populated \in BOOLEAN : Answer(c, ok, populated)
    BY <1>6, <2>2 DEF PrepareRootfs, Pull, PullImage, Start
  <2>. QED
    BY <1>1, <2>1, <2>3, <2>4, OtherStream
<1>. QED
  BY <1>1, <1>2, <1>3, <1>4, <1>5, <1>6 DEF AgentStep

\* Every step keeps StreamInv.
LEMMA StreamStep == TypeOK /\ Protocol /\ OneCall /\ StreamInv /\ [Next]_vars => StreamInv'
<1>. SUFFICES ASSUME TypeOK, Protocol, OneCall, StreamInv, [Next]_vars, ~Overlap, Quiet'
              PROVE  /\ Sound'
                     /\ (\A d \in Calls : call'[d].pc \notin {"copy", "eof"}) => LeftOver'
                     /\ \A d \in Calls : Stream(d)'
  BY DEF StreamInv
<1>1. Quiet /\ \A d \in Calls : Shape(d)
  BY FaultsOnlySpent DEF Quiet, Protocol
<1>2. /\ Sound
      /\ (\A d \in Calls : call[d].pc \notin {"copy", "eof"}) => LeftOver
      /\ \A d \in Calls : Stream(d)
  BY <1>1 DEF StreamInv
<1>3. CASE UNCHANGED vars
  BY <1>2, <1>3 DEF vars, Sound, LeftOver, Stream, JobFailed, JobAt
<1>4. ASSUME NEW c \in Calls, InProgress(c) \/ StartContainer(c)
      PROVE  /\ \A d \in Calls : d # c => AtRest(d)
             /\ call[c].pc \notin {"copy", "eof"} => LeftOver
  <2>1. \A d \in Calls : d # c => AtRest(d)
    BY <1>1, <1>4, OthersRest
  <2>2. \A d \in Calls : AtRest(d) => call[d].pc \notin {"copy", "eof"}
    BY DEF AtRest, InProgress
  <2>. QED
    BY <1>2, <2>1, <2>2
<1>5. ASSUME NEW c \in Calls, AgentStep(c)
      PROVE  /\ Sound'
             /\ (\A d \in Calls : call'[d].pc \notin {"copy", "eof"}) => LeftOver'
             /\ \A d \in Calls : Stream(d)'
  <2>1. InProgress(c)
    BY <1>1, <1>5, AgentServes DEF Asking
  <2>2. \A d \in Calls : d # c => AtRest(d) /\ call'[d] = call[d] /\ serving'[d] = serving[d]
    BY <1>1, <1>4, <1>5, <2>1, AgentShape
  <2>3. Sound' /\ Stream(c)' /\ (call'[c].pc \notin {"copy", "eof"} => LeftOver')
    BY <1>1, <1>2, <1>4, <1>5, <2>1, AgentStream
  <2>. QED
    BY <2>2, <2>3, StreamOfOne
<1>6. ASSUME NEW c \in Calls, StartContainer(c) \/ ShimStep(c)
      PROVE  /\ Sound'
             /\ (\A d \in Calls : call'[d].pc \notin {"copy", "eof"}) => LeftOver'
             /\ \A d \in Calls : Stream(d)'
  <2>1. InProgress(c) \/ StartContainer(c)
    BY <1>6, OthersWait
  <2>2. UNCHANGED serving
    BY <1>6 DEF StartContainer, ShimStep, TakeAnswer, Deadline
  <2>3. \A d \in Calls : d # c => AtRest(d) /\ call'[d] = call[d] /\ serving'[d] = serving[d]
    BY <1>4, <1>6, <2>1, <2>2, OthersWait
  <2>4. CASE StartContainer(c)
    <3>1. AtRest(c)
      BY <1>1, <2>4, StartShape
    <3>2. call[c].pc \notin {"copy", "eof"}
      BY <3>1 DEF AtRest, InProgress
    <3>3. Sound' /\ Stream(c)' /\ LeftOver'
      BY <1>1, <1>2, <1>4, <2>4, <3>2, StartStream
    <3>. QED
      BY <2>3, <3>3, StreamOfOne
  <2>5. CASE TakeAnswer(c)
    <3>1. ~Spend("host")
      BY BudgetTyped DEF Quiet
    <3>2. Sound' /\ Stream(c)' /\ (call'[c].pc \notin {"copy", "eof"} => LeftOver')
      BY <1>1, <1>2, <1>4, <2>1, <2>5, <3>1, TakenStream
    <3>. QED
      BY <2>3, <3>2, StreamOfOne
  <2>6. ~Deadline(c)
    <3>. SUFFICES ASSUME Deadline(c) PROVE FALSE
      OBVIOUS
    <3>1. Stuck(c)
      BY DeadlineStuck DEF Quiet
    <3>2. serving[c].pc = "write" /\ jobs[serving[c].job].taken
      BY <3>1 DEF Stuck
    <3>3. serving[c].job = unpacker
      BY <1>2, <3>2 DEF Stream
    <3>4. unpacker # 0
      BY <3>2, <3>3 DEF TypeOK
    <3>. QED
      BY <1>2, <3>2, <3>3, <3>4 DEF Sound
  <2>. QED
    BY <1>6, <2>4, <2>5, <2>6 DEF ShimStep
<1>. QED
  BY <1>3, <1>5, <1>6 DEF Next

\* Calls that follow one another: a host copy that the agent acknowledged to
\* the end has put the whole image on the disk, whatever the guest's disk did
\* to the copies before it.
THEOREM CopyOkMeansWholeHolds == ~Overlap => (Spec => CopyOkMeansWhole)
<1>. SUFFICES ASSUME ~Overlap PROVE Spec => CopyOkMeansWhole
  OBVIOUS
<1>1. Init => OneCall /\ StreamInv
  <2>. SUFFICES ASSUME Init PROVE OneCall /\ StreamInv
    OBVIOUS
  <2>1. OneCall
    BY DEF Init, OneCall, InProgress
  <2>2. Sound /\ LeftOver
    BY DEF Init, Sound, LeftOver
  <2>3. \A c \in Calls : Stream(c)
    BY DEF Init, Stream
  <2>. QED
    BY <2>1, <2>2, <2>3 DEF StreamInv
<1>2. TypeOK /\ Protocol /\ OneCall /\ StreamInv /\ [Next]_vars => OneCall' /\ StreamInv'
  BY OneCallStep, StreamStep
<1>3. TypeOK /\ Protocol /\ StreamInv /\ [Next]_vars =>
        [NothingLate /\ budget.host = MaxHostFaults =>
           \A c \in Calls : call[c].pc = "eof" /\ call'[c].pc = "start" => Whole]_vars
  <2>. SUFFICES ASSUME TypeOK, Protocol, StreamInv, [Next]_vars, NothingLate, budget.host = MaxHostFaults,
                       NEW c \in Calls, call[c].pc = "eof", call'[c].pc = "start"
                PROVE  Whole
    OBVIOUS
  <2>1. Sound /\ Stream(c) /\ Shape(c)
    BY DEF StreamInv, Quiet, Protocol
  <2>2. InProgress(c)
    BY DEF InProgress
  <2>3. TakeAnswer(c)
    <3>1. ~UNCHANGED call
      BY <2>2
    <3>2. PICK e \in Calls : StartContainer(e) \/ ShimStep(e)
      BY <3>1 DEF Next, vars, AgentStep, HangUp, PrepareRootfs, RootfsLookup, RootfsNewJob, RootfsWrite,
                  RootfsEOF, Pull, Start
    <3>3. e = c
      BY <3>2, OthersWait
    <3>4. ~StartContainer(c)
      BY <2>2 DEF StartContainer
    <3>5. ~Deadline(c)
      <4>. SUFFICES ASSUME Deadline(c) PROVE FALSE
        OBVIOUS
      <4>1. Ask(c, "pull", 0, <<>>)
        BY DEF Deadline
      <4>2. call' = [call EXCEPT ![c] = [pc |-> "pull", piece |-> 0]]
        BY <4>1 DEF Ask
      <4>. QED
        BY <4>2 DEF TypeOK
    <3>. QED
      BY <3>2, <3>3, <3>4, <3>5 DEF ShimStep
  <2>4. PICK a \in Answers : conn[c].rep = <<a>> /\ a.ok
    BY <2>1, <2>3, TakenShape
  <2>5. a.ok = TRUE
    BY <2>4, AnswerFields
  <2>. QED
    BY <2>1, <2>4, <2>5 DEF Stream, Sound, Whole
<1>. QED
  BY <1>1, <1>2, <1>3, ProtocolHolds, PTL DEF Spec, CopyOkMeansWhole
=============================================================================
