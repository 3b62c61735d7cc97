-------------------------- MODULE PodVolumesProofs --------------------------
(***************************************************************************)
(* Proofs about the way of a Pod's volumes, for any manifests, containers, *)
(* volumes and claims, any number of Pods, faults and starts at once.      *)
(*                                                                         *)
(* AdmitInv: the stored Pod is its manifest or what the webhook makes of   *)
(* it.  From it come AdmissionIsStable and RestoreIsWhole, by induction    *)
(* over the sequences of volumes, containers and mounts.  GuestInv: where  *)
(* each start is and what it has bound, what is mounted and who has raced. *)
(* From both come RunsWithItsVolumes, VolumesAreShared and DataIsKept, and *)
(* with VMIInv VMIHoldsPod.                                                *)
(*                                                                         *)
(* Leaves about a CHOOSE are Zenon's: the translation to SMT takes any     *)
(* value that fits for the one that is chosen.                             *)
(***************************************************************************)
EXTENDS PodVolumes, SequenceTheorems, FiniteSetTheorems, WellFoundedInduction, TLAPS

-----------------------------------------------------------------------------
(* Sequences, and what Only keeps of them.                                 *)

\* Every set of numbers that is not empty has a least one.
LEMMA Least ==
    ASSUME NEW T, T \subseteq Nat, T # {}
    PROVE  \E n \in T : \A m \in T : n <= m
<1>1. PICK x \in T : \A y \in T : ~ (<<y, x>> \in OpToRel(<, Nat))
  BY WFMin, NatLessThanWellFounded
<1>2. \A y \in T : ~(y < x)
  BY <1>1 DEF OpToRel
<1>. QED
  BY <1>2

\* Induction over the numbers, for a set.
LEMMA SetInduction ==
    ASSUME NEW T, 0 \in T, \A n \in Nat : n \in T => n + 1 \in T
    PROVE  \A n \in Nat : n \in T
<1>. SUFFICES ASSUME \E n \in Nat : n \notin T PROVE FALSE
  OBVIOUS
<1>. DEFINE F == {n \in Nat : n \notin T}
<1>1. PICK x \in F : \A y \in F : x <= y
  <2>. F \subseteq Nat /\ F # {}
    OBVIOUS
  <2>. HIDE DEF F
  <2>. QED BY Least
<1>. QED
  <2>1. x # 0 /\ x \in Nat /\ x \notin T
    BY <1>1
  <2>2. x - 1 \in Nat /\ x - 1 \notin F
    BY <1>1, <2>1
  <2>. QED BY <2>1, <2>2

\* Induction up to a bound, for a set.
LEMMA UpTo ==
    ASSUME NEW n \in Nat, NEW T, 0 \in T, \A i \in 0 .. n - 1 : i \in T => i + 1 \in T
    PROVE  n \in T
<1>. DEFINE U == {i \in Nat : i <= n => i \in T}
<1>1. 0 \in U /\ \A i \in Nat : i \in U => i + 1 \in U
  OBVIOUS
<1>. HIDE DEF U
<1>2. n \in U
  BY <1>1, SetInduction
<1>. QED BY <1>2 DEF U

\* The elements of a sequence with one more.
LEMMA ElemsAppend ==
    ASSUME NEW X, NEW s \in Seq(X), NEW x \in X
    PROVE  Elems(Append(s, x)) = Elems(s) \cup {x}
<1>. DEFINE a == Append(s, x)
<1>1. Len(s) \in Nat /\ DOMAIN s = 1 .. Len(s) /\ DOMAIN a = 1 .. Len(s) + 1
  BY LenProperties, AppendProperties
<1>2. a[Len(s) + 1] = x /\ \A i \in 1 .. Len(s) : a[i] = s[i]
  BY AppendProperties
<1>. HIDE DEF a
<1>3. {a[i] : i \in DOMAIN a} = {s[i] : i \in DOMAIN s} \cup {x}
  BY <1>1, <1>2
<1>. QED BY <1>3 DEF Elems, a

\* The elements of two sequences, one after the other.
LEMMA ElemsConcat ==
    ASSUME NEW X, NEW s \in Seq(X), NEW t \in Seq(X)
    PROVE  Elems(s \o t) = Elems(s) \cup Elems(t)
<1>. DEFINE a == s \o t
<1>1. Len(s) \in Nat /\ DOMAIN s = 1 .. Len(s) /\ Len(t) \in Nat /\ DOMAIN t = 1 .. Len(t) /\ DOMAIN a = 1 .. Len(s) + Len(t)
  BY LenProperties, ConcatProperties
<1>2. (\A i \in 1 .. Len(s) : a[i] = s[i]) /\ (\A i \in 1 .. Len(t) : a[Len(s) + i] = t[i])
  <2>1. \A i \in 1 .. Len(s) + Len(t) : a[i] = IF i <= Len(s) THEN s[i] ELSE t[i - Len(s)]
    BY ConcatProperties
  <2>. QED BY <1>1, <2>1
<1>. HIDE DEF a
<1>3. ASSUME NEW i \in DOMAIN a PROVE a[i] \in {s[j] : j \in DOMAIN s} \cup {t[j] : j \in DOMAIN t}
  <2>1. CASE i <= Len(s)
    BY <1>1, <1>2, <2>1
  <2>2. CASE i > Len(s)
    <3>1. i - Len(s) \in 1 .. Len(t) /\ Len(s) + (i - Len(s)) = i
      BY <1>1, <2>2
    <3>. QED BY <1>1, <1>2, <3>1
  <2>. QED BY <2>1, <2>2, <1>1
<1>4. ASSUME NEW i \in DOMAIN s PROVE s[i] \in {a[j] : j \in DOMAIN a}
  BY <1>1, <1>2
<1>5. ASSUME NEW i \in DOMAIN t PROVE t[i] \in {a[j] : j \in DOMAIN a}
  <2>1. Len(s) + i \in DOMAIN a /\ t[i] = a[Len(s) + i]
    BY <1>1, <1>2
  <2>. QED BY <2>1
<1>6. {a[i] : i \in DOMAIN a} = {s[j] : j \in DOMAIN s} \cup {t[j] : j \in DOMAIN t}
  BY <1>3, <1>4, <1>5, Zenon
<1>. QED BY <1>6 DEF Elems, a

\* f is the function that Only defines, up to n.
Keeps(s, S, f, n) ==
    f = [i \in 0 .. n |-> IF i = 0 THEN <<>> ELSE IF s[i] \in S THEN Append(f[i - 1], s[i]) ELSE f[i - 1]]

\* There is such a function.
LEMMA OnlyExists ==
    ASSUME NEW X, NEW s \in Seq(X), NEW S
    PROVE  \E f : Keeps(s, S, f, Len(s))
<1>. DEFINE T == {n \in Nat : \E f : Keeps(s, S, f, n)}
<1>1. 0 \in T
  <2>1. Keeps(s, S, [i \in 0 .. 0 |-> <<>>], 0)
    BY DEF Keeps
  <2>. QED BY <2>1
<1>2. \A n \in Nat : n \in T => n + 1 \in T
  <2>. SUFFICES ASSUME NEW n \in Nat, NEW f, Keeps(s, S, f, n)
                PROVE  \E g : Keeps(s, S, g, n + 1)
    OBVIOUS
  <2>. DEFINE g == [i \in 0 .. n + 1 |->
              IF i = 0 THEN <<>> ELSE IF s[i] \in S THEN Append(f[i - 1], s[i]) ELSE f[i - 1]]
  <2>1. \A i \in 0 .. n : g[i] = f[i]
    <3>. TAKE i \in 0 .. n
    <3>1. f[i] = IF i = 0 THEN <<>> ELSE IF s[i] \in S THEN Append(f[i - 1], s[i]) ELSE f[i - 1]
      BY Zenon DEF Keeps
    <3>2. i \in 0 .. n + 1
      OBVIOUS
    <3>. QED BY <3>1, <3>2, Zenon
  <2>2. \A i \in 0 .. n + 1 : i # 0 => i - 1 \in 0 .. n
    OBVIOUS
  <2>3. Keeps(s, S, g, n + 1)
    BY <2>1, <2>2 DEF Keeps
  <2>. QED BY <2>3
<1>. HIDE DEF T
<1>3. Len(s) \in T
  BY <1>1, <1>2, SetInduction, LenProperties
<1>. QED BY <1>3 DEF T

\* Only is its last value.
LEMMA OnlyRec ==
    ASSUME NEW X, NEW s \in Seq(X), NEW S
    PROVE  \E f : Keeps(s, S, f, Len(s)) /\ Only(s, S) = f[Len(s)]
<1>. DEFINE P(f) == f = [i \in 0 .. Len(s) |->
              IF i = 0 THEN <<>> ELSE IF s[i] \in S THEN Append(f[i - 1], s[i]) ELSE f[i - 1]]
<1>1. \E f : P(f)
  BY OnlyExists, ZenonT(40) DEF Keeps
<1>. DEFINE g == CHOOSE f : P(f)
<1>2. P(g)
  <2>. HIDE DEF P
  <2>. QED BY <1>1, Zenon
<1>3. Only(s, S) = g[Len(s)]
  BY Zenon DEF Only
<1>. QED BY <1>2, <1>3, Zenon DEF Keeps

\* Its first value, and each value from the one before.
LEMMA KeepsStep ==
    ASSUME NEW s, NEW S, NEW f, NEW n \in Nat, Keeps(s, S, f, n)
    PROVE  /\ f[0] = <<>>
           /\ \A i \in 0 .. n - 1 : f[i + 1] = IF s[i + 1] \in S THEN Append(f[i], s[i + 1]) ELSE f[i]
<1>1. \A i \in 0 .. n : f[i] = IF i = 0 THEN <<>> ELSE IF s[i] \in S THEN Append(f[i - 1], s[i]) ELSE f[i - 1]
  BY Zenon DEF Keeps
<1>2. f[0] = <<>>
  BY <1>1
<1>3. ASSUME NEW i \in 0 .. n - 1
      PROVE  f[i + 1] = IF s[i + 1] \in S THEN Append(f[i], s[i + 1]) ELSE f[i]
  <2>1. i + 1 \in 0 .. n /\ i + 1 # 0 /\ i + 1 - 1 = i
    OBVIOUS
  <2>. QED BY <1>1, <2>1
<1>. QED BY <1>2, <1>3

\* What Only keeps are the elements of s that are in S.
LEMMA OnlyElems ==
    ASSUME NEW X, NEW s \in Seq(X), NEW S
    PROVE  Only(s, S) \in Seq(X) /\ Elems(Only(s, S)) = Elems(s) \cap S
<1>1. PICK f : Keeps(s, S, f, Len(s)) /\ Only(s, S) = f[Len(s)]
  BY OnlyRec
<1>. DEFINE P(i) == f[i] \in Seq(X) /\ Elems(f[i]) = {s[j] : j \in 1 .. i} \cap S
            T == {i \in 0 .. Len(s) : P(i)}
<1>2. f[0] = <<>> /\ \A i \in 0 .. Len(s) - 1 : f[i + 1] = IF s[i + 1] \in S THEN Append(f[i], s[i + 1]) ELSE f[i]
  BY <1>1, KeepsStep, LenProperties
<1>3. P(0)
  BY <1>2 DEF Elems
<1>4. ASSUME NEW i \in 0 .. Len(s) - 1, P(i)
      PROVE  P(i + 1)
  <2>1. i \in Nat /\ i + 1 \in 1 .. Len(s) /\ s[i + 1] \in X
    BY LenProperties, ElementOfSeq
  <2>2. {s[j] : j \in 1 .. i + 1} = {s[j] : j \in 1 .. i} \cup {s[i + 1]}
    OBVIOUS
  <2>3. CASE s[i + 1] \in S
    <3>1. f[i + 1] = Append(f[i], s[i + 1])
      BY <1>2, <2>1, <2>3
    <3>2. Elems(Append(f[i], s[i + 1])) = Elems(f[i]) \cup {s[i + 1]}
      BY <1>4, <2>1, ElemsAppend
    <3>. QED BY <1>4, <2>1, <2>2, <2>3, <3>1, <3>2
  <2>4. CASE s[i + 1] \notin S
    <3>1. f[i + 1] = f[i]
      BY <1>2, <2>1, <2>4
    <3>. QED BY <1>4, <2>1, <2>2, <2>4, <3>1
  <2>. QED BY <2>3, <2>4
<1>5. P(Len(s))
  <2>. HIDE DEF P
  <2>1. 0 \in T /\ \A i \in 0 .. Len(s) - 1 : i \in T => i + 1 \in T
    BY <1>3, <1>4, LenProperties
  <2>2. Len(s) \in T
    <3>. HIDE DEF T
    <3>. QED BY <2>1, UpTo, LenProperties
  <2>. QED BY <2>2
<1>6. Elems(s) = {s[j] : j \in 1 .. Len(s)}
  BY LenProperties DEF Elems
<1>. QED BY <1>1, <1>5, <1>6

\* Nothing is left out where all elements are in S.
LEMMA OnlyAll ==
    ASSUME NEW X, NEW s \in Seq(X), NEW S, Elems(s) \subseteq S
    PROVE  Only(s, S) = s
<1>1. PICK f : Keeps(s, S, f, Len(s)) /\ Only(s, S) = f[Len(s)]
  BY OnlyRec
<1>. DEFINE P(i) == f[i] = SubSeq(s, 1, i)
            T == {i \in 0 .. Len(s) : P(i)}
<1>2. f[0] = <<>> /\ \A i \in 0 .. Len(s) - 1 : f[i + 1] = IF s[i + 1] \in S THEN Append(f[i], s[i + 1]) ELSE f[i]
  BY <1>1, KeepsStep, LenProperties
<1>3. P(0)
  BY <1>2, SubSeqEmpty
<1>4. ASSUME NEW i \in 0 .. Len(s) - 1, P(i)
      PROVE  P(i + 1)
  <2>1. i \in Nat /\ i + 1 \in 1 .. Len(s) /\ s[i + 1] \in S
    BY LenProperties, ElementOfSeq DEF Elems
  <2>2. f[i + 1] = Append(f[i], s[i + 1])
    BY <1>2, <2>1
  <2>. QED BY <1>4, <2>1, <2>2, SubSeqProperties, LenProperties
<1>5. P(Len(s))
  <2>. HIDE DEF P
  <2>1. 0 \in T /\ \A i \in 0 .. Len(s) - 1 : i \in T => i + 1 \in T
    BY <1>3, <1>4, LenProperties
  <2>2. Len(s) \in T
    <3>. HIDE DEF T
    <3>. QED BY <2>1, UpTo, LenProperties
  <2>. QED BY <2>2
<1>. QED BY <1>1, <1>5, SubSeqProperties, LenProperties

\* A sequence comes apart in two without loss.
LEMMA OnlyApart ==
    ASSUME NEW X, NEW s \in Seq(X), NEW S, NEW R, \A x \in Elems(s) : x \in S <=> x \notin R
    PROVE  Len(Only(s, S)) + Len(Only(s, R)) = Len(s)
<1>1. PICK f : Keeps(s, S, f, Len(s)) /\ Only(s, S) = f[Len(s)]
  BY OnlyRec
<1>2. PICK g : Keeps(s, R, g, Len(s)) /\ Only(s, R) = g[Len(s)]
  BY OnlyRec
<1>. DEFINE P(i) == f[i] \in Seq(X) /\ g[i] \in Seq(X) /\ Len(f[i]) + Len(g[i]) = i
            T == {i \in 0 .. Len(s) : P(i)}
<1>3. /\ f[0] = <<>> /\ g[0] = <<>>
      /\ \A i \in 0 .. Len(s) - 1 : f[i + 1] = IF s[i + 1] \in S THEN Append(f[i], s[i + 1]) ELSE f[i]
      /\ \A i \in 0 .. Len(s) - 1 : g[i + 1] = IF s[i + 1] \in R THEN Append(g[i], s[i + 1]) ELSE g[i]
  BY <1>1, <1>2, KeepsStep, LenProperties
<1>4. P(0)
  BY <1>3
<1>5. ASSUME NEW i \in 0 .. Len(s) - 1, P(i)
      PROVE  P(i + 1)
  <2>1. i \in Nat /\ i + 1 \in 1 .. Len(s) /\ s[i + 1] \in X /\ (s[i + 1] \in S <=> s[i + 1] \notin R)
    BY LenProperties, ElementOfSeq DEF Elems
  <2>2. \/ f[i + 1] = Append(f[i], s[i + 1]) /\ g[i + 1] = g[i]
        \/ g[i + 1] = Append(g[i], s[i + 1]) /\ f[i + 1] = f[i]
    BY <1>3, <2>1
  <2>3. /\ Append(f[i], s[i + 1]) \in Seq(X) /\ Len(Append(f[i], s[i + 1])) = Len(f[i]) + 1
        /\ Append(g[i], s[i + 1]) \in Seq(X) /\ Len(Append(g[i], s[i + 1])) = Len(g[i]) + 1
        /\ Len(f[i]) \in Nat /\ Len(g[i]) \in Nat
    BY <1>5, <2>1, AppendProperties, LenProperties
  <2>4. CASE f[i + 1] = Append(f[i], s[i + 1]) /\ g[i + 1] = g[i]
    <3>1. /\ f[i + 1] \in Seq(X) /\ g[i + 1] \in Seq(X)
          /\ Len(f[i + 1]) = Len(f[i]) + 1 /\ Len(g[i + 1]) = Len(g[i])
      BY <1>5, <2>3, <2>4, Zenon
    <3>. DEFINE a == Len(f[i]) b == Len(g[i]) c == Len(f[i + 1]) d == Len(g[i + 1])
    <3>2. a \in Nat /\ b \in Nat /\ i \in Nat /\ a + b = i /\ c = a + 1 /\ d = b
      BY <1>5, <2>1, <2>3, <3>1, Zenon
    <3>3. c + d = i + 1
      <4>. HIDE DEF a, b, c, d
      <4>. QED BY <3>2
    <3>. QED BY <3>1, <3>3, Zenon
  <2>5. CASE g[i + 1] = Append(g[i], s[i + 1]) /\ f[i + 1] = f[i]
    <3>1. /\ f[i + 1] \in Seq(X) /\ g[i + 1] \in Seq(X)
          /\ Len(g[i + 1]) = Len(g[i]) + 1 /\ Len(f[i + 1]) = Len(f[i])
      BY <1>5, <2>3, <2>5, Zenon
    <3>. DEFINE a == Len(f[i]) b == Len(g[i]) c == Len(f[i + 1]) d == Len(g[i + 1])
    <3>2. a \in Nat /\ b \in Nat /\ i \in Nat /\ a + b = i /\ d = b + 1 /\ c = a
      BY <1>5, <2>1, <2>3, <3>1, Zenon
    <3>3. c + d = i + 1
      <4>. HIDE DEF a, b, c, d
      <4>. QED BY <3>2
    <3>. QED BY <3>1, <3>3, Zenon
  <2>. QED BY <2>2, <2>4, <2>5
<1>6. P(Len(s))
  <2>. HIDE DEF P
  <2>1. 0 \in T /\ \A i \in 0 .. Len(s) - 1 : i \in T => i + 1 \in T
    BY <1>4, <1>5, LenProperties
  <2>2. Len(s) \in T
    <3>. HIDE DEF T
    <3>. QED BY <2>1, UpTo, LenProperties
  <2>. QED BY <2>2
<1>. QED BY <1>1, <1>2, <1>6

-----------------------------------------------------------------------------
(* The webhook: MutateSandboxPod twice is MutateSandboxPod once.           *)

\* A Pod, from its fields.
PodRec(sb, de, la, fi, sn, pl, ro, te, na, cl, vo, ct) ==
    [sandbox |-> sb, deleting |-> de, label |-> la, finalizer |-> fi, snapshot |-> sn, placement |-> pl,
     rootfs |-> ro, tee |-> te, nad |-> na, claims |-> cl, volumes |-> vo, ctrs |-> ct]

\* A Pod has the fields of a Pod and no other.
Shape(p) == p = PodRec(p.sandbox, p.deleting, p.label, p.finalizer, p.snapshot, p.placement, p.rootfs, p.tee, p.nad, p.claims, p.volumes, p.ctrs)

\* What MutateSandboxPod makes of a Pod that is not being deleted, field by field.
MutatedRec(p) == PodRec(p.sandbox, FALSE, TRUE, TRUE, PersistVolumeSnapshot(p), TRUE, p.rootfs, p.tee, p.nad, p.claims, OtherVolumes(p), OtherCtrs(p))

\* It makes that.
LEMMA MutateIs ==
    ASSUME NEW p, Shape(p), p.deleting = FALSE
    PROVE  MutateSandboxPod(p) = MutatedRec(p)
<1>1. PICK sb, la, fi, sn, pl, ro, te, na, cl, vo, ct : p = PodRec(sb, FALSE, la, fi, sn, pl, ro, te, na, cl, vo, ct)
  BY Zenon DEF Shape
<1>. DEFINE P == PersistVolumeSnapshot(p)
            V == OtherVolumes(p)
            C == OtherCtrs(p)
            q == PodRec(sb, FALSE, la, fi, sn, pl, ro, te, na, cl, vo, ct)
<1>2. MutateSandboxPod(p) = [q EXCEPT
            !.label = TRUE, !.finalizer = TRUE, !.placement = TRUE,
            !.snapshot = P,
            !.volumes = V,
            !.ctrs = C]
  <2>. HIDE DEF q
  <2>. QED BY <1>1, Zenon DEF MutateSandboxPod, q
<1>. HIDE DEF P, V, C
<1>3. MutateSandboxPod(p) = PodRec(sb, FALSE, TRUE, TRUE, P, TRUE, ro, te, na, cl, V, C)
  BY <1>2 DEF PodRec
<1>4. q.sandbox = sb /\ q.rootfs = ro /\ q.tee = te /\ q.nad = na /\ q.claims = cl
  BY DEF PodRec
<1>. HIDE DEF q
<1>. QED BY <1>1, <1>3, <1>4, Zenon DEF P, V, C, q, MutatedRec

\* The fields of that.
LEMMA MutatedFields ==
    ASSUME NEW p
    PROVE  LET q == MutatedRec(p)
           IN  /\ q.sandbox = p.sandbox /\ q.deleting = FALSE /\ q.label = TRUE /\ q.finalizer = TRUE
               /\ q.snapshot = PersistVolumeSnapshot(p)
               /\ q.placement = TRUE /\ q.rootfs = p.rootfs /\ q.tee = p.tee /\ q.nad = p.nad /\ q.claims = p.claims
               /\ q.volumes = OtherVolumes(p) /\ q.ctrs = OtherCtrs(p)
               /\ Shape(q)
  BY DEF MutatedRec, PodRec, Shape

\* Only leaves a sequence of the elements asked for.
LEMMA KeepElems ==
    ASSUME NEW s, IsSeq(s), NEW S, S = {x \in Elems(s) : x \in S}
    PROVE  IsSeq(Only(s, S)) /\ Elems(Only(s, S)) = S
<1>1. s \in Seq(Elems(s))
  BY DEF IsSeq
<1>2. Only(s, S) \in Seq(Elems(s)) /\ Elems(Only(s, S)) = Elems(s) \cap S
  BY <1>1, OnlyElems
<1>3. Elems(Only(s, S)) = S
  BY <1>2
<1>4. ASSUME NEW q \in Seq(Elems(s)) PROVE q \in Seq(Elems(q))
  <2>1. \A i \in 1 .. Len(q) : q[i] \in Elems(q)
    BY LenProperties DEF Elems
  <2>. QED BY <2>1, SeqDef, LenProperties
<1>. QED BY <1>2, <1>3, <1>4 DEF IsSeq

\* A container, from its fields, and what the webhook leaves of one.
CtrRec(na, ni, mo, pr, cp, me, pa, vf, gp, po) ==
    [name |-> na, init |-> ni, mounts |-> mo, probe |-> pr, cpu |-> cp, mem |-> me, pages |-> pa, vfs |-> vf, gpu |-> gp, ports |-> po]
Others(c, dropped) == Only(c.mounts, {m \in Elems(c.mounts) : m.vol \notin dropped})
ProbeNow(c) == IF c.init THEN c.probe ELSE RewriteProbeToExec(c.probe)
RestRec(c, dropped) == CtrRec(c.name, c.init, Others(c, dropped), ProbeNow(c), c.cpu, c.mem, c.pages, c.vfs, c.gpu, c.ports)
CtrShape(c) == c = CtrRec(c.name, c.init, c.mounts, c.probe, c.cpu, c.mem, c.pages, c.vfs, c.gpu, c.ports)

\* DropVolumeRefs, field by field.
LEMMA CtrMounts ==
    ASSUME NEW c, CtrShape(c), NEW x
    PROVE  [c EXCEPT !.mounts = x] = CtrRec(c.name, c.init, x, c.probe, c.cpu, c.mem, c.pages, c.vfs, c.gpu, c.ports)
<1>. DEFINE na == c.name ni == c.init mo == c.mounts pr == c.probe cp == c.cpu me == c.mem pa == c.pages vf == c.vfs gp == c.gpu po == c.ports
<1>1. c = CtrRec(na, ni, mo, pr, cp, me, pa, vf, gp, po)
  BY Zenon DEF CtrShape
<1>. HIDE DEF na, ni, mo, pr, cp, me, pa, vf, gp, po
<1>2. [c EXCEPT !.mounts = x] = CtrRec(na, ni, x, pr, cp, me, pa, vf, gp, po)
  BY <1>1 DEF CtrRec
<1>. QED BY <1>2, Zenon DEF na, ni, mo, pr, cp, me, pa, vf, gp, po

\* The fields of what the webhook leaves of a container.
LEMMA RestFields ==
    ASSUME NEW c, NEW dropped
    PROVE  LET d == RestRec(c, dropped)
           IN  /\ d.name = c.name /\ d.init = c.init /\ d.mounts = Others(c, dropped) /\ d.probe = ProbeNow(c)
               /\ d.cpu = c.cpu /\ d.mem = c.mem /\ d.pages = c.pages /\ d.vfs = c.vfs /\ d.gpu = c.gpu /\ d.ports = c.ports
               /\ CtrShape(d)
  BY DEF RestRec, CtrRec, CtrShape

\* The webhook leaves that of a container.
LEMMA RestIs ==
    ASSUME NEW c, CtrShape(c), c.init \in BOOLEAN, NEW dropped
    PROVE  RewriteProbesToExec(DropVolumeRefs(c, dropped)) = RestRec(c, dropped)
<1>. DEFINE o == Others(c, dropped)
            d == CtrRec(c.name, c.init, o, c.probe, c.cpu, c.mem, c.pages, c.vfs, c.gpu, c.ports)
            r == RewriteProbeToExec(c.probe)
<1>1. DropVolumeRefs(c, dropped) = [c EXCEPT !.mounts = o]
  BY DEF DropVolumeRefs, Others, Keep
<1>2. [c EXCEPT !.mounts = o] = d
  BY CtrMounts, Zenon
<1>3. d.init = c.init /\ d.probe = c.probe
  BY DEF CtrRec
<1>4. CASE c.init = TRUE
  <2>1. RewriteProbesToExec(d) = d /\ ProbeNow(c) = c.probe
    <3>. HIDE DEF d
    <3>. QED BY <1>3, <1>4 DEF RewriteProbesToExec, ProbeNow
  <2>. QED BY <1>1, <1>2, <2>1, Zenon DEF RestRec
<1>5. CASE c.init = FALSE
  <2>1. RewriteProbesToExec(d) = [d EXCEPT !.probe = r] /\ ProbeNow(c) = r
    <3>. HIDE DEF d
    <3>1. d.init = FALSE
      BY <1>3, <1>5
    <3>. QED BY <1>3, <1>5, <3>1 DEF RewriteProbesToExec, ProbeNow
  <2>2. [d EXCEPT !.probe = r] = RestRec(c, dropped)
    <3>. DEFINE pr == c.probe
    <3>. HIDE DEF r, o, pr
    <3>1. [d EXCEPT !.probe = r] = CtrRec(c.name, c.init, o, r, c.cpu, c.mem, c.pages, c.vfs, c.gpu, c.ports)
      BY DEF CtrRec
    <3>. QED BY <2>1, <3>1, Zenon DEF RestRec, o, r
  <2>. QED BY <1>1, <1>2, <2>1, <2>2, Zenon
<1>. QED BY <1>4, <1>5

\* A manifest has the fields of a Pod.
LEMMA ManifestShape ==
    ASSUME NEW t, Manifest(t)
    PROVE  Shape(t) /\ t.deleting = FALSE /\ t.snapshot = None
<1>. DEFINE r == [sandbox |-> t.sandbox, deleting |-> FALSE, label |-> t.label, finalizer |-> t.finalizer,
            snapshot |-> None, placement |-> t.placement, rootfs |-> t.rootfs, tee |-> t.tee, nad |-> t.nad,
            claims |-> t.claims, volumes |-> t.volumes, ctrs |-> t.ctrs]
<1>1. t = r
  BY Zenon DEF Manifest
<1>2. r.deleting = FALSE /\ r.snapshot = None
  OBVIOUS
<1>. HIDE DEF r
<1>3. t.deleting = FALSE /\ t.snapshot = None
  BY <1>1, <1>2, Zenon
<1>. QED BY <1>1, <1>3, Zenon DEF Shape, PodRec, r

\* In a manifest a name stands for one volume, or for one container.
LEMMA ManifestNames ==
    ASSUME NEW t, Manifest(t)
    PROVE  /\ \A v, w \in Elems(t.volumes) : v.name = w.name => v = w
           /\ \A c, d \in Elems(t.ctrs) : c.name = d.name => c = d
  BY DEF Manifest, NoneTwice, Elems

\* The containers of a manifest are valid.
LEMMA ManifestCtr ==
    ASSUME NEW t, Manifest(t), NEW i \in DOMAIN t.ctrs
    PROVE  t.ctrs[i] \in Elems(t.ctrs) /\ CtrShape(t.ctrs[i]) /\ t.ctrs[i].init \in BOOLEAN /\ IsSeq(t.ctrs[i].mounts)
<1>1. t.ctrs[i] \in Elems(t.ctrs)
  BY DEF Elems
<1>. QED BY <1>1, Zenon DEF Manifest, ValidCtr, CtrShape, CtrRec

\* The volumes that stay in the Pod.
LEMMA OtherVolumesElems ==
    ASSUME NEW p, IsSeq(p.volumes)
    PROVE  IsSeq(OtherVolumes(p)) /\ Elems(OtherVolumes(p)) = {v \in Elems(p.volumes) : ~IsStrippedVolume(v)}
<1>. DEFINE S == {v \in Elems(p.volumes) : ~IsStrippedVolume(v)}
<1>1. S = {x \in Elems(p.volumes) : x \in S}
  OBVIOUS
<1>2. OtherVolumes(p) = Only(p.volumes, S)
  BY DEF OtherVolumes, Keep
<1>. HIDE DEF S
<1>3. QED BY <1>1, <1>2, KeepElems DEF S

\* The mounts that stay in a container.
LEMMA OthersElems ==
    ASSUME NEW c, IsSeq(c.mounts), NEW D
    PROVE  IsSeq(Others(c, D)) /\ Elems(Others(c, D)) = {m \in Elems(c.mounts) : m.vol \notin D}
<1>. DEFINE S == {m \in Elems(c.mounts) : m.vol \notin D}
<1>1. S = {x \in Elems(c.mounts) : x \in S}
  OBVIOUS
<1>2. Others(c, D) = Only(c.mounts, S)
  BY DEF Others
<1>. HIDE DEF S
<1>3. QED BY <1>1, <1>2, KeepElems DEF S

\* A probe that is rewritten stays as it is the second time.
LEMMA ProbeOnce ==
    ASSUME NEW x
    PROVE  RewriteProbeToExec(RewriteProbeToExec(x)) = RewriteProbeToExec(x)
<1>1. CASE x.kind \notin {"http", "tcp"} \/ x.port = 0
  <2>1. RewriteProbeToExec(x) = x
    BY <1>1 DEF RewriteProbeToExec
  <2>. QED BY <2>1
<1>2. CASE ~(x.kind \notin {"http", "tcp"} \/ x.port = 0)
  <2>. DEFINE y == RewriteProbeToExec(x)
  <2>1. y.kind = "exec"
    BY <1>2 DEF RewriteProbeToExec
  <2>. HIDE DEF y
  <2>2. RewriteProbeToExec(y) = y
    BY <2>1 DEF RewriteProbeToExec
  <2>. QED BY <2>2 DEF y
<1>. QED BY <1>1, <1>2

\* A container that is stripped stays as it is the second time.
LEMMA RestOnce ==
    ASSUME NEW c, IsSeq(c.mounts), c.init \in BOOLEAN, NEW D, NEW E, \A m \in Elems(Others(c, D)) : m.vol \notin E
    PROVE  RestRec(RestRec(c, D), E) = RestRec(c, D)
<1>. DEFINE d == RestRec(c, D)
<1>1. /\ d.name = c.name /\ d.init = c.init /\ d.mounts = Others(c, D) /\ d.probe = ProbeNow(c)
      /\ d.cpu = c.cpu /\ d.mem = c.mem /\ d.pages = c.pages /\ d.vfs = c.vfs /\ d.gpu = c.gpu /\ d.ports = c.ports
      /\ CtrShape(d)
  BY RestFields, Zenon
<1>. HIDE DEF d
<1>2. Others(d, E) = d.mounts
  <2>1. Elems(d.mounts) \subseteq {m \in Elems(d.mounts) : m.vol \notin E}
    BY <1>1
  <2>2. d.mounts \in Seq(Elems(d.mounts))
    BY <1>1, OthersElems DEF IsSeq
  <2>3. Only(d.mounts, {m \in Elems(d.mounts) : m.vol \notin E}) = d.mounts
    BY <2>1, <2>2, OnlyAll
  <2>. QED BY <2>3 DEF Others
<1>3. ProbeNow(d) = d.probe
  <2>1. CASE c.init = TRUE
    BY <1>1, <2>1 DEF ProbeNow
  <2>2. CASE c.init = FALSE
    BY <1>1, <2>2, ProbeOnce DEF ProbeNow
  <2>. QED BY <2>1, <2>2
<1>4. RestRec(d, E) = CtrRec(d.name, d.init, d.mounts, d.probe, d.cpu, d.mem, d.pages, d.vfs, d.gpu, d.ports)
  BY <1>2, <1>3, Zenon DEF RestRec
<1>. QED BY <1>1, <1>4, Zenon DEF CtrShape, d

\* What the webhook has made of a manifest it leaves alone.
LEMMA MutateOnce ==
    ASSUME NEW t, Manifest(t), CaptureStrippedVolumes(t) # None
    PROVE  MutateSandboxPod(MutateSandboxPod(t)) = MutateSandboxPod(t)
<1>. DEFINE p == MutatedRec(t)
<1>1. MutateSandboxPod(t) = p
  BY ManifestShape, MutateIs
<1>2. /\ p.sandbox = t.sandbox /\ p.deleting = FALSE /\ p.label = TRUE /\ p.finalizer = TRUE
      /\ p.snapshot = PersistVolumeSnapshot(t)
      /\ p.placement = TRUE /\ p.rootfs = t.rootfs /\ p.tee = t.tee /\ p.nad = t.nad /\ p.claims = t.claims
      /\ p.volumes = OtherVolumes(t) /\ p.ctrs = OtherCtrs(t)
      /\ Shape(p)
  BY MutatedFields, Zenon
<1>. HIDE DEF p
<1>3. PersistVolumeSnapshot(p) = p.snapshot
  <2>1. p.snapshot = CaptureStrippedVolumes(t)
    BY <1>2, ManifestShape DEF PersistVolumeSnapshot
  <2>. QED BY <2>1 DEF PersistVolumeSnapshot
<1>4. IsSeq(p.volumes) /\ Elems(p.volumes) = {v \in Elems(t.volumes) : ~IsStrippedVolume(v)}
  BY <1>2, OtherVolumesElems DEF Manifest
<1>5. OtherVolumes(p) = p.volumes
  <2>1. Elems(p.volumes) \subseteq {v \in Elems(p.volumes) : ~IsStrippedVolume(v)}
    BY <1>4
  <2>2. Only(p.volumes, {v \in Elems(p.volumes) : ~IsStrippedVolume(v)}) = p.volumes
    BY <1>4, <2>1, OnlyAll DEF IsSeq
  <2>. QED BY <2>2 DEF OtherVolumes, Keep
<1>6. Stripped(p) = {}
  BY <1>4 DEF Stripped
<1>7. DOMAIN p.ctrs = DOMAIN t.ctrs /\ \A i \in DOMAIN t.ctrs : p.ctrs[i] = RestRec(t.ctrs[i], Stripped(t))
  <2>1. DOMAIN p.ctrs = DOMAIN t.ctrs /\ \A i \in DOMAIN t.ctrs : p.ctrs[i] = RewriteProbesToExec(DropVolumeRefs(t.ctrs[i], Stripped(t)))
    BY <1>2, Zenon DEF OtherCtrs
  <2>. QED BY <2>1, ManifestCtr, RestIs
<1>8. \A i \in DOMAIN t.ctrs : RewriteProbesToExec(DropVolumeRefs(p.ctrs[i], Stripped(p))) = p.ctrs[i]
  <2>. TAKE i \in DOMAIN t.ctrs
  <2>. DEFINE c == t.ctrs[i]
              d == p.ctrs[i]
  <2>1. c.init \in BOOLEAN /\ IsSeq(c.mounts)
    BY ManifestCtr
  <2>2. d = RestRec(c, Stripped(t))
    BY <1>7
  <2>. HIDE DEF c, d
  <2>3. d.init = c.init /\ CtrShape(d)
    BY <2>2, RestFields, Zenon
  <2>4. RestRec(d, Stripped(p)) = d
    BY <1>6, <2>1, <2>2, RestOnce
  <2>. QED BY <2>1, <2>3, <2>4, RestIs DEF d
<1>9. OtherCtrs(p) = p.ctrs
  <2>1. OtherCtrs(p) = [i \in DOMAIN t.ctrs |-> p.ctrs[i]]
    BY <1>7, <1>8, Zenon DEF OtherCtrs
  <2>2. p.ctrs = [i \in DOMAIN t.ctrs |-> p.ctrs[i]]
    BY <1>2, <1>7 DEF OtherCtrs
  <2>. QED BY <2>1, <2>2
<1>10. MutateSandboxPod(p) = MutatedRec(p)
  BY <1>2, MutateIs
<1>11. MutatedRec(p) = p
  BY <1>2, <1>3, <1>5, <1>9, Zenon DEF MutatedRec, Shape
<1>. QED BY <1>1, <1>10, <1>11

-----------------------------------------------------------------------------
(* The Pod is always a form of its manifest.                               *)

\* A Pod with its deletion timestamp set or not.
Flag(p, b) == [p EXCEPT !.deleting = b]
FlagRec(p, b) == PodRec(p.sandbox, b, p.label, p.finalizer, p.snapshot, p.placement, p.rootfs, p.tee, p.nad, p.claims, p.volumes, p.ctrs)

\* What a manifest is stored as: itself, or what the webhook makes of it.
Forms(t) == {t, MutateSandboxPod(t)}
\* The Pod, and the saved object, are a form of the manifest they come from.
AdmitInv ==
    /\ pod # None =>
          /\ wanted \in Templates /\ Handle(wanted) # None
          /\ pod.deleting \in BOOLEAN
          /\ \E p \in Forms(wanted) : pod = Flag(p, pod.deleting)
          /\ wanted.sandbox /\ ~pod.deleting => pod = MutateSandboxPod(wanted)
    /\ dump # None =>
          /\ dump.wanted \in Templates /\ Handle(dump.wanted) # None
          /\ dump.object \in Forms(dump.wanted)

\* Flag, field by field.
LEMMA FlagIs ==
    ASSUME NEW p, Shape(p), NEW b
    PROVE  Flag(p, b) = FlagRec(p, b)
<1>1. PICK sb, de, la, fi, sn, pl, ro, te, na, cl, vo, ct : p = PodRec(sb, de, la, fi, sn, pl, ro, te, na, cl, vo, ct)
  BY Zenon DEF Shape
<1>. DEFINE q == PodRec(sb, de, la, fi, sn, pl, ro, te, na, cl, vo, ct)
<1>2. Flag(p, b) = [q EXCEPT !.deleting = b]
  <2>. HIDE DEF q
  <2>. QED BY <1>1, Zenon DEF Flag, q
<1>3. Flag(p, b) = PodRec(sb, b, la, fi, sn, pl, ro, te, na, cl, vo, ct)
  BY <1>2 DEF PodRec
<1>4. /\ q.sandbox = sb /\ q.label = la /\ q.finalizer = fi /\ q.snapshot = sn
      /\ q.placement = pl /\ q.rootfs = ro /\ q.tee = te /\ q.nad = na /\ q.claims = cl
      /\ q.volumes = vo /\ q.ctrs = ct
  BY DEF PodRec
<1>. HIDE DEF q
<1>. QED BY <1>1, <1>3, <1>4, Zenon DEF q, FlagRec

\* Flag changes the deletion timestamp only.
LEMMA FlagFields ==
    ASSUME NEW p, Shape(p), NEW b
    PROVE  LET q == Flag(p, b)
           IN  /\ q.sandbox = p.sandbox /\ q.deleting = b /\ q.label = p.label /\ q.finalizer = p.finalizer
               /\ q.snapshot = p.snapshot
               /\ q.placement = p.placement /\ q.rootfs = p.rootfs /\ q.tee = p.tee /\ q.nad = p.nad /\ q.claims = p.claims
               /\ q.volumes = p.volumes /\ q.ctrs = p.ctrs
               /\ Shape(q)
<1>. DEFINE r == FlagRec(p, b)
<1>1. /\ r.sandbox = p.sandbox /\ r.deleting = b /\ r.label = p.label /\ r.finalizer = p.finalizer
               /\ r.snapshot = p.snapshot
               /\ r.placement = p.placement /\ r.rootfs = p.rootfs /\ r.tee = p.tee /\ r.nad = p.nad /\ r.claims = p.claims
               /\ r.volumes = p.volumes /\ r.ctrs = p.ctrs
               /\ Shape(r)
  BY DEF FlagRec, PodRec, Shape
<1>. HIDE DEF r
<1>2. Flag(p, b) = r
  BY FlagIs DEF r
<1>. QED BY <1>1, <1>2, Zenon

\* The last Flag counts.
LEMMA FlagTwice ==
    ASSUME NEW p, Shape(p), NEW a, NEW b
    PROVE  Flag(Flag(p, a), b) = Flag(p, b)
<1>1. Flag(Flag(p, a), b) = FlagRec(Flag(p, a), b)
  BY FlagFields, FlagIs
<1>2. FlagRec(Flag(p, a), b) = FlagRec(p, b)
  <2>. DEFINE q == Flag(p, a)
  <2>1. /\ q.sandbox = p.sandbox /\ q.label = p.label /\ q.finalizer = p.finalizer /\ q.snapshot = p.snapshot
        /\ q.placement = p.placement /\ q.rootfs = p.rootfs /\ q.tee = p.tee /\ q.nad = p.nad /\ q.claims = p.claims
        /\ q.volumes = p.volumes /\ q.ctrs = p.ctrs
    BY FlagFields, SMT
  <2>. HIDE DEF q
  <2>2. FlagRec(q, b) = FlagRec(p, b)
    BY <2>1, Zenon DEF FlagRec, PodRec
  <2>. QED BY <2>2 DEF q
<1>. QED BY <1>1, <1>2, FlagIs

\* A Pod flagged as it is.
LEMMA FlagSame ==
    ASSUME NEW p, Shape(p)
    PROVE  Flag(p, p.deleting) = p
<1>1. Flag(p, p.deleting) = FlagRec(p, p.deleting)
  BY FlagIs
<1>. QED BY <1>1, Zenon DEF FlagRec, Shape

\* The forms of a manifest.
LEMMA FormFields ==
    ASSUME NEW t \in Templates, NEW p \in Forms(t)
    PROVE  /\ Shape(p) /\ p.deleting = FALSE /\ p.sandbox = t.sandbox /\ t.sandbox \in BOOLEAN /\ p.rootfs = t.rootfs
           /\ \/ p.snapshot = None /\ p.volumes = t.volumes /\ p.ctrs = t.ctrs /\ p = t
              \/ p.snapshot = CaptureStrippedVolumes(t) /\ p.snapshot # None /\ p.volumes = OtherVolumes(t) /\ p.ctrs = OtherCtrs(t)
<1>1. Manifest(t) /\ CaptureStrippedVolumes(t) # None
  BY TemplatesAssumption, NoneAssumption
<1>2. Shape(t) /\ t.deleting = FALSE /\ t.snapshot = None /\ t.sandbox \in BOOLEAN
  BY <1>1, ManifestShape DEF Manifest
<1>3. CASE p = t
  BY <1>2, <1>3
<1>4. CASE p = MutateSandboxPod(t)
  <2>1. p = MutatedRec(t)
    BY <1>2, <1>4, MutateIs
  <2>2. Shape(p) /\ p.deleting = FALSE /\ p.sandbox = t.sandbox /\ p.rootfs = t.rootfs /\ p.volumes = OtherVolumes(t) /\ p.ctrs = OtherCtrs(t)
        /\ p.snapshot = PersistVolumeSnapshot(t)
    BY <2>1, MutatedFields, Zenon
  <2>3. PersistVolumeSnapshot(t) = CaptureStrippedVolumes(t)
    BY <1>2 DEF PersistVolumeSnapshot
  <2>. QED BY <1>1, <1>2, <2>2, <2>3
<1>. QED BY <1>3, <1>4 DEF Forms

\* The webhook makes a form of a form of a manifest.
LEMMA AdmitForm ==
    ASSUME NEW t \in Templates, Handle(t) # None, NEW p \in Forms(t)
    PROVE  Handle(p) \in Forms(t) /\ (t.sandbox => Handle(p) = MutateSandboxPod(t))
<1>1. CASE ~t.sandbox
  <2>1. ~p.sandbox
    BY <1>1, FormFields
  <2>. QED BY <1>1, <2>1 DEF Handle
<1>2. CASE t.sandbox
  <2>1. p.sandbox /\ p.deleting = FALSE /\ t.deleting = FALSE
    BY <1>2, FormFields, ZenonT(30) DEF Forms
  <2>2. Manifest(t) /\ CaptureStrippedVolumes(t) # None
    BY TemplatesAssumption, NoneAssumption
  <2>3. CASE p = t
    BY <1>2, <2>1, <2>3 DEF Handle, Forms
  <2>4. CASE p = MutateSandboxPod(t) /\ p # t
    <3>1. p.snapshot # None
      BY <2>4, FormFields
    <3>2. Encodable(p)
      BY <3>1 DEF Encodable
    <3>3. Handle(p) = MutateSandboxPod(p)
      BY <2>1, <3>2 DEF Handle
    <3>. QED BY <2>2, <2>4, <3>3, MutateOnce DEF Forms
  <2>. QED BY <2>3, <2>4 DEF Forms
<1>. QED BY <1>1, <1>2

\* AdmitInv holds at the start.
LEMMA AdmitInit == Init => AdmitInv
  BY DEF Init, AdmitInv

\* The Pod and its manifest, or the saved one.
PodIn(p, w) ==
    p # None =>
          /\ w \in Templates /\ Handle(w) # None
          /\ p.deleting \in BOOLEAN
          /\ \E f \in Forms(w) : p = Flag(f, p.deleting)
          /\ w.sandbox /\ ~p.deleting => p = MutateSandboxPod(w)

\* A form, flagged, is a Pod of its manifest.
LEMMA PodOfForm ==
    ASSUME NEW t \in Templates, Handle(t) # None, NEW p \in Forms(t), t.sandbox => p = MutateSandboxPod(t)
    PROVE  PodIn(p, t)
<1>1. Shape(p) /\ p.deleting = FALSE
  BY FormFields
<1>2. p = Flag(p, p.deleting)
  BY <1>1, FlagSame
<1>. QED BY <1>1, <1>2 DEF PodIn

\* A Pod of a manifest, flagged otherwise, is one too.
LEMMA PodFlagged ==
    ASSUME NEW p, NEW w, p # None, PodIn(p, w)
    PROVE  /\ Shape(p) /\ p.sandbox = w.sandbox /\ w.sandbox \in BOOLEAN
           /\ \A b \in BOOLEAN : \E f \in Forms(w) : Flag(p, b) = Flag(f, b)
<1>1. PICK f \in Forms(w) : p = Flag(f, p.deleting)
  BY DEF PodIn
<1>2. w \in Templates
  BY DEF PodIn
<1>3. Shape(f) /\ f.sandbox = w.sandbox /\ w.sandbox \in BOOLEAN
  BY <1>2, FormFields
<1>4. Shape(p) /\ p.sandbox = w.sandbox
  BY <1>1, <1>3, FlagFields
<1>5. \A b : Flag(p, b) = Flag(f, b)
  BY <1>1, <1>3, FlagTwice
<1>. QED BY <1>3, <1>4, <1>5

\* Every step keeps AdmitInv.
LEMMA AdmitStep == AdmitInv /\ [Next]_vars => AdmitInv'
<1>. SUFFICES ASSUME AdmitInv, [Next]_vars PROVE AdmitInv'
  OBVIOUS
<1>. DEFINE DumpIn == dump # None =>
          /\ dump.wanted \in Templates /\ Handle(dump.wanted) # None
          /\ dump.object \in Forms(dump.wanted)
<1>0. PodIn(pod, wanted) /\ DumpIn
  BY DEF AdmitInv, PodIn
<1>. SUFFICES PodIn(pod, wanted)' /\ DumpIn'
  BY DEF AdmitInv, PodIn
<1>1. CASE UNCHANGED <<pod, wanted, dump>>
  BY <1>0, <1>1
<1>2. CASE CreatePod
  <2>1. DumpIn'
    BY <1>0, <1>2 DEF CreatePod
  <2>2. CASE \E t \in Templates : Handle(t) # None /\ pod' = Handle(t) /\ wanted' = t
    <3>1. PICK t \in Templates : Handle(t) # None /\ pod' = Handle(t) /\ wanted' = t
      BY <2>2
    <3>2. t \in Forms(t)
      BY DEF Forms
    <3>3. PodIn(pod', t)
      BY <3>1, <3>2, AdmitForm, PodOfForm
    <3>. QED BY <2>1, <3>1, <3>3 DEF PodIn
  <2>3. CASE dump # None /\ pod' = Handle(dump.object) /\ wanted' = dump.wanted
    <3>1. dump.wanted \in Templates /\ Handle(dump.wanted) # None /\ dump.object \in Forms(dump.wanted)
      BY <1>0, <2>3
    <3>2. PodIn(pod', dump.wanted)
      BY <2>3, <3>1, AdmitForm, PodOfForm
    <3>. QED BY <2>1, <2>3, <3>2 DEF PodIn
  <2>. QED BY <1>2, <2>2, <2>3 DEF CreatePod
<1>3. CASE UpdatePod
  <2>1. pod # None /\ wanted' = wanted /\ dump' = dump
    BY <1>3 DEF UpdatePod
  <2>2. PICK object \in {pod, Flag(wanted, pod.deleting)} : Handle(object) # None /\ pod' = Handle(object)
    BY <1>3 DEF UpdatePod, Flag
  <2>3. wanted \in Templates /\ Handle(wanted) # None /\ pod.deleting \in BOOLEAN
    BY <1>0, <2>1 DEF PodIn
  <2>4. Shape(pod) /\ pod.sandbox = wanted.sandbox /\ wanted.sandbox \in BOOLEAN
    BY <1>0, <2>1, PodFlagged
  <2>5. wanted \in Forms(wanted) /\ MutateSandboxPod(wanted) \in Forms(wanted) /\ Shape(wanted) /\ wanted.deleting = FALSE
    BY <2>3, FormFields DEF Forms
  <2>6. object.sandbox = wanted.sandbox /\ object.deleting = pod.deleting
    BY <2>2, <2>4, <2>5, FlagFields
  <2>7. CASE wanted.sandbox = FALSE \/ pod.deleting = TRUE
    <3>1. pod' = object
      <4>1. CASE wanted.sandbox = FALSE
        BY <2>2, <2>6, <4>1 DEF Handle
      <4>2. CASE wanted.sandbox = TRUE /\ pod.deleting = TRUE
        BY <2>2, <2>6, <4>2 DEF Handle, MutateSandboxPod
      <4>. QED BY <2>4, <2>7, <4>1, <4>2
    <3>2. CASE object = pod
      BY <1>0, <2>1, <3>1, <3>2
    <3>3. CASE object = Flag(wanted, pod.deleting)
      <4>1. pod'.deleting = pod.deleting
        BY <2>6, <3>1
      <4>2. \E f \in Forms(wanted) : pod' = Flag(f, pod'.deleting)
        BY <2>5, <3>1, <3>3, <4>1
      <4>3. ~(wanted.sandbox /\ ~pod'.deleting)
        BY <2>7, <4>1
      <4>. QED BY <1>0, <2>1, <2>3, <4>1, <4>2, <4>3 DEF PodIn
    <3>. QED BY <2>2, <3>2, <3>3
  <2>8. CASE wanted.sandbox = TRUE /\ pod.deleting = FALSE
    <3>1. object \in Forms(wanted)
      <4>1. pod = MutateSandboxPod(wanted)
        BY <1>0, <2>1, <2>8 DEF PodIn
      <4>2. Flag(wanted, pod.deleting) = wanted
        BY <2>5, <2>8, FlagSame
      <4>. QED BY <2>2, <4>1, <4>2 DEF Forms
    <3>2. PodIn(pod', wanted)
      BY <2>2, <2>3, <2>8, <3>1, AdmitForm, PodOfForm
    <3>. QED BY <1>0, <2>1, <3>2 DEF PodIn
  <2>. QED BY <2>3, <2>4, <2>7, <2>8
<1>4. CASE DeletePod
  <2>1. pod # None /\ pod' = Flag(pod, TRUE) /\ wanted' = wanted /\ dump' = dump
    BY <1>4 DEF DeletePod, Flag
  <2>2. Shape(pod) /\ \E f \in Forms(wanted) : Flag(pod, TRUE) = Flag(f, TRUE)
    BY <1>0, <2>1, PodFlagged
  <2>3. pod'.deleting = TRUE
    BY <2>1, <2>2, FlagFields
  <2>. QED BY <1>0, <2>1, <2>2, <2>3 DEF PodIn
<1>5. CASE PodGone
  <2>1. pod # None /\ pod' = None /\ dump' = [object |-> Flag(pod, FALSE), wanted |-> wanted]
    BY <1>5 DEF PodGone, Flag
  <2>2. PICK f \in Forms(wanted) : Flag(pod, FALSE) = Flag(f, FALSE)
    BY <1>0, <2>1, PodFlagged
  <2>3. wanted \in Templates /\ Handle(wanted) # None
    BY <1>0, <2>1 DEF PodIn
  <2>4. Flag(f, FALSE) = f
    BY <2>3, FormFields, FlagSame
  <2>5. dump'.object = f /\ dump'.wanted = wanted
    BY <2>1, <2>2, <2>4
  <2>. QED BY <2>1, <2>3, <2>5 DEF PodIn
<1>6. CASE CreateVMI \/ BootVM \/ VMDies
  BY <1>1, <1>6 DEF CreateVMI, BootVM, VMDies, apiVars
<1>7. CASE \E n \in Ctrs : Starting(n) \/ StartFails(n) \/ Exit(n)
  BY <1>1, <1>7 DEF Starting, StartFails, Exit, StartContainer, Check, Probe, Mkfs, Mount, Bind, StartProcess, apiVars
<1>8. CASE UNCHANGED vars
  BY <1>1, <1>8 DEF vars
<1>. QED BY <1>2, <1>3, <1>4, <1>5, <1>6, <1>7, <1>8 DEF Next

\* MutateSandboxPod leaves an admitted Pod as it is, whoever writes it and
\* however often: snapshot, probes, volumes and mounts.
THEOREM AdmissionIsStableHolds == Spec => []AdmissionIsStable
<1>1. AdmitInv => AdmissionIsStable
  <2>. SUFFICES ASSUME AdmitInv, pod # None, pod.sandbox, ~pod.deleting PROVE MutateSandboxPod(pod) = pod
    BY DEF AdmissionIsStable
  <2>1. PodIn(pod, wanted)
    BY DEF AdmitInv, PodIn
  <2>2. wanted \in Templates /\ pod = MutateSandboxPod(wanted)
    BY <2>1, PodFlagged DEF PodIn
  <2>. QED BY <2>2, TemplatesAssumption, NoneAssumption, MutateOnce
<1>. QED BY <1>1, AdmitInit, AdmitStep, PTL DEF Spec

-----------------------------------------------------------------------------
(* What is taken out of a Pod comes back.                                  *)

\* What CaptureStrippedVolumes takes from a container and from a Pod.
Taken(c, D) == Only(c.mounts, {m \in Elems(c.mounts) : m.vol \in D})
TakenVolumes(t) == Only(t.volumes, {v \in Elems(t.volumes) : IsStrippedVolume(v)})
Mounting(t) == Only(t.ctrs, {c \in Elems(t.ctrs) : Taken(c, Stripped(t)) # <<>>})
Entry(c, D) == [container |-> c.name, init |-> c.init, mounts |-> Taken(c, D)]
Entries(t) == [i \in DOMAIN Mounting(t) |-> Entry(Mounting(t)[i], Stripped(t))]

\* CaptureStrippedVolumes takes that.
LEMMA CaptureIs ==
    ASSUME NEW t
    PROVE  CaptureStrippedVolumes(t).volumes = TakenVolumes(t) /\ CaptureStrippedVolumes(t).mounts = Entries(t)
<1>1. CaptureStrippedVolumes(t) = [volumes |-> TakenVolumes(t), mounts |-> Entries(t)]
  BY Zenon DEF CaptureStrippedVolumes, TakenVolumes, Entries, Mounting, Entry, Taken, Keep, Field
<1>. QED BY <1>1

\* f is the function that RestoreAll defines, up to n.
Restores(c, e, f, n) == f = [k \in 0 .. n |-> IF k = 0 THEN c ELSE RestoreMounts(f[k - 1], e[k])]

\* There is such a function.
LEMMA RestoresExists ==
    ASSUME NEW c, NEW X, NEW e \in Seq(X)
    PROVE  \E f : Restores(c, e, f, Len(e))
<1>. DEFINE T == {n \in Nat : \E f : Restores(c, e, f, n)}
<1>1. 0 \in T
  <2>1. Restores(c, e, [i \in 0 .. 0 |-> c], 0)
    BY DEF Restores
  <2>. QED BY <2>1
<1>2. \A n \in Nat : n \in T => n + 1 \in T
  <2>. SUFFICES ASSUME NEW n \in Nat, NEW f, Restores(c, e, f, n)
                PROVE  \E g : Restores(c, e, g, n + 1)
    OBVIOUS
  <2>. DEFINE g == [k \in 0 .. n + 1 |-> IF k = 0 THEN c ELSE RestoreMounts(f[k - 1], e[k])]
  <2>1. \A i \in 0 .. n : g[i] = f[i]
    <3>. TAKE i \in 0 .. n
    <3>1. f[i] = IF i = 0 THEN c ELSE RestoreMounts(f[i - 1], e[i])
      BY Zenon DEF Restores
    <3>2. i \in 0 .. n + 1
      OBVIOUS
    <3>. QED BY <3>1, <3>2, Zenon
  <2>2. \A i \in 0 .. n + 1 : i # 0 => i - 1 \in 0 .. n
    OBVIOUS
  <2>3. Restores(c, e, g, n + 1)
    BY <2>1, <2>2 DEF Restores
  <2>. QED BY <2>3
<1>. HIDE DEF T
<1>3. Len(e) \in T
  BY <1>1, <1>2, SetInduction, LenProperties
<1>. QED BY <1>3 DEF T

\* Entries that make r of c, or leave c as it is, and leave r as it is.
LEMMA RestoreAllOnce ==
    ASSUME NEW c, NEW r, NEW X, NEW e \in Seq(X),
           \A k \in 1 .. Len(e) : RestoreMounts(c, e[k]) \in {c, r} /\ RestoreMounts(r, e[k]) = r,
           c = r \/ \E k \in 1 .. Len(e) : RestoreMounts(c, e[k]) = r
    PROVE  RestoreAll(c, e) = r
<1>. DEFINE Q(f) == f = [k \in 0 .. Len(e) |-> IF k = 0 THEN c ELSE RestoreMounts(f[k - 1], e[k])]
<1>1. \E f : Q(f)
  <2>1. \E f : Restores(c, e, f, Len(e))
    BY RestoresExists
  <2>. QED BY <2>1, Zenon DEF Restores
<1>. DEFINE g == CHOOSE f : Q(f)
<1>2. Q(g)
  <2>. HIDE DEF Q
  <2>. QED BY <1>1, Zenon
<1>3. RestoreAll(c, e) = g[Len(e)]
  BY Zenon DEF RestoreAll
<1>4. \A i \in 0 .. Len(e) : g[i] = IF i = 0 THEN c ELSE RestoreMounts(g[i - 1], e[i])
  <2>. HIDE DEF g
  <2>. QED BY <1>2, Zenon
<1>. HIDE DEF g, Q
<1>5. g[0] = c /\ \A i \in 0 .. Len(e) - 1 : g[i + 1] = RestoreMounts(g[i], e[i + 1])
  <2>1. g[0] = c
    BY <1>4, LenProperties
  <2>2. ASSUME NEW i \in 0 .. Len(e) - 1 PROVE g[i + 1] = RestoreMounts(g[i], e[i + 1])
    <3>1. i + 1 \in 0 .. Len(e) /\ i + 1 # 0 /\ i + 1 - 1 = i
      BY LenProperties
    <3>. QED BY <1>4, <3>1
  <2>. QED BY <2>1, <2>2
<1>. DEFINE P(i) == g[i] \in {c, r} /\ (g[i] = r \/ (c # r /\ \A k \in 1 .. i : RestoreMounts(c, e[k]) = c))
            T == {i \in 0 .. Len(e) : P(i)}
<1>6. P(0)
  BY <1>5
<1>7. ASSUME NEW i \in 0 .. Len(e) - 1, P(i)
      PROVE  P(i + 1)
  <2>1. i + 1 \in 1 .. Len(e) /\ i \in Nat /\ \A k \in 1 .. i + 1 : k \in 1 .. i \/ k = i + 1
    BY LenProperties
  <2>2. g[i + 1] = RestoreMounts(g[i], e[i + 1])
    BY <1>5
  <2>3. CASE g[i] = r
    BY <2>1, <2>2, <2>3
  <2>4. CASE g[i] # r
    <3>1. g[i] = c /\ c # r /\ \A k \in 1 .. i : RestoreMounts(c, e[k]) = c
      BY <1>7, <2>4
    <3>2. g[i + 1] = RestoreMounts(c, e[i + 1])
      BY <2>2, <3>1
    <3>. QED BY <2>1, <3>1, <3>2
  <2>. QED BY <2>3, <2>4
<1>8. P(Len(e))
  <2>. HIDE DEF P
  <2>1. 0 \in T /\ \A i \in 0 .. Len(e) - 1 : i \in T => i + 1 \in T
    BY <1>6, <1>7, LenProperties
  <2>2. Len(e) \in T
    <3>. HIDE DEF T
    <3>. QED BY <2>1, UpTo, LenProperties
  <2>. QED BY <2>2
<1>. QED BY <1>3, <1>8

\* A container with its taken mounts put back.
BackRec(c, D) == CtrRec(c.name, c.init, Others(c, D) \o Taken(c, D), ProbeNow(c), c.cpu, c.mem, c.pages, c.vfs, c.gpu, c.ports)

\* The fields of a container with its mounts put back.
LEMMA BackFields ==
    ASSUME NEW c, NEW D
    PROVE  LET d == BackRec(c, D)
           IN  /\ d.name = c.name /\ d.init = c.init /\ d.mounts = Others(c, D) \o Taken(c, D) /\ d.probe = ProbeNow(c)
               /\ d.cpu = c.cpu /\ d.mem = c.mem /\ d.pages = c.pages /\ d.vfs = c.vfs /\ d.gpu = c.gpu /\ d.ports = c.ports
               /\ CtrShape(d)
<1>. DEFINE o == Others(c, D) \o Taken(c, D)
<1>. HIDE DEF o
<1>. QED BY DEF BackRec, CtrRec, CtrShape, o

\* The mounts that are taken from a container.
LEMMA TakenElems ==
    ASSUME NEW c, IsSeq(c.mounts), NEW D
    PROVE  IsSeq(Taken(c, D)) /\ Elems(Taken(c, D)) = {m \in Elems(c.mounts) : m.vol \in D}
<1>. DEFINE S == {m \in Elems(c.mounts) : m.vol \in D}
<1>1. S = {x \in Elems(c.mounts) : x \in S}
  OBVIOUS
<1>2. Taken(c, D) = Only(c.mounts, S)
  BY DEF Taken
<1>. HIDE DEF S
<1>3. QED BY <1>1, <1>2, KeepElems DEF S

\* A sequence without elements is empty.
LEMMA NoElems ==
    ASSUME NEW s, IsSeq(s)
    PROVE  (Elems(s) = {}) <=> (s = <<>>)
<1>1. s \in Seq(Elems(s))
  BY DEF IsSeq
<1>2. Len(s) \in Nat /\ DOMAIN s = 1 .. Len(s)
  BY <1>1, LenProperties
<1>3. ASSUME Elems(s) = {} PROVE s = <<>>
  <2>1. Len(s) = 0
    <3>. SUFFICES ASSUME Len(s) # 0 PROVE FALSE
      OBVIOUS
    <3>1. s[1] \in Elems(s)
      BY <1>2 DEF Elems
    <3>. QED BY <1>3, <3>1
  <2>. QED BY <1>1, <2>1, EmptySeq
<1>4. ASSUME s = <<>> PROVE Elems(s) = {}
  BY <1>4 DEF Elems
<1>. QED BY <1>3, <1>4

\* The mounts among ms that a container has not.
Absent(c, ms) == {m \in Elems(ms) : [vol |-> m.vol, dev |-> m.dev] \notin {[vol |-> x.vol, dev |-> x.dev] : x \in Elems(c.mounts)}}

\* RestoreMounts, field by field.
LEMMA RestoreIs ==
    ASSUME NEW c, CtrShape(c), NEW d, NEW D, c.name = d.name, c.init = d.init
    PROVE  RestoreMounts(c, Entry(d, D)) =
             CtrRec(c.name, c.init, c.mounts \o Only(Taken(d, D), Absent(c, Taken(d, D))), c.probe, c.cpu, c.mem, c.pages, c.vfs, c.gpu, c.ports)
<1>. DEFINE e == Entry(d, D)
            w == c.mounts \o Only(Taken(d, D), Absent(c, Taken(d, D)))
<1>1. e.container = d.name /\ e.init = d.init /\ e.mounts = Taken(d, D)
  BY DEF Entry
<1>. HIDE DEF e
<1>2. RestoreMounts(c, e) = [c EXCEPT !.mounts = w]
  BY <1>1, Zenon DEF RestoreMounts, Keep, Absent
<1>. HIDE DEF w
<1>3. [c EXCEPT !.mounts = w] = CtrRec(c.name, c.init, w, c.probe, c.cpu, c.mem, c.pages, c.vfs, c.gpu, c.ports)
  BY CtrMounts
<1>. QED BY <1>2, <1>3, Zenon DEF e, w

\* An entry of another container changes nothing.
LEMMA RestoreOther ==
    ASSUME NEW c, NEW d, NEW D, c.name # d.name
    PROVE  RestoreMounts(c, Entry(d, D)) = c
<1>. DEFINE e == Entry(d, D)
<1>1. e.container = d.name
  BY DEF Entry
<1>. HIDE DEF e
<1>2. RestoreMounts(c, e) = c
  BY <1>1, Zenon DEF RestoreMounts
<1>. QED BY <1>2 DEF e

\* Taken mounts are absent where the others are left, and come back whole.
LEMMA RestoreRest ==
    ASSUME NEW c, IsSeq(c.mounts), NEW D
    PROVE  RestoreMounts(RestRec(c, D), Entry(c, D)) = BackRec(c, D)
<1>. DEFINE d == RestRec(c, D)
            s == Taken(c, D)
<1>1. /\ d.name = c.name /\ d.init = c.init /\ d.mounts = Others(c, D) /\ d.probe = ProbeNow(c)
      /\ d.cpu = c.cpu /\ d.mem = c.mem /\ d.pages = c.pages /\ d.vfs = c.vfs /\ d.gpu = c.gpu /\ d.ports = c.ports
      /\ CtrShape(d)
  BY RestFields, Zenon
<1>2. IsSeq(s) /\ Elems(s) = {m \in Elems(c.mounts) : m.vol \in D} /\ Elems(Others(c, D)) = {m \in Elems(c.mounts) : m.vol \notin D}
  BY TakenElems, OthersElems
<1>. HIDE DEF d, s
<1>3. Elems(s) \subseteq Absent(d, s)
  <2>. SUFFICES ASSUME NEW m \in Elems(s), NEW x \in Elems(d.mounts), [vol |-> m.vol, dev |-> m.dev] = [vol |-> x.vol, dev |-> x.dev] PROVE FALSE
    BY DEF Absent
  <2>1. m.vol = x.vol
    OBVIOUS
  <2>. QED BY <1>1, <1>2, <2>1
<1>4. Only(s, Absent(d, s)) = s
  BY <1>2, <1>3, OnlyAll DEF IsSeq
<1>5. RestoreMounts(d, Entry(c, D)) =
             CtrRec(d.name, d.init, d.mounts \o Only(s, Absent(d, s)), d.probe, d.cpu, d.mem, d.pages, d.vfs, d.gpu, d.ports)
  BY <1>1, RestoreIs, Zenon DEF s
<1>. QED BY <1>1, <1>4, <1>5, Zenon DEF BackRec, d, s

\* The empty sequence adds nothing.
LEMMA ConcatNothing ==
    ASSUME NEW s, IsSeq(s)
    PROVE  s \o <<>> = s
  BY ConcatEmptySeq DEF IsSeq

\* The mounts of a container are those that stay and those that are taken.
LEMMA BackMounts ==
    ASSUME NEW c, IsSeq(c.mounts), NEW D
    PROVE  LET ms == Others(c, D) \o Taken(c, D)
           IN  IsSeq(ms) /\ Elems(ms) = Elems(c.mounts) /\ Len(ms) = Len(c.mounts)
<1>. DEFINE X == Elems(c.mounts)
            ms == Others(c, D) \o Taken(c, D)
<1>1. c.mounts \in Seq(X)
  BY DEF IsSeq
<1>2. Others(c, D) \in Seq(X) /\ Taken(c, D) \in Seq(X)
  BY <1>1, OnlyElems DEF Others, Taken
<1>3. Elems(Others(c, D)) = {m \in X : m.vol \notin D} /\ Elems(Taken(c, D)) = {m \in X : m.vol \in D}
  BY OthersElems, TakenElems
<1>4. ms \in Seq(X) /\ Len(ms) = Len(Others(c, D)) + Len(Taken(c, D))
  BY <1>2, ConcatProperties
<1>5. Elems(ms) = X
  <2>1. Elems(ms) = Elems(Others(c, D)) \cup Elems(Taken(c, D))
    <3>. HIDE DEF X
    <3>. QED BY <1>2, ElemsConcat, Zenon
  <2>. QED BY <1>3, <2>1
<1>6. Len(Others(c, D)) + Len(Taken(c, D)) = Len(c.mounts)
  BY <1>1, OnlyApart DEF Others, Taken
<1>. QED BY <1>4, <1>5, <1>6 DEF IsSeq

\* An entry that is put back already changes nothing.
LEMMA RestoreBack ==
    ASSUME NEW c, IsSeq(c.mounts), NEW D
    PROVE  RestoreMounts(BackRec(c, D), Entry(c, D)) = BackRec(c, D)
<1>. DEFINE d == BackRec(c, D)
            s == Taken(c, D)
<1>1. /\ d.name = c.name /\ d.init = c.init /\ d.mounts = Others(c, D) \o Taken(c, D)
      /\ CtrShape(d)
  BY BackFields, Zenon
<1>2. IsSeq(s) /\ Elems(s) \subseteq Elems(d.mounts) /\ IsSeq(d.mounts)
  <2>1. IsSeq(s) /\ Elems(s) \subseteq Elems(c.mounts)
    BY TakenElems
  <2>2. IsSeq(d.mounts) /\ Elems(d.mounts) = Elems(c.mounts)
    BY <1>1, BackMounts
  <2>. QED BY <2>1, <2>2
<1>. HIDE DEF d, s
<1>3. Absent(d, s) = {}
  BY <1>2 DEF Absent
<1>4. Only(s, Absent(d, s)) = <<>>
  <2>1. IsSeq(Only(s, {})) /\ Elems(Only(s, {})) = {}
    BY <1>2, KeepElems
  <2>. QED BY <1>3, <2>1, NoElems
<1>5. d.mounts \o Only(s, Absent(d, s)) = d.mounts
  BY <1>2, <1>4, ConcatNothing
<1>6. RestoreMounts(d, Entry(c, D)) =
             CtrRec(d.name, d.init, d.mounts \o Only(s, Absent(d, s)), d.probe, d.cpu, d.mem, d.pages, d.vfs, d.gpu, d.ports)
  BY <1>1, RestoreIs, Zenon DEF s
<1>. QED BY <1>1, <1>5, <1>6, Zenon DEF CtrShape, d

\* A snapshot has an entry for each container with something taken, and no other.
LEMMA EntriesSeq ==
    ASSUME NEW t, Manifest(t)
    PROVE  /\ Entries(t) \in Seq(Elems(Entries(t)))
           /\ \A k \in 1 .. Len(Entries(t)) : \E d \in Elems(t.ctrs) : Entries(t)[k] = Entry(d, Stripped(t))
           /\ \A d \in Elems(t.ctrs) : Taken(d, Stripped(t)) # <<>> =>
                 \E k \in 1 .. Len(Entries(t)) : Entries(t)[k] = Entry(d, Stripped(t))
<1>. DEFINE D == Stripped(t)
            S == {c \in Elems(t.ctrs) : Taken(c, D) # <<>>}
            s == Mounting(t)
            e == Entries(t)
<1>1. IsSeq(s) /\ Elems(s) = S
  <2>1. S = {x \in Elems(t.ctrs) : x \in S}
    OBVIOUS
  <2>2. s = Only(t.ctrs, S)
    BY DEF Mounting
  <2>. HIDE DEF S, s
  <2>. QED BY <2>1, <2>2, KeepElems DEF Manifest
<1>2. Len(s) \in Nat /\ DOMAIN s = 1 .. Len(s)
  BY <1>1, LenProperties DEF IsSeq
<1>3. e = [i \in 1 .. Len(s) |-> Entry(s[i], D)]
  BY <1>2, Zenon DEF Entries
<1>. HIDE DEF e, s, D
<1>4. e \in Seq(Elems(e)) /\ Len(e) = Len(s)
  <2>1. DOMAIN e = 1 .. Len(s)
    BY <1>3
  <2>2. e = [i \in 1 .. Len(s) |-> e[i]] /\ \A i \in 1 .. Len(s) : e[i] \in Elems(e)
    BY <1>3 DEF Elems
  <2>3. e \in [1 .. Len(s) -> Elems(e)]
    BY <2>2
  <2>. QED BY <1>2, <2>3, SeqDef, LenProperties
<1>5. \A k \in 1 .. Len(s) : e[k] = Entry(s[k], D)
  BY <1>3, Zenon
<1>6. \A k \in 1 .. Len(s) : s[k] \in S
  BY <1>1, <1>2 DEF Elems
<1>7. \A d \in S : \E k \in 1 .. Len(s) : s[k] = d
  BY <1>1, <1>2 DEF Elems
<1>8. \A k \in 1 .. Len(e) : \E d \in Elems(t.ctrs) : e[k] = Entry(d, D)
  BY <1>4, <1>5, <1>6
<1>9. \A d \in Elems(t.ctrs) : Taken(d, D) # <<>> => \E k \in 1 .. Len(e) : e[k] = Entry(d, D)
  BY <1>4, <1>5, <1>7
<1>. QED BY <1>4, <1>8, <1>9, Zenon DEF D, e

\* The entries of a snapshot put back what was taken from a container.
LEMMA CtrRestored ==
    ASSUME NEW t, Manifest(t), NEW c \in Elems(t.ctrs)
    PROVE  /\ RestoreAll(RestRec(c, Stripped(t)), Entries(t)) = BackRec(c, Stripped(t))
           /\ RestoreAll(BackRec(c, Stripped(t)), Entries(t)) = BackRec(c, Stripped(t))
<1>. DEFINE D == Stripped(t)
            e == Entries(t)
            b == BackRec(c, D)
            d == RestRec(c, D)
<1>1. IsSeq(c.mounts) /\ d.name = c.name /\ b.name = c.name
  <2>1. IsSeq(c.mounts)
    BY DEF Manifest, ValidCtr
  <2>2. d.name = c.name /\ b.name = c.name
    BY RestFields, BackFields, Zenon
  <2>. QED BY <2>1, <2>2
<1>2. e \in Seq(Elems(e))
  BY EntriesSeq
<1>3. ASSUME NEW k \in 1 .. Len(e)
      PROVE  RestoreMounts(d, e[k]) \in {d, b} /\ RestoreMounts(b, e[k]) = b
  <2>1. PICK x \in Elems(t.ctrs) : e[k] = Entry(x, D)
    BY EntriesSeq
  <2>2. CASE x = c
    BY <1>1, <2>1, <2>2, RestoreRest, RestoreBack
  <2>3. CASE x # c
    <3>1. x.name # c.name
      BY <2>3, ManifestNames
    <3>. QED BY <1>1, <2>1, <3>1, RestoreOther
  <2>. QED BY <2>2, <2>3
<1>4. d = b \/ \E k \in 1 .. Len(e) : RestoreMounts(d, e[k]) = b
  <2>1. CASE Taken(c, D) # <<>>
    <3>1. PICK k \in 1 .. Len(e) : e[k] = Entry(c, D)
      BY <2>1, EntriesSeq
    <3>. QED BY <1>1, <3>1, RestoreRest
  <2>2. CASE Taken(c, D) = <<>>
    <3>1. Others(c, D) \o Taken(c, D) = Others(c, D)
      BY <1>1, <2>2, OthersElems, ConcatNothing
    <3>. QED BY <3>1, Zenon DEF BackRec, RestRec
  <2>. QED BY <2>1, <2>2
<1>. HIDE DEF d, b, e, D
<1>5. RestoreAll(d, e) = b
  BY <1>2, <1>3, <1>4, RestoreAllOnce
<1>6. RestoreAll(b, e) = b
  BY <1>2, <1>3, RestoreAllOnce
<1>. QED BY <1>5, <1>6 DEF d, b, e, D

\* The volumes and containers of a manifest, in the order in which they come back.
BackVolumes(t) == OtherVolumes(t) \o TakenVolumes(t)
BackCtrs(t) == [i \in DOMAIN t.ctrs |-> BackRec(t.ctrs[i], Stripped(t))]
WholeRec(p, t) == PodRec(p.sandbox, p.deleting, p.label, p.finalizer, p.snapshot, p.placement, p.rootfs, p.tee, p.nad, p.claims, BackVolumes(t), BackCtrs(t))

\* The fields of a Pod with everything put back.
LEMMA WholeFields ==
    ASSUME NEW p, NEW t
    PROVE  LET q == WholeRec(p, t)
           IN  /\ q.sandbox = p.sandbox /\ q.deleting = p.deleting /\ q.label = p.label /\ q.finalizer = p.finalizer
               /\ q.snapshot = p.snapshot
               /\ q.placement = p.placement /\ q.rootfs = p.rootfs /\ q.tee = p.tee /\ q.nad = p.nad /\ q.claims = p.claims
               /\ q.volumes = BackVolumes(t) /\ q.ctrs = BackCtrs(t)
               /\ Shape(q)
  BY DEF WholeRec, PodRec, Shape

\* The volumes that are taken out of the Pod.
LEMMA TakenVolumesElems ==
    ASSUME NEW t, IsSeq(t.volumes)
    PROVE  IsSeq(TakenVolumes(t)) /\ Elems(TakenVolumes(t)) = {v \in Elems(t.volumes) : IsStrippedVolume(v)}
<1>. DEFINE S == {v \in Elems(t.volumes) : IsStrippedVolume(v)}
<1>1. S = {x \in Elems(t.volumes) : x \in S}
  OBVIOUS
<1>2. TakenVolumes(t) = Only(t.volumes, S)
  BY DEF TakenVolumes
<1>. HIDE DEF S
<1>3. QED BY <1>1, <1>2, KeepElems DEF S

\* All volumes come back, each once.
LEMMA BackVolumesElems ==
    ASSUME NEW t, IsSeq(t.volumes)
    PROVE  IsSeq(BackVolumes(t)) /\ Elems(BackVolumes(t)) = Elems(t.volumes) /\ Len(BackVolumes(t)) = Len(t.volumes)
<1>. DEFINE X == Elems(t.volumes)
            O == OtherVolumes(t)
            T == TakenVolumes(t)
<1>1. t.volumes \in Seq(X)
  BY DEF IsSeq
<1>2. O \in Seq(X) /\ T \in Seq(X)
  BY <1>1, OnlyElems DEF OtherVolumes, TakenVolumes, Keep
<1>3. Elems(O) = {v \in X : ~IsStrippedVolume(v)} /\ Elems(T) = {v \in X : IsStrippedVolume(v)}
  BY OtherVolumesElems, TakenVolumesElems
<1>4. Len(O) + Len(T) = Len(t.volumes)
  BY <1>1, OnlyApart DEF OtherVolumes, TakenVolumes, Keep
<1>. HIDE DEF O, T
<1>5. O \o T \in Seq(X) /\ Len(O \o T) = Len(O) + Len(T)
  BY <1>2, ConcatProperties
<1>6. Elems(O \o T) = X
  <2>1. Elems(O \o T) = Elems(O) \cup Elems(T)
    <3>. HIDE DEF X
    <3>. QED BY <1>2, ElemsConcat, Zenon
  <2>. QED BY <1>3, <2>1
<1>. QED BY <1>4, <1>5, <1>6 DEF BackVolumes, O, T, IsSeq

\* The volumes among s that a Pod has not.
Missing(p, s) == {v \in Elems(s) : v.name \notin NamesOf(p.volumes)}

\* A Pod is made of its fields.
LEMMA ShapeFields ==
    ASSUME NEW p, Shape(p)
    PROVE  \E sb, de, la, fi, sn, pl, ro, te, na, cl, vo, ct : p = PodRec(sb, de, la, fi, sn, pl, ro, te, na, cl, vo, ct)
  BY Zenon DEF Shape

\* RestoreVolumes, field by field.
LEMMA RestoreVolumesIs ==
    ASSUME NEW p, Shape(p), p.snapshot # None, NEW t, p.snapshot = CaptureStrippedVolumes(t),
           p.volumes \o Only(TakenVolumes(t), Missing(p, TakenVolumes(t))) = BackVolumes(t),
           [i \in DOMAIN p.ctrs |-> RestoreAll(p.ctrs[i], Entries(t))] = BackCtrs(t)
    PROVE  RestoreVolumes(p) = WholeRec(p, t)
<1>1. PICK sb, de, la, fi, sn, pl, ro, te, na, cl, vo, ct : p = PodRec(sb, de, la, fi, sn, pl, ro, te, na, cl, vo, ct)
  BY ShapeFields
<1>. DEFINE q == PodRec(sb, de, la, fi, sn, pl, ro, te, na, cl, vo, ct)
            V == BackVolumes(t)
            C == BackCtrs(t)
<1>2. p.snapshot.volumes = TakenVolumes(t) /\ p.snapshot.mounts = Entries(t)
  BY CaptureIs
<1>3. RestoreVolumes(p) = [p EXCEPT
            !.volumes = p.volumes \o Only(p.snapshot.volumes, Missing(p, p.snapshot.volumes)),
            !.ctrs = [i \in DOMAIN p.ctrs |-> RestoreAll(p.ctrs[i], p.snapshot.mounts)]]
  BY Zenon DEF RestoreVolumes, Missing, Keep
<1>. HIDE DEF q, V, C
<1>4. RestoreVolumes(p) = [q EXCEPT !.volumes = V, !.ctrs = C]
  <2>1. p.volumes \o Only(p.snapshot.volumes, Missing(p, p.snapshot.volumes)) = V
    BY <1>2 DEF V
  <2>2. [i \in DOMAIN p.ctrs |-> RestoreAll(p.ctrs[i], p.snapshot.mounts)] = C
    BY <1>2 DEF C
  <2>3. p = q
    BY <1>1 DEF q
  <2>. QED BY <1>3, <2>1, <2>2, <2>3
<1>5. RestoreVolumes(p) = PodRec(sb, de, la, fi, sn, pl, ro, te, na, cl, V, C)
  BY <1>4 DEF PodRec, q
<1>6. /\ q.sandbox = sb /\ q.deleting = de /\ q.label = la /\ q.finalizer = fi /\ q.snapshot = sn
      /\ q.placement = pl /\ q.rootfs = ro /\ q.tee = te /\ q.nad = na /\ q.claims = cl
  BY DEF PodRec, q
<1>. QED BY <1>1, <1>5, <1>6, Zenon DEF q, V, C, WholeRec

\* Restoring what the webhook has stripped, and restoring it again.
LEMMA Restored ==
    ASSUME NEW t, Manifest(t), NEW p, Shape(p), p.snapshot # None, p.snapshot = CaptureStrippedVolumes(t),
           p.volumes = OtherVolumes(t), p.ctrs = OtherCtrs(t)
    PROVE  RestoreVolumes(p) = WholeRec(p, t) /\ RestoreVolumes(RestoreVolumes(p)) = RestoreVolumes(p)
<1>. DEFINE O == OtherVolumes(t)
            T == TakenVolumes(t)
            q == WholeRec(p, t)
<1>1. /\ IsSeq(O) /\ Elems(O) = {v \in Elems(t.volumes) : ~IsStrippedVolume(v)}
      /\ IsSeq(T) /\ Elems(T) = {v \in Elems(t.volumes) : IsStrippedVolume(v)}
  BY OtherVolumesElems, TakenVolumesElems DEF Manifest
<1>2. IsSeq(BackVolumes(t)) /\ Elems(BackVolumes(t)) = Elems(t.volumes)
  BY BackVolumesElems DEF Manifest
<1>3. /\ q.snapshot = p.snapshot /\ q.volumes = BackVolumes(t) /\ q.ctrs = BackCtrs(t) /\ Shape(q)
      /\ WholeRec(q, t) = q
  <2>1. /\ q.sandbox = p.sandbox /\ q.deleting = p.deleting /\ q.label = p.label /\ q.finalizer = p.finalizer
        /\ q.snapshot = p.snapshot
        /\ q.placement = p.placement /\ q.rootfs = p.rootfs /\ q.tee = p.tee /\ q.nad = p.nad /\ q.claims = p.claims
        /\ q.volumes = BackVolumes(t) /\ q.ctrs = BackCtrs(t)
        /\ Shape(q)
    BY WholeFields, Zenon
  <2>. HIDE DEF q
  <2>2. WholeRec(q, t) = q
    BY <2>1, Zenon DEF WholeRec, Shape
  <2>. QED BY <2>1, <2>2
<1>. HIDE DEF O, T, q
<1>4. p.volumes \o Only(T, Missing(p, T)) = BackVolumes(t)
  <2>1. Elems(T) \subseteq Missing(p, T)
    <3>. SUFFICES ASSUME NEW v \in Elems(T), NEW w \in Elems(O), v.name = w.name PROVE FALSE
      BY DEF Missing, NamesOf, O
    <3>. QED BY <1>1, ManifestNames
  <2>2. Only(T, Missing(p, T)) = T
    BY <1>1, <2>1, OnlyAll DEF IsSeq
  <2>. QED BY <2>2 DEF BackVolumes, T
<1>5. q.volumes \o Only(T, Missing(q, T)) = BackVolumes(t)
  <2>1. Missing(q, T) = {}
    BY <1>1, <1>2, <1>3 DEF Missing, NamesOf
  <2>2. IsSeq(Only(T, {})) /\ Elems(Only(T, {})) = {}
    BY <1>1, KeepElems
  <2>3. Only(T, Missing(q, T)) = <<>>
    BY <2>1, <2>2, NoElems
  <2>. QED BY <1>2, <1>3, <2>3, ConcatNothing
<1>6. \A i \in DOMAIN t.ctrs : t.ctrs[i] \in Elems(t.ctrs)
  BY DEF Elems
<1>7. DOMAIN p.ctrs = DOMAIN t.ctrs /\ \A i \in DOMAIN t.ctrs : p.ctrs[i] = RestRec(t.ctrs[i], Stripped(t))
  <2>1. DOMAIN p.ctrs = DOMAIN t.ctrs /\ \A i \in DOMAIN t.ctrs : p.ctrs[i] = RewriteProbesToExec(DropVolumeRefs(t.ctrs[i], Stripped(t)))
    BY Zenon DEF OtherCtrs
  <2>. QED BY <2>1, ManifestCtr, RestIs
<1>8. [i \in DOMAIN p.ctrs |-> RestoreAll(p.ctrs[i], Entries(t))] = BackCtrs(t)
  <2>1. \A i \in DOMAIN t.ctrs : RestoreAll(p.ctrs[i], Entries(t)) = BackRec(t.ctrs[i], Stripped(t))
    BY <1>6, <1>7, CtrRestored
  <2>. QED BY <1>7, <2>1, Zenon DEF BackCtrs
<1>9. [i \in DOMAIN q.ctrs |-> RestoreAll(q.ctrs[i], Entries(t))] = BackCtrs(t)
  <2>1. DOMAIN q.ctrs = DOMAIN t.ctrs /\ \A i \in DOMAIN t.ctrs : q.ctrs[i] = BackRec(t.ctrs[i], Stripped(t))
    BY <1>3, Zenon DEF BackCtrs
  <2>2. \A i \in DOMAIN t.ctrs : RestoreAll(q.ctrs[i], Entries(t)) = BackRec(t.ctrs[i], Stripped(t))
    BY <1>6, <2>1, CtrRestored
  <2>. QED BY <2>1, <2>2, Zenon DEF BackCtrs
<1>10. RestoreVolumes(p) = q
  BY <1>4, <1>8, RestoreVolumesIs DEF q, T
<1>11. RestoreVolumes(q) = WholeRec(q, t)
  BY <1>3, <1>5, <1>9, RestoreVolumesIs DEF T
<1>. QED BY <1>3, <1>10, <1>11 DEF q

\* All mounts come back.
LEMMA BackHasMounts ==
    ASSUME NEW t, Manifest(t), NEW p, p.ctrs = BackCtrs(t)
    PROVE  HasMounts(p) = HasMounts(t)
<1>1. DOMAIN p.ctrs = DOMAIN t.ctrs /\ \A i \in DOMAIN t.ctrs : p.ctrs[i] = BackRec(t.ctrs[i], Stripped(t))
  BY Zenon DEF BackCtrs
<1>2. \A i \in DOMAIN t.ctrs : p.ctrs[i].name = t.ctrs[i].name /\ Elems(p.ctrs[i].mounts) = Elems(t.ctrs[i].mounts)
  <2>. TAKE i \in DOMAIN t.ctrs
  <2>. DEFINE c == t.ctrs[i]
              d == BackRec(c, Stripped(t))
  <2>1. IsSeq(c.mounts)
    BY DEF Manifest, ValidCtr, Elems
  <2>2. d.name = c.name /\ d.mounts = Others(c, Stripped(t)) \o Taken(c, Stripped(t))
    BY BackFields, Zenon
  <2>3. Elems(d.mounts) = Elems(c.mounts)
    BY <2>1, <2>2, BackMounts
  <2>. QED BY <1>1, <2>2, <2>3
<1>. DEFINE M(c) == {[ctr |-> c.name, mount |-> m] : m \in Elems(c.mounts)}
<1>3. \A i \in DOMAIN t.ctrs : M(p.ctrs[i]) = M(t.ctrs[i])
  BY <1>2, Zenon
<1>4. HasMounts(p) = UNION {M(c) : c \in Elems(p.ctrs)} /\ HasMounts(t) = UNION {M(c) : c \in Elems(t.ctrs)}
  BY Zenon DEF HasMounts
<1>. HIDE DEF M
<1>5. {M(c) : c \in Elems(p.ctrs)} = {M(c) : c \in Elems(t.ctrs)}
  BY <1>1, <1>3, Zenon DEF Elems
<1>. QED BY <1>4, <1>5

\* A Pod with its volumes restored has those of its manifest.
LEMMA AdmittedIsWhole ==
    ASSUME NEW p, p # None, NEW w, PodIn(p, w)
    PROVE  /\ w \in Templates
           /\ Shape(RestoreVolumes(p)) /\ RestoreVolumes(p).rootfs = w.rootfs
           /\ \/ RestoreVolumes(p) = p /\ p.volumes = w.volumes /\ p.ctrs = w.ctrs
              \/ RestoreVolumes(p).volumes = BackVolumes(w) /\ RestoreVolumes(p).ctrs = BackCtrs(w)
           /\ RestoreVolumes(RestoreVolumes(p)) = RestoreVolumes(p)
<1>1. w \in Templates /\ Manifest(w)
  BY TemplatesAssumption DEF PodIn
<1>2. PICK f \in Forms(w) : p = Flag(f, p.deleting)
  BY DEF PodIn
<1>3. Shape(f) /\ f.rootfs = w.rootfs
  BY <1>1, FormFields
<1>4. p.snapshot = f.snapshot /\ p.volumes = f.volumes /\ p.ctrs = f.ctrs /\ p.rootfs = f.rootfs /\ Shape(p)
  BY <1>2, <1>3, FlagFields
<1>5. CASE f.snapshot = None /\ f.volumes = w.volumes /\ f.ctrs = w.ctrs
  <2>1. RestoreVolumes(p) = p
    BY <1>4, <1>5 DEF RestoreVolumes
  <2>. QED BY <1>1, <1>3, <1>4, <1>5, <2>1
<1>6. CASE f.snapshot = CaptureStrippedVolumes(w) /\ f.snapshot # None /\ f.volumes = OtherVolumes(w) /\ f.ctrs = OtherCtrs(w)
  <2>1. RestoreVolumes(p) = WholeRec(p, w) /\ RestoreVolumes(RestoreVolumes(p)) = RestoreVolumes(p)
    BY <1>1, <1>4, <1>6, Restored
  <2>2. Shape(WholeRec(p, w)) /\ WholeRec(p, w).rootfs = p.rootfs /\ WholeRec(p, w).volumes = BackVolumes(w) /\ WholeRec(p, w).ctrs = BackCtrs(w)
    BY WholeFields, Zenon
  <2>. QED BY <1>1, <1>3, <1>4, <2>1, <2>2
<1>. QED BY <1>1, <1>5, <1>6, FormFields

\* RestoreVolumes gives back every volume and every mount of the manifest,
\* none twice, and changes nothing the second time.
THEOREM RestoreIsWholeHolds == Spec => []RestoreIsWhole
<1>1. AdmitInv => RestoreIsWhole
  <2>. SUFFICES ASSUME AdmitInv, pod # None
                PROVE  LET p == RestoreVolumes(pod)
                       IN  /\ Elems(p.volumes) = Elems(wanted.volumes)
                           /\ Len(p.volumes) = Len(wanted.volumes)
                           /\ HasMounts(p) = HasMounts(wanted)
                           /\ RestoreVolumes(p) = p
    BY DEF RestoreIsWhole
  <2>. DEFINE p == RestoreVolumes(pod)
  <2>1. PodIn(pod, wanted)
    BY DEF AdmitInv, PodIn
  <2>2. /\ wanted \in Templates /\ RestoreVolumes(p) = p
        /\ \/ p = pod /\ pod.volumes = wanted.volumes /\ pod.ctrs = wanted.ctrs
           \/ p.volumes = BackVolumes(wanted) /\ p.ctrs = BackCtrs(wanted)
    BY <2>1, AdmittedIsWhole
  <2>. HIDE DEF p
  <2>3. CASE p = pod /\ pod.volumes = wanted.volumes /\ pod.ctrs = wanted.ctrs
    <3>1. HasMounts(p) = HasMounts(wanted)
      BY <2>3 DEF HasMounts
    <3>. QED BY <2>2, <2>3, <3>1 DEF p
  <2>4. CASE p.volumes = BackVolumes(wanted) /\ p.ctrs = BackCtrs(wanted)
    <3>1. Manifest(wanted)
      BY <2>2, TemplatesAssumption
    <3>2. HasMounts(p) = HasMounts(wanted)
      BY <2>4, <3>1, BackHasMounts
    <3>3. Elems(p.volumes) = Elems(wanted.volumes) /\ Len(p.volumes) = Len(wanted.volumes)
      BY <2>4, <3>1, BackVolumesElems DEF Manifest
    <3>. QED BY <2>2, <3>2, <3>3 DEF p
  <2>. QED BY <2>2, <2>3, <2>4
<1>. QED BY <1>1, AdmitInit, AdmitStep, PTL DEF Spec

-----------------------------------------------------------------------------
(* What the shim asks for, and the disks it is found on.                   *)

\* The mounts that a container of a manifest wants made in the guest, and the requests for them.
Wants(w, n) ==
    {m \in Elems(CtrOf(w, n).mounts) :
        LET v == VolumeOf(w, m.vol)
        IN  IsStrippedVolume(v) /\ v.name # w.rootfs /\ ~(m.dev /\ v.kind = "emptyDir")}
Request(w, m) == GuestMountFor(VolumeOf(w, m.vol), m)
Asked(w, n) == {Request(w, m) : m \in Wants(w, n)}

\* VolumeOf finds a volume by its name.
LEMMA VolumeOfIs ==
    ASSUME NEW t, Manifest(t), NEW v \in Elems(t.volumes)
    PROVE  VolumeOf(t, v.name) = v
<1>1. VolumeOf(t, v.name) \in Elems(t.volumes) /\ VolumeOf(t, v.name).name = v.name
  BY Zenon DEF VolumeOf
<1>. QED BY <1>1, ManifestNames, Zenon

\* VolumeOf finds a volume of the name.
LEMMA VolumeOfName ==
    ASSUME NEW t, Manifest(t), NEW x \in NamesOf(t.volumes)
    PROVE  VolumeOf(t, x) \in Elems(t.volumes) /\ VolumeOf(t, x).name = x
<1>1. PICK v \in Elems(t.volumes) : v.name = x
  BY DEF NamesOf
<1>. QED BY <1>1, Zenon DEF VolumeOf

\* CtrOf finds the container of the name.
LEMMA CtrOfName ==
    ASSUME NEW t, Manifest(t), NEW n \in CtrNames(t)
    PROVE  /\ CtrOf(t, n) \in Elems(t.ctrs) /\ CtrOf(t, n).name = n
           /\ \A c \in Elems(t.ctrs) : c.name = n => CtrOf(t, n) = c
           /\ ValidCtr(CtrOf(t, n), t)
<1>1. CtrOf(t, n) \in Elems(t.ctrs) /\ CtrOf(t, n).name = n
  <2>1. PICK c \in Elems(t.ctrs) : c.name = n
    BY DEF CtrNames
  <2>. QED BY <2>1, Zenon DEF CtrOf
<1>. QED BY <1>1, ManifestNames DEF Manifest

\* A mount that is wanted, and its volume.
LEMMA WantsIs ==
    ASSUME NEW t, Manifest(t), NEW n \in CtrNames(t), NEW m \in Wants(t, n)
    PROVE  /\ m \in Elems(CtrOf(t, n).mounts)
           /\ m.vol \in NamesOf(t.volumes) /\ m.vol \in Vols /\ m.dev \in BOOLEAN /\ m.ro \in BOOLEAN
           /\ LET v == VolumeOf(t, m.vol)
              IN  v \in Elems(t.volumes) /\ v.name = m.vol /\ v.name # t.rootfs /\ IsStrippedVolume(v)
                    /\ ~(m.dev /\ v.kind = "emptyDir") /\ ValidVolume(v)
           /\ \A o \in Wants(t, n) : o.path = m.path => o = m
<1>1. ValidCtr(CtrOf(t, n), t)
  BY CtrOfName
<1>2. m \in Elems(CtrOf(t, n).mounts)
  BY DEF Wants
<1>3. m.vol \in NamesOf(t.volumes) /\ m.dev \in BOOLEAN /\ m.ro \in BOOLEAN
  BY <1>1, <1>2 DEF ValidCtr
<1>4. VolumeOf(t, m.vol) \in Elems(t.volumes) /\ VolumeOf(t, m.vol).name = m.vol
  BY <1>3, VolumeOfName
<1>5. ValidVolume(VolumeOf(t, m.vol))
  BY <1>4 DEF Manifest
<1>6. m.vol \in Vols
  BY <1>4, <1>5 DEF ValidVolume
<1>7. \A o \in Wants(t, n) : o.path = m.path => o = m
  <2>. SUFFICES ASSUME NEW o \in Wants(t, n), o.path = m.path PROVE o = m
    OBVIOUS
  <2>1. o \in Elems(CtrOf(t, n).mounts)
    BY DEF Wants
  <2>. QED BY <1>1, <1>2, <2>1 DEF ValidCtr
<1>8. LET v == VolumeOf(t, m.vol) IN v.name # t.rootfs /\ IsStrippedVolume(v) /\ ~(m.dev /\ v.kind = "emptyDir")
  BY Zenon DEF Wants
<1>. QED BY <1>2, <1>3, <1>4, <1>5, <1>6, <1>7, <1>8, Zenon

\* The request for a mount that is wanted.
LEMMA RequestIs ==
    ASSUME NEW t, Manifest(t), NEW n \in CtrNames(t), NEW m \in Wants(t, n)
    PROVE  LET g == Request(t, m)
               v == VolumeOf(t, m.vol)
           IN  /\ g \in Asked(t, n)
               /\ g.vol = m.vol /\ g.path = m.path /\ g.ro \in BOOLEAN
               /\ g.kind = (IF v.kind = "emptyDir" THEN "tmpfs" ELSE IF m.dev THEN "block" ELSE "virtio-blk")
               /\ v.kind # "emptyDir" => g.serial = DiskSerial(m.vol)
               /\ v.kind = "pvc" /\ v.ro => g.ro
<1>. DEFINE v == VolumeOf(t, m.vol)
<1>1. v.name = m.vol /\ m.dev \in BOOLEAN /\ m.ro \in BOOLEAN /\ v.ro \in BOOLEAN
  BY WantsIs DEF ValidVolume
<1>2. Request(t, m) \in Asked(t, n)
  BY DEF Asked
<1>. HIDE DEF v
<1>3. Request(t, m) = GuestMountFor(v, m)
  BY DEF Request, v
<1>. DEFINE r == (~m.dev /\ m.ro) \/ (v.kind = "pvc" /\ v.ro)
            k == IF v.kind = "emptyDir" THEN "tmpfs" ELSE IF m.dev THEN "block" ELSE "virtio-blk"
            s == IF v.kind = "emptyDir" THEN None ELSE DiskSerial(v.name)
<1>4. r \in BOOLEAN /\ (v.kind = "pvc" /\ v.ro => r)
  BY <1>1, Zenon
<1>5. Request(t, m) = [vol |-> v.name, path |-> m.path, kind |-> k, serial |-> s, ro |-> r]
  BY <1>3, Zenon DEF GuestMountFor
<1>6. v.kind # "emptyDir" => s = DiskSerial(m.vol)
  BY <1>1
<1>. HIDE DEF r, s, k
<1>7. Request(t, m).vol = v.name /\ Request(t, m).path = m.path /\ Request(t, m).kind = k /\ Request(t, m).serial = s /\ Request(t, m).ro = r
  BY <1>5
<1>8. k = (IF v.kind = "emptyDir" THEN "tmpfs" ELSE IF m.dev THEN "block" ELSE "virtio-blk")
  BY DEF k
<1>. QED BY <1>1, <1>2, <1>4, <1>6, <1>7, <1>8, Zenon DEF v

\* The elements of a sequence that is mapped.
LEMMA MapElems ==
    ASSUME NEW s, IsSeq(s), NEW g
    PROVE  LET f == [i \in DOMAIN s |-> g[s[i]]]
           IN  f \in Seq({g[x] : x \in Elems(s)}) /\ Elems(f) = {g[x] : x \in Elems(s)} /\ IsSeq(f)
<1>. DEFINE f == [i \in DOMAIN s |-> g[s[i]]]
            X == {g[x] : x \in Elems(s)}
<1>1. s \in Seq(Elems(s))
  BY DEF IsSeq
<1>2. DOMAIN s = 1 .. Len(s) /\ Len(s) \in Nat
  BY <1>1, LenProperties
<1>3. \A i \in 1 .. Len(s) : f[i] \in X
  BY <1>2 DEF Elems
<1>4. f = [i \in 1 .. Len(s) |-> f[i]]
  BY <1>2
<1>5. f \in Seq(X)
  <2>. HIDE DEF f, X
  <2>1. f \in [1 .. Len(s) -> X]
    BY <1>3, <1>4, Zenon
  <2>. QED BY <1>2, <2>1, SeqDef
<1>6. Elems(f) = X
  BY Zenon DEF Elems
<1>. QED BY <1>5, <1>6, Zenon DEF IsSeq

\* Only gives a sequence.
LEMMA SubSeqIsSeq ==
    ASSUME NEW s, IsSeq(s), NEW S
    PROVE  IsSeq(Only(s, S)) /\ Only(s, S) \in Seq(Elems(s) \cap S) /\ Elems(Only(s, S)) = Elems(s) \cap S
<1>1. s \in Seq(Elems(s))
  BY DEF IsSeq
<1>2. Only(s, S) \in Seq(Elems(s)) /\ Elems(Only(s, S)) = Elems(s) \cap S
  BY <1>1, OnlyElems
<1>3. ASSUME NEW q \in Seq(Elems(s)) PROVE q \in Seq(Elems(q))
  <2>1. \A i \in 1 .. Len(q) : q[i] \in Elems(q)
    BY LenProperties DEF Elems
  <2>. QED BY <2>1, SeqDef, LenProperties
<1>. QED BY <1>2, <1>3 DEF IsSeq

\* The requests the shim sends, for a Pod with the volumes and mounts of its manifest.
LEMMA AskedIs ==
    ASSUME NEW t, Manifest(t), NEW n \in CtrNames(t), NEW p, p.rootfs = t.rootfs, Elems(p.volumes) = Elems(t.volumes),
           IsSeq(CtrOf(p, n).mounts), Elems(CtrOf(p, n).mounts) = Elems(CtrOf(t, n).mounts)
    PROVE  IsSeq(GuestMountsFor(p, n)) /\ Elems(GuestMountsFor(p, n)) = Asked(t, n)
<1>. DEFINE c == CtrOf(p, n)
            volume(m) == {v \in Elems(p.volumes) : v.name = m.vol /\ v.name # p.rootfs}
            wants(m) == \E v \in volume(m) : IsStrippedVolume(v) /\ ~(m.dev /\ v.kind = "emptyDir")
            of(m) == GuestMountFor(CHOOSE v \in volume(m) : TRUE, m)
            plain == Only(c.mounts, {m \in Elems(c.mounts) : ~m.dev /\ wants(m)})
            devs == Only(c.mounts, {m \in Elems(c.mounts) : m.dev /\ wants(m)})
            g == [m \in Elems(c.mounts) |-> Request(t, m)]
<1>1. GuestMountsFor(p, n) = [i \in DOMAIN plain |-> of(plain[i])] \o [i \in DOMAIN devs |-> of(devs[i])]
  BY Zenon DEF GuestMountsFor, CtrOf, Field, Keep
<1>2. ASSUME NEW m \in Elems(c.mounts)
      PROVE  /\ wants(m) <=> m \in Wants(t, n)
             /\ wants(m) => of(m) = Request(t, m)
             /\ m.dev \in BOOLEAN
  <2>. DEFINE v == VolumeOf(t, m.vol)
  <2>1. m.vol \in NamesOf(t.volumes) /\ m.dev \in BOOLEAN
    BY CtrOfName DEF ValidCtr
  <2>2. v \in Elems(t.volumes) /\ v.name = m.vol
    BY <2>1, VolumeOfName
  <2>3. \A w \in Elems(p.volumes) : w.name = m.vol => w = v
    BY <2>2, ManifestNames
  <2>4. m \in Wants(t, n) <=> IsStrippedVolume(v) /\ v.name # t.rootfs /\ ~(m.dev /\ v.kind = "emptyDir")
    BY Zenon DEF Wants
  <2>. HIDE DEF v
  <2>5. CASE v.name # p.rootfs
    <3>1. volume(m) = {v}
      BY <2>2, <2>3, <2>5
    <3>. HIDE DEF volume
    <3>2. (CHOOSE x \in volume(m) : TRUE) = v
      <4>1. (CHOOSE x \in volume(m) : TRUE) \in volume(m)
        BY <3>1, Zenon
      <4>. QED BY <3>1, <4>1, Zenon
    <3>3. wants(m) <=> IsStrippedVolume(v) /\ ~(m.dev /\ v.kind = "emptyDir")
      BY <3>1, Zenon
    <3>4. of(m) = Request(t, m)
      BY <3>2, Zenon DEF Request, v
    <3>. QED BY <2>1, <2>4, <2>5, <3>3, <3>4, Zenon
  <2>6. CASE v.name = p.rootfs
    <3>1. volume(m) = {}
      BY <2>3, <2>6
    <3>. QED BY <2>1, <2>4, <2>6, <3>1, Zenon
  <2>. QED BY <2>5, <2>6, Zenon
<1>. HIDE DEF c, wants, of, volume
<1>3. IsSeq(c.mounts)
  BY DEF c
<1>4. IsSeq(plain) /\ Elems(plain) = {m \in Elems(c.mounts) : ~m.dev /\ wants(m)}
  BY <1>3, KeepElems, Zenon
<1>5. IsSeq(devs) /\ Elems(devs) = {m \in Elems(c.mounts) : m.dev /\ wants(m)}
  BY <1>3, KeepElems, Zenon
<1>. HIDE DEF plain, devs
<1>6. \A i \in DOMAIN plain : plain[i] \in Elems(c.mounts) /\ of(plain[i]) = g[plain[i]]
  BY <1>2, <1>4, Zenon DEF Elems
<1>7. \A i \in DOMAIN devs : devs[i] \in Elems(c.mounts) /\ of(devs[i]) = g[devs[i]]
  BY <1>2, <1>5, Zenon DEF Elems
<1>. DEFINE f == [i \in DOMAIN plain |-> g[plain[i]]]
            h == [i \in DOMAIN devs |-> g[devs[i]]]
<1>8. GuestMountsFor(p, n) = f \o h
  <2>1. [i \in DOMAIN plain |-> of(plain[i])] = f /\ [i \in DOMAIN devs |-> of(devs[i])] = h
    BY <1>6, <1>7, Zenon
  <2>. QED BY <1>1, <2>1, Zenon
<1>. DEFINE A == {g[x] : x \in Elems(plain)}
            B == {g[x] : x \in Elems(devs)}
<1>9. f \in Seq(A) /\ Elems(f) = A
  <2>. HIDE DEF g
  <2>. QED BY <1>4, MapElems
<1>10. h \in Seq(B) /\ Elems(h) = B
  <2>. HIDE DEF g
  <2>. QED BY <1>5, MapElems
<1>11. A \cup B = Asked(t, n)
  <2>1. A = {Request(t, m) : m \in Elems(plain)} /\ B = {Request(t, m) : m \in Elems(devs)}
    BY <1>4, <1>5, Zenon
  <2>2. Elems(plain) \cup Elems(devs) = Wants(t, n)
    <3>1. \A m : m \in Wants(t, n) => m \in Elems(c.mounts)
      BY DEF Wants, c
    <3>. QED BY <1>2, <1>4, <1>5, <3>1, Zenon
  <2>. HIDE DEF A, B
  <2>. QED BY <2>1, <2>2, Zenon DEF Asked
<1>. HIDE DEF f, h, A, B
<1>12. f \in Seq(A \cup B) /\ h \in Seq(A \cup B)
  BY <1>9, <1>10
<1>13. Elems(f \o h) = A \cup B
  BY <1>9, <1>10, <1>12, ElemsConcat
<1>14. f \o h \in Seq(A \cup B)
  BY <1>12, ConcatProperties
<1>. QED BY <1>8, <1>11, <1>13, <1>14 DEF IsSeq

\* The shim asks for what the manifest wants, whatever form of it the API server holds.
LEMMA ShimAsks ==
    ASSUME NEW p, p # None, NEW w, PodIn(p, w), NEW n \in CtrNames(p)
    PROVE  /\ n \in CtrNames(w)
           /\ IsSeq(GuestMountsFor(RestoreVolumes(p), n)) /\ Elems(GuestMountsFor(RestoreVolumes(p), n)) = Asked(w, n)
<1>. DEFINE q == RestoreVolumes(p)
<1>1. /\ w \in Templates /\ q.rootfs = w.rootfs
      /\ \/ q = p /\ p.volumes = w.volumes /\ p.ctrs = w.ctrs
         \/ q.volumes = BackVolumes(w) /\ q.ctrs = BackCtrs(w)
  BY AdmittedIsWhole
<1>2. Manifest(w)
  BY <1>1, TemplatesAssumption
<1>3. n \in CtrNames(w)
  <2>1. PICK f \in Forms(w) : p = Flag(f, p.deleting)
    BY DEF PodIn
  <2>2. Shape(f) /\ (f.ctrs = w.ctrs \/ f.ctrs = OtherCtrs(w))
    BY <1>1, FormFields
  <2>3. p.ctrs = w.ctrs \/ p.ctrs = OtherCtrs(w)
    BY <2>1, <2>2, FlagFields
  <2>4. CASE p.ctrs = OtherCtrs(w)
    <3>1. PICK i \in DOMAIN p.ctrs : p.ctrs[i].name = n
      BY DEF CtrNames, Elems
    <3>2. i \in DOMAIN w.ctrs /\ p.ctrs[i] = RewriteProbesToExec(DropVolumeRefs(w.ctrs[i], Stripped(w)))
      BY <2>4, <3>1, Zenon DEF OtherCtrs
    <3>3. p.ctrs[i] = RestRec(w.ctrs[i], Stripped(w))
      BY <1>2, <3>2, ManifestCtr, RestIs
    <3>4. RestRec(w.ctrs[i], Stripped(w)).name = w.ctrs[i].name
      BY RestFields, Zenon
    <3>5. w.ctrs[i].name = n
      BY <3>1, <3>3, <3>4
    <3>. QED BY <3>2, <3>5 DEF CtrNames, Elems
  <2>. QED BY <2>3, <2>4 DEF CtrNames
<1>. HIDE DEF q
<1>4. CASE q = p /\ p.volumes = w.volumes /\ p.ctrs = w.ctrs
  <2>1. CtrOf(q, n) = CtrOf(w, n)
    BY <1>4, Zenon DEF CtrOf
  <2>2. IsSeq(CtrOf(w, n).mounts)
    BY <1>2, <1>3, CtrOfName DEF ValidCtr
  <2>. QED BY <1>1, <1>2, <1>3, <1>4, <2>1, <2>2, AskedIs DEF q
<1>5. CASE q.volumes = BackVolumes(w) /\ q.ctrs = BackCtrs(w)
  <2>1. Elems(q.volumes) = Elems(w.volumes)
    BY <1>2, <1>5, BackVolumesElems DEF Manifest
  <2>2. PICK i \in DOMAIN w.ctrs : w.ctrs[i] = CtrOf(w, n) /\ w.ctrs[i].name = n
    BY <1>2, <1>3, CtrOfName DEF Elems
  <2>3. DOMAIN q.ctrs = DOMAIN w.ctrs /\ \A j \in DOMAIN w.ctrs : q.ctrs[j] = BackRec(w.ctrs[j], Stripped(w))
    BY <1>5, Zenon DEF BackCtrs
  <2>4. \A j \in DOMAIN w.ctrs : q.ctrs[j].name = w.ctrs[j].name
    <3>. TAKE j \in DOMAIN w.ctrs
    <3>1. BackRec(w.ctrs[j], Stripped(w)).name = w.ctrs[j].name
      BY BackFields, Zenon
    <3>. QED BY <2>3, <3>1
  <2>5. \A d \in Elems(q.ctrs) : d.name = n => d = q.ctrs[i]
    <3>. SUFFICES ASSUME NEW j \in DOMAIN w.ctrs, q.ctrs[j].name = n PROVE q.ctrs[j] = q.ctrs[i]
      BY <2>3 DEF Elems
    <3>1. w.ctrs[j] = w.ctrs[i]
      BY <1>2, <2>2, <2>4, ManifestNames DEF Elems
    <3>. QED BY <2>3, <3>1
  <2>6. q.ctrs[i] \in Elems(q.ctrs) /\ q.ctrs[i].name = n
    BY <2>2, <2>3, <2>4 DEF Elems
  <2>7. CtrOf(q, n) = q.ctrs[i]
    <3>1. CtrOf(q, n) \in Elems(q.ctrs) /\ CtrOf(q, n).name = n
      BY <2>6, Zenon DEF CtrOf
    <3>. QED BY <2>5, <3>1, Zenon
  <2>8. CtrOf(q, n) = BackRec(CtrOf(w, n), Stripped(w))
    BY <2>2, <2>3, <2>7
  <2>9. IsSeq(CtrOf(w, n).mounts)
    BY <1>2, <1>3, CtrOfName DEF ValidCtr
  <2>10. CtrOf(q, n).mounts = Others(CtrOf(w, n), Stripped(w)) \o Taken(CtrOf(w, n), Stripped(w))
    BY <2>8, BackFields, Zenon
  <2>11. IsSeq(CtrOf(q, n).mounts) /\ Elems(CtrOf(q, n).mounts) = Elems(CtrOf(w, n).mounts)
    BY <2>9, <2>10, BackMounts
  <2>. QED BY <1>1, <1>2, <1>3, <2>1, <2>11, AskedIs DEF q
<1>. QED BY <1>1, <1>4, <1>5

\* findDiskBySerial in a given VMI.
Find(vm, x) ==
    LET found == {i \in DOMAIN vm.disks : vm.disks[i].serial = x}
    IN  IF found = {} THEN None ELSE vm.disks[CHOOSE i \in found : \A j \in found : i <= j].claim

\* The disks a VMI of a manifest may have.
DisksOf(vm, w) ==
    /\ IsSeq(vm.disks)
    /\ \A d \in Elems(vm.disks) :
          \/ d.serial = UserRootfsSerial
          \/ \E v \in Elems(w.volumes) : v.kind = "pvc" /\ d.serial = DiskSerial(v.name) /\ d.claim = v.claim

\* No volume's serial is that of the rootfs disk: it begins with a v.
LEMMA SerialIsNotRoot ==
    ASSUME NEW name, IsSeq(name)
    PROVE  DiskSerial(name) # UserRootfsSerial
<1>. DEFINE kept == Only(name, {x \in Elems(name) : x \in Alnum})
            k == IF Len(kept) < SerialLen THEN Len(kept) ELSE SerialLen - 1
            s == SubSeq(kept, 1, k)
<1>1. UserRootfsSerial[1] = "userrootfs"
  BY DEF UserRootfsSerial
<1>2. DiskSerial(name) = IF kept = <<>> THEN <<"v", "d", "i", "s", "k">> ELSE <<"v">> \o s
  BY Zenon DEF DiskSerial, Keep
<1>3. IsSeq(kept)
  BY KeepElems, Zenon
<1>. HIDE DEF kept
<1>4. kept \in Seq(Elems(kept)) /\ Len(kept) \in Nat
  BY <1>3, LenProperties DEF IsSeq
<1>5. k \in 0 .. Len(kept)
  BY <1>4, SerialAssumption
<1>. HIDE DEF k
<1>6. s \in Seq(Elems(kept))
  BY <1>4, <1>5, SubSeqProperties
<1>. HIDE DEF s
<1>7. (<<"v">> \o s)[1] = "v"
  <2>. DEFINE X == Elems(kept) \cup {"v"}
  <2>1. <<"v">> \in Seq(X) /\ s \in Seq(X) /\ Len(<<"v">>) = 1 /\ <<"v">>[1] = "v"
    BY <1>6
  <2>. HIDE DEF X
  <2>2. Len(s) \in Nat
    BY <2>1, LenProperties
  <2>. QED BY <2>1, <2>2, ConcatProperties
<1>8. <<"v", "d", "i", "s", "k">>[1] = "v"
  OBVIOUS
<1>. QED BY <1>1, <1>2, <1>7, <1>8

\* What is found by a volume's serial is a claim of a volume with that serial.
LEMMA FoundIs ==
    ASSUME NEW w, Manifest(w), NEW vm, DisksOf(vm, w), NEW v \in Elems(w.volumes)
    PROVE  LET x == Find(vm, DiskSerial(v.name))
           IN  /\ x \in Claims \cup {None}
               /\ x # None => \E u \in Elems(w.volumes) : u.kind = "pvc" /\ DiskSerial(u.name) = DiskSerial(v.name) /\ x = u.claim
               /\ SerialsDiffer(w) /\ v.kind \in {"pvc", "ephemeral"} /\ x # None => v.kind = "pvc" /\ x = v.claim
<1>. DEFINE x == Find(vm, DiskSerial(v.name))
            found == {i \in DOMAIN vm.disks : vm.disks[i].serial = DiskSerial(v.name)}
            i == CHOOSE i \in found : \A j \in found : i <= j
<1>1. \A u \in Elems(w.volumes) : u.kind = "pvc" => u.claim \in Claims
  BY DEF Manifest, ValidVolume
<1>2. x # None => \E u \in Elems(w.volumes) : u.kind = "pvc" /\ DiskSerial(u.name) = DiskSerial(v.name) /\ x = u.claim
  <2>. SUFFICES ASSUME x # None PROVE \E u \in Elems(w.volumes) : u.kind = "pvc" /\ DiskSerial(u.name) = DiskSerial(v.name) /\ x = u.claim
    OBVIOUS
  <2>1. found # {} /\ x = vm.disks[i].claim
    BY Zenon DEF Find
  <2>2. found \subseteq Nat
    BY LenProperties DEF DisksOf, IsSeq
  <2>3. i \in found
    <3>. HIDE DEF found
    <3>1. \E k \in found : \A j \in found : k <= j
      BY <2>1, <2>2, Least
    <3>. QED BY <3>1, Zenon
  <2>. HIDE DEF i
  <2>4. vm.disks[i] \in Elems(vm.disks) /\ vm.disks[i].serial = DiskSerial(v.name)
    BY <2>3 DEF Elems
  <2>5. DiskSerial(v.name) # UserRootfsSerial
    BY SerialIsNotRoot DEF Manifest, ValidVolume
  <2>6. PICK u \in Elems(w.volumes) : u.kind = "pvc" /\ vm.disks[i].serial = DiskSerial(u.name) /\ vm.disks[i].claim = u.claim
    BY <2>4, <2>5, Zenon DEF DisksOf
  <2>. QED BY <2>1, <2>4, <2>6
<1>. HIDE DEF x
<1>3. x \in Claims \cup {None}
  BY <1>1, <1>2
<1>4. SerialsDiffer(w) /\ v.kind \in {"pvc", "ephemeral"} /\ x # None => v.kind = "pvc" /\ x = v.claim
  BY <1>2 DEF SerialsDiffer
<1>. QED BY <1>2, <1>3, <1>4 DEF x

\* Translate makes disks of the volumes of the manifest.
LEMMA DisksIs ==
    ASSUME NEW w, Manifest(w), NEW p, IsSeq(p.volumes), Elems(p.volumes) = Elems(w.volumes), RestoreVolumes(p) = p
    PROVE  DisksOf(Translate(p), w)
<1>. DEFINE root == ApplyUserRootfs(p)
            own == Only(p.volumes, {v \in Elems(p.volumes) : v.kind = "pvc" /\ v.name # p.rootfs})
            g == [v \in Elems(p.volumes) |-> [serial |-> DiskSerial(v.name), claim |-> v.claim, ro |-> v.ro]]
            f == [i \in DOMAIN own |-> g[own[i]]]
            D == {g[v] : v \in Elems(own)}
<1>1. Translate(p).disks = ApplyVolumes(p)
  BY DEF Translate
<1>2. IsSeq(own) /\ Elems(own) = {v \in Elems(p.volumes) : v.kind = "pvc" /\ v.name # p.rootfs}
  BY KeepElems, Zenon
<1>3. ApplyVolumes(p) = <<root>> \o [i \in DOMAIN own |-> [serial |-> DiskSerial(own[i].name), claim |-> own[i].claim, ro |-> own[i].ro]]
  BY Zenon DEF ApplyVolumes, Field, Keep
<1>. HIDE DEF own
<1>4. \A i \in DOMAIN own : own[i] \in Elems(p.volumes)
  BY <1>2, Zenon DEF Elems
<1>5. ApplyVolumes(p) = <<root>> \o f
  BY <1>3, <1>4, Zenon
<1>6. root.serial = UserRootfsSerial
  BY DEF ApplyUserRootfs
<1>7. \A d \in D : \E v \in Elems(w.volumes) : v.kind = "pvc" /\ d.serial = DiskSerial(v.name) /\ d.claim = v.claim
  BY <1>2
<1>8. f \in Seq(D) /\ Elems(f) = D
  <2>1. IsSeq(own)
    BY <1>2
  <2>. HIDE DEF g
  <2>2. \A s : IsSeq(s) => [i \in DOMAIN s |-> g[s[i]]] \in Seq({g[x] : x \in Elems(s)}) /\ Elems([i \in DOMAIN s |-> g[s[i]]]) = {g[x] : x \in Elems(s)}
    BY MapElems
  <2>. QED BY <2>1, <2>2, Zenon
<1>. HIDE DEF f, D, root
<1>9. <<root>> \in Seq(D \cup {root}) /\ f \in Seq(D \cup {root}) /\ Elems(<<root>>) = {root}
  <2>1. <<root>> \in Seq(D \cup {root}) /\ f \in Seq(D \cup {root}) /\ DOMAIN <<root>> = {1} /\ <<root>>[1] = root
    BY <1>8
  <2>. QED BY <2>1, Zenon DEF Elems
<1>10. Elems(ApplyVolumes(p)) = {root} \cup D /\ ApplyVolumes(p) \in Seq(D \cup {root})
  <2>. DEFINE X == D \cup {root}
  <2>. DEFINE one == <<root>>
  <2>1. one \in Seq(X) /\ f \in Seq(X)
    BY <1>9
  <2>. HIDE DEF X, one
  <2>2. Elems(one \o f) = Elems(one) \cup Elems(f) /\ one \o f \in Seq(X)
    BY <2>1, ElemsConcat, ConcatProperties
  <2>. QED BY <1>5, <1>8, <1>9, <2>2, Zenon DEF X, one
<1>11. {root} \cup D = D \cup {root}
  OBVIOUS
<1>12. IsSeq(ApplyVolumes(p))
  BY <1>10, <1>11 DEF IsSeq
<1>. QED BY <1>1, <1>6, <1>7, <1>10, <1>12 DEF DisksOf

\* So it does of an admitted Pod.
LEMMA VMIDisks ==
    ASSUME NEW p, p # None, NEW w, PodIn(p, w)
    PROVE  DisksOf(Translate(RestoreVolumes(p)), w)
<1>. DEFINE q == RestoreVolumes(p)
<1>1. /\ w \in Templates /\ RestoreVolumes(q) = q
      /\ \/ q = p /\ p.volumes = w.volumes /\ p.ctrs = w.ctrs
         \/ q.volumes = BackVolumes(w) /\ q.ctrs = BackCtrs(w)
  BY AdmittedIsWhole
<1>. HIDE DEF q
<1>2. Manifest(w) /\ IsSeq(w.volumes)
  BY <1>1, TemplatesAssumption DEF Manifest
<1>3. IsSeq(q.volumes) /\ Elems(q.volumes) = Elems(w.volumes)
  BY <1>1, <1>2, BackVolumesElems
<1>. QED BY <1>1, <1>2, <1>3, DisksIs DEF q

-----------------------------------------------------------------------------
(* The guest: one start after the other, or at once.                       *)

\* What is mounted: a claim or a tmpfs, read-only or not, at a place in the order.
Insts == [src : Claims \cup {"tmpfs"}, ro : BOOLEAN, at : Nat]
Pcs == {"waiting", "check", "probe", "mkfs", "blind", "mount", "bind", "running", "done"}
Ended == {"running", "done"}
First == {"probe", "mkfs", "blind", "mount"}
CtrSet(A) ==
    [pc : Pcs, lost : BOOLEAN,
     todo : Seq({g \in A : g.kind # "block"}), blocks : Seq({g \in A : g.kind = "block"}),
     binds : SUBSET [path : {g.path : g \in A}, inst : Insts]]

\* The instance i is the disk or the tmpfs of the volume x.
Backs(vm, w, x, i) ==
    LET v == VolumeOf(w, x)
    IN  /\ v.kind = "emptyDir" => i.src = "tmpfs"
        /\ v.kind # "emptyDir" => i.src = Find(vm, DiskSerial(x)) /\ i.src # None
        /\ v.kind = "pvc" /\ v.ro => i.ro

\* What a start has at each of its points.
AtPc(c, vm, mt) ==
    /\ c.pc \in First \cup {"bind"} => c.todo # <<>>
    /\ c.pc \in {"probe", "mkfs", "blind"} => Head(c.todo).kind # "tmpfs"
    /\ c.pc \in {"mkfs", "blind", "mount"} /\ Head(c.todo).kind # "tmpfs" => Find(vm, Head(c.todo).serial) # None
    /\ c.pc = "bind" => mt[Head(c.todo).vol] # <<>>
    /\ c.pc \in {"waiting", "running", "done"} => c.todo = <<>> /\ c.blocks = <<>>

\* A mount that nothing the agent does later covers.
Stays(w, m) == ~Hidden(m) /\ (m.dev => NodesDiffer(w))

\* A mount that is wanted, and stays, is still to be made, or it is bound.
Covered(c, n, vm, w, mt) ==
    c.pc # "waiting" /\ ~c.lost =>
        \A m \in Wants(w, n) : Stays(w, m) =>
            \/ Request(w, m) \in Elems(c.todo) \cup Elems(c.blocks)
            \/ \E b \in c.binds : b.path = m.path /\ IF m.dev THEN c.pc \in Ended /\ Backs(vm, w, m.vol, b.inst) ELSE b.inst \in Elems(mt[m.vol])

\* A guest belongs to a VMI, a VMI to a Pod; without a guest nothing is mounted.
GuestLinks ==
    /\ up \in BOOLEAN
    /\ up => vmi # None
    /\ vmi # None => pod # None /\ DisksOf(vmi, wanted)
    /\ ~up => mounted = [v \in Vols |-> <<>>] /\ ctr = [n \in Ctrs |-> NewCtr]
\* The types of the guest, with requests that are among those the manifest wants.
GuestTypes ==
    /\ mounted \in [Vols -> Seq(Insts)]
    /\ fs \in [Claims -> 0 .. 2]
    /\ ctr = [n \in Ctrs |-> ctr[n]]
    /\ \A n \in Ctrs : ctr[n] \in CtrSet(Asked(wanted, n))
\* Each start is where it should be, and misses no mount.
GuestStarts ==
    \A n \in Ctrs :
        /\ ctr[n].pc # "waiting" => n \in CtrNames(wanted)
        /\ AtPc(ctr[n], vmi, mounted)
        /\ Covered(ctr[n], n, vmi, wanted, mounted)
\* Whatever is mounted for a volume is what the manifest wants there.
MountsBacked == \A v \in Vols : \A i \in Elems(mounted[v]) : Backs(vmi, wanted, v, i)
\* Two starts about to make the first mount of a volume, or one that finds it made, have raced.
GuestRaces ==
    /\ \A n, k \in Ctrs :
          n # k /\ ctr[n].pc \in First /\ ctr[k].pc \in First /\ Head(ctr[n].todo).vol = Head(ctr[k].todo).vol =>
              Head(ctr[n].todo).vol \in raced
    /\ \A n \in Ctrs : ctr[n].pc \in First /\ mounted[Head(ctr[n].todo).vol] # <<>> => Head(ctr[n].todo).vol \in raced
    /\ \A v \in Vols \ raced : Len(mounted[v]) <= 1
\* A disk about to be formatted without a race is blank.
GuestBlanks ==
    SerialsDiffer(wanted) /\ ClaimsDiffer(wanted) =>
        \A n \in Ctrs : ctr[n].pc = "mkfs" /\ Head(ctr[n].todo).vol \notin raced => fs[Find(vmi, Head(ctr[n].todo).serial)] = 0
\* All of it together.
GuestInv == GuestLinks /\ GuestTypes /\ GuestStarts /\ MountsBacked /\ GuestRaces /\ GuestBlanks

\* A request and the volume it is for.
LEMMA AskedVolume ==
    ASSUME NEW t, Manifest(t), NEW n \in CtrNames(t), NEW g \in Asked(t, n)
    PROVE  LET v == VolumeOf(t, g.vol)
           IN  /\ v \in Elems(t.volumes) /\ v.name = g.vol /\ g.vol \in Vols /\ v.kind \in {"pvc", "ephemeral", "emptyDir"}
               /\ g.kind \in {"tmpfs", "block", "virtio-blk"} /\ g.ro \in BOOLEAN
               /\ g.kind = "tmpfs" <=> v.kind = "emptyDir"
               /\ g.kind # "tmpfs" => g.serial = DiskSerial(g.vol)
               /\ v.kind = "pvc" /\ v.ro => g.ro
<1>1. PICK m \in Wants(t, n) : g = Request(t, m)
  BY DEF Asked
<1>. DEFINE v == VolumeOf(t, m.vol)
<1>2. v \in Elems(t.volumes) /\ v.name = m.vol /\ m.vol \in Vols /\ v.kind \in {"pvc", "ephemeral", "emptyDir"} /\ m.dev \in BOOLEAN
  BY WantsIs DEF IsStrippedVolume
<1>3. /\ g.vol = m.vol /\ g.path = m.path /\ g.ro \in BOOLEAN
      /\ g.kind = (IF v.kind = "emptyDir" THEN "tmpfs" ELSE IF m.dev THEN "block" ELSE "virtio-blk")
      /\ v.kind # "emptyDir" => g.serial = DiskSerial(m.vol)
      /\ v.kind = "pvc" /\ v.ro => g.ro
  BY <1>1, RequestIs, Zenon
<1>. HIDE DEF v
<1>4. v = VolumeOf(t, g.vol)
  BY <1>3 DEF v
<1>5. g.kind \in {"tmpfs", "block", "virtio-blk"} /\ (g.kind = "tmpfs" <=> v.kind = "emptyDir")
  BY <1>2, <1>3
<1>. QED BY <1>2, <1>3, <1>4, <1>5, Zenon

\* A request and the mount it is for.
LEMMA AskedMount ==
    ASSUME NEW t, Manifest(t), NEW n \in CtrNames(t), NEW m \in Wants(t, n)
    PROVE  LET g == Request(t, m)
           IN  /\ g \in Asked(t, n) /\ g.vol = m.vol /\ g.path = m.path /\ m.dev \in BOOLEAN
               /\ m.dev <=> g.kind = "block"
<1>. DEFINE v == VolumeOf(t, m.vol)
            g == Request(t, m)
<1>1. m.dev \in BOOLEAN /\ ~(m.dev /\ v.kind = "emptyDir")
  BY WantsIs
<1>2. /\ g \in Asked(t, n) /\ g.vol = m.vol /\ g.path = m.path
      /\ g.kind = (IF v.kind = "emptyDir" THEN "tmpfs" ELSE IF m.dev THEN "block" ELSE "virtio-blk")
  BY RequestIs, Zenon
<1>. HIDE DEF v, g
<1>3. m.dev <=> g.kind = "block"
  <2>1. CASE m.dev = TRUE
    BY <1>1, <1>2, <2>1
  <2>2. CASE m.dev = FALSE
    BY <1>2, <2>2
  <2>. QED BY <1>1, <2>1, <2>2
<1>. QED BY <1>1, <1>2, <1>3, Zenon DEF g

\* FindDiskBySerial is Find in the current VMI.
LEMMA FindIs == \A x : FindDiskBySerial(x) = Find(vmi, x)
  BY Zenon DEF FindDiskBySerial, Find

\* While a start is under way there are a Pod, its manifest and its disks.
LEMMA StartHas ==
    ASSUME AdmitInv, GuestLinks, GuestStarts, NEW n \in Ctrs, ctr[n].pc # "waiting"
    PROVE  /\ up = TRUE /\ vmi # None /\ pod # None /\ wanted \in Templates /\ Manifest(wanted) /\ DisksOf(vmi, wanted)
           /\ n \in CtrNames(wanted)
<1>1. up = TRUE
  <2>. SUFFICES ASSUME up = FALSE PROVE FALSE
    BY DEF GuestLinks
  <2>1. ctr[n] = NewCtr
    BY DEF GuestLinks
  <2>. QED BY <2>1 DEF NewCtr
<1>2. wanted \in Templates
  BY <1>1 DEF GuestLinks, AdmitInv
<1>. QED BY <1>1, <1>2, TemplatesAssumption DEF GuestLinks, GuestStarts

\* A container that has not started.
LEMMA NewIn == ASSUME NEW A PROVE NewCtr \in CtrSet(A)
  BY DEF NewCtr, CtrSet, Pcs

\* A guest that is new, or gone, satisfies the parts of GuestInv about its starts.
LEMMA Fresh ==
    ASSUME mounted = [v \in Vols |-> <<>>], ctr = [n \in Ctrs |-> NewCtr], fs \in [Claims -> 0 .. 2]
    PROVE  GuestTypes /\ GuestStarts /\ MountsBacked /\ GuestRaces /\ GuestBlanks
<1>1. \A n \in Ctrs : ctr[n] = NewCtr
  OBVIOUS
<1>2. NewCtr.pc = "waiting" /\ NewCtr.todo = <<>> /\ NewCtr.blocks = <<>>
  BY DEF NewCtr
<1>3. GuestTypes
  <2>1. mounted \in [Vols -> Seq(Insts)]
    OBVIOUS
  <2>. QED BY <1>1, <2>1, NewIn DEF GuestTypes
<1>4. GuestStarts
  BY <1>1, <1>2 DEF GuestStarts, AtPc, Covered, First
<1>5. MountsBacked
  BY DEF MountsBacked, Elems
<1>6. GuestRaces
  BY <1>1, <1>2 DEF GuestRaces, First
<1>7. GuestBlanks
  BY <1>1, <1>2 DEF GuestBlanks
<1>. QED BY <1>3, <1>4, <1>5, <1>6, <1>7

\* The same in the next state.
LEMMA FreshNext ==
    ASSUME (mounted = [v \in Vols |-> <<>>])', (ctr = [n \in Ctrs |-> NewCtr])', (fs \in [Claims -> 0 .. 2])'
    PROVE  (GuestTypes /\ GuestStarts /\ MountsBacked /\ GuestRaces /\ GuestBlanks)'
<1>1. \A n \in Ctrs : ctr'[n] = NewCtr
  OBVIOUS
<1>2. NewCtr.pc = "waiting" /\ NewCtr.todo = <<>> /\ NewCtr.blocks = <<>>
  BY DEF NewCtr
<1>3. GuestTypes'
  <2>1. mounted' \in [Vols -> Seq(Insts)]
    OBVIOUS
  <2>. QED BY <1>1, <2>1, NewIn DEF GuestTypes
<1>4. GuestStarts'
  BY <1>1, <1>2 DEF GuestStarts, AtPc, Covered, First
<1>5. MountsBacked'
  BY DEF MountsBacked, Elems
<1>6. GuestRaces'
  BY <1>1, <1>2 DEF GuestRaces, First
<1>7. GuestBlanks'
  BY <1>1, <1>2 DEF GuestBlanks
<1>. QED BY <1>3, <1>4, <1>5, <1>6, <1>7

\* GuestInv holds at the start.
LEMMA GuestInit == Init => GuestInv
<1>. SUFFICES ASSUME Init PROVE GuestInv
  OBVIOUS
<1>1. fs \in [Claims -> 0 .. 2]
  BY DEF Init
<1>2. GuestTypes /\ GuestStarts /\ MountsBacked /\ GuestRaces /\ GuestBlanks
  BY <1>1, Fresh DEF Init
<1>3. GuestLinks
  BY DEF GuestLinks, Init
<1>. QED BY <1>2, <1>3 DEF GuestInv

\* The steps of clients, the adaptor and KubeVirt.
LEMMA OutsideStep ==
    ASSUME AdmitInv, GuestInv,
           CreatePod \/ UpdatePod \/ DeletePod \/ PodGone \/ CreateVMI \/ BootVM \/ VMDies \/ UNCHANGED vars,
           AdmitInv'
    PROVE  GuestInv'
<1>. DEFINE Parts == GuestTypes /\ GuestStarts /\ MountsBacked /\ GuestRaces /\ GuestBlanks
<1>1. fs \in [Claims -> 0 .. 2]
  BY DEF GuestInv, GuestTypes
<1>2. CASE CreatePod
  <2>1. up = FALSE /\ vmi = None
    BY <1>2 DEF GuestInv, GuestLinks, CreatePod
  <2>2. mounted = [v \in Vols |-> <<>>] /\ ctr = [n \in Ctrs |-> NewCtr]
    BY <2>1 DEF GuestInv, GuestLinks
  <2>3. Parts'
    BY <1>1, <1>2, <2>2, FreshNext DEF CreatePod
  <2>4. GuestLinks'
    BY <1>2, <2>1, <2>2 DEF CreatePod, GuestLinks
  <2>. QED BY <2>3, <2>4 DEF GuestInv
<1>3. CASE UpdatePod
  <2>1. GuestLinks'
    BY <1>3 DEF UpdatePod, GuestInv, GuestLinks
  <2>2. Parts'
    BY <1>3 DEF UpdatePod, GuestInv, GuestTypes, GuestStarts, MountsBacked, GuestRaces, GuestBlanks
  <2>. QED BY <2>1, <2>2 DEF GuestInv
<1>4. CASE DeletePod
  <2>1. pod # None /\ pod' = Flag(pod, TRUE)
    BY <1>4 DEF DeletePod, Flag
  <2>2. pod' # None
    <3>1. PICK p \in Forms(wanted) : pod = Flag(p, pod.deleting)
      BY <2>1 DEF AdmitInv
    <3>2. wanted \in Templates
      BY <2>1 DEF AdmitInv
    <3>3. Shape(p)
      BY <3>2, FormFields
    <3>4. pod' = Flag(p, TRUE)
      <4>1. Flag(Flag(p, pod.deleting), TRUE) = Flag(p, TRUE)
        BY <3>3, FlagTwice, Zenon
      <4>. QED BY <2>1, <3>1, <4>1, Zenon
    <3>. QED BY <3>2, <3>4, NoneAssumption DEF Flag, Forms
  <2>3. GuestLinks'
    BY <1>4, <2>2 DEF DeletePod, GuestInv, GuestLinks
  <2>4. Parts'
    BY <1>4 DEF DeletePod, GuestInv, GuestTypes, GuestStarts, MountsBacked, GuestRaces, GuestBlanks
  <2>. QED BY <2>3, <2>4 DEF GuestInv
<1>5. CASE PodGone
  <2>1. Parts'
    BY <1>1, <1>5, FreshNext DEF PodGone, GuestDown
  <2>2. GuestLinks'
    BY <1>5 DEF PodGone, GuestDown, GuestLinks
  <2>. QED BY <2>1, <2>2 DEF GuestInv
<1>6. CASE CreateVMI
  <2>1. up = FALSE
    BY <1>6 DEF GuestInv, GuestLinks, CreateVMI
  <2>2. mounted = [v \in Vols |-> <<>>] /\ ctr = [n \in Ctrs |-> NewCtr]
    BY <2>1 DEF GuestInv, GuestLinks
  <2>3. Parts'
    BY <1>1, <1>6, <2>2, FreshNext DEF CreateVMI
  <2>4. vmi' = Translate(RestoreVolumes(pod)) /\ pod # None /\ UNCHANGED <<pod, wanted, up, mounted, ctr>>
    BY <1>6 DEF CreateVMI
  <2>5. DisksOf(vmi', wanted)
    <3>1. PodIn(pod, wanted)
      BY DEF AdmitInv, PodIn
    <3>. QED BY <2>4, <3>1, VMIDisks
  <2>6. GuestLinks'
    BY <2>1, <2>2, <2>4, <2>5 DEF GuestLinks
  <2>. QED BY <2>3, <2>6 DEF GuestInv
<1>7. CASE BootVM
  <2>1. GuestLinks'
    BY <1>7 DEF BootVM, apiVars, GuestInv, GuestLinks
  <2>2. Parts'
    BY <1>7 DEF BootVM, apiVars, GuestInv, GuestTypes, GuestStarts, MountsBacked, GuestRaces, GuestBlanks
  <2>. QED BY <2>1, <2>2 DEF GuestInv
<1>8. CASE VMDies
  <2>1. Parts'
    BY <1>1, <1>8, FreshNext DEF VMDies, GuestDown
  <2>2. GuestLinks'
    BY <1>8 DEF VMDies, GuestDown, GuestLinks
  <2>. QED BY <2>1, <2>2 DEF GuestInv
<1>9. CASE UNCHANGED vars
  <2>1. GuestLinks'
    BY <1>9 DEF vars, GuestInv, GuestLinks
  <2>2. Parts'
    BY <1>9 DEF vars, GuestInv, GuestTypes, GuestStarts, MountsBacked, GuestRaces, GuestBlanks
  <2>. QED BY <2>1, <2>2 DEF GuestInv
<1>. QED BY <1>2, <1>3, <1>4, <1>5, <1>6, <1>7, <1>8, <1>9

\* One container's start moves on, and nothing is mounted under volRoot.
LEMMA OneMoves ==
    ASSUME GuestInv, up = TRUE, pod # None, NEW n \in Ctrs, NEW c, ctr' = [ctr EXCEPT ![n] = c],
           UNCHANGED <<pod, wanted, vmi, up, mounted>>, fs' \in [Claims -> 0 .. 2],
           c \in CtrSet(Asked(wanted, n)), c.pc # "waiting" => n \in CtrNames(wanted),
           AtPc(c, vmi, mounted), Covered(c, n, vmi, wanted, mounted)
    PROVE  /\ GuestLinks' /\ GuestTypes' /\ GuestStarts' /\ MountsBacked'
           /\ ctr'[n] = c /\ \A k \in Ctrs \ {n} : ctr'[k] = ctr[k]
<1>1. ctr = [k \in Ctrs |-> ctr[k]]
  BY DEF GuestInv, GuestTypes
<1>2. ctr'[n] = c /\ (\A k \in Ctrs \ {n} : ctr'[k] = ctr[k]) /\ ctr' = [k \in Ctrs |-> ctr'[k]]
  BY <1>1
<1>3. GuestLinks'
  BY DEF GuestInv, GuestLinks
<1>4. GuestTypes'
  BY <1>2 DEF GuestInv, GuestTypes
<1>5. GuestStarts'
  <2>. SUFFICES ASSUME NEW k \in Ctrs
                PROVE  /\ ctr'[k].pc # "waiting" => k \in CtrNames(wanted)
                       /\ AtPc(ctr'[k], vmi, mounted)
                       /\ Covered(ctr'[k], k, vmi, wanted, mounted)
    BY Zenon DEF GuestStarts
  <2>1. CASE k = n
    BY <1>2, <2>1
  <2>2. CASE k # n
    BY <1>2, <2>2 DEF GuestInv, GuestStarts
  <2>. QED BY <2>1, <2>2
<1>6. MountsBacked'
  BY DEF GuestInv, MountsBacked
<1>. QED BY <1>2, <1>3, <1>4, <1>5, <1>6

\* Races, when the container does not come to the first mount of a volume.
LEMMA NoNewRace ==
    ASSUME GuestInv, NEW n \in Ctrs, NEW c, ctr'[n] = c,
           \A k \in Ctrs \ {n} : ctr'[k].pc = ctr[k].pc /\ ctr'[k].todo = ctr[k].todo,
           mounted' = mounted, raced' = raced,
           c.pc \in First => ctr[n].pc \in First /\ c.todo = ctr[n].todo
    PROVE  GuestRaces'
<1>1. \A k \in Ctrs : ctr'[k].pc \in First => ctr[k].pc \in First /\ ctr'[k].todo = ctr[k].todo
  OBVIOUS
<1>. QED BY <1>1 DEF GuestInv, GuestRaces

\* A step that brings nobody to mkfs keeps GuestBlanks.
LEMMA NoNewBlank ==
    ASSUME GuestInv, NEW n \in Ctrs, NEW c, ctr'[n] = c,
           \A k \in Ctrs \ {n} : ctr'[k].pc = ctr[k].pc /\ ctr'[k].todo = ctr[k].todo,
           UNCHANGED <<vmi, wanted, fs>>, raced \subseteq raced', c.pc # "mkfs"
    PROVE  GuestBlanks'
  BY DEF GuestInv, GuestBlanks

\* StartContainer keeps GuestInv.
LEMMA StartStep ==
    ASSUME AdmitInv, GuestInv, NEW n \in Ctrs, StartContainer(n)
    PROVE  GuestInv'
<1>. DEFINE A == Asked(wanted, n)
            begin(mounts, lost) == [ctr[n] EXCEPT
                      !.pc = "check", !.lost = lost,
                      !.todo = Keep(mounts, LAMBDA m : m.kind # "block"),
                      !.blocks = Keep(mounts, LAMBDA m : m.kind = "block")]
<1>1. /\ pod # None /\ up /\ n \in CtrNames(pod) /\ ctr[n].pc = "waiting"
      /\ UNCHANGED <<pod, wanted, vmi, up, mounted, raced, fs>>
  BY DEF StartContainer, apiVars
<1>2. PICK mounts, lost :
        /\ ctr' = [ctr EXCEPT ![n] = begin(mounts, lost)]
        /\ \/ mounts = GuestMountsFor(RestoreVolumes(pod), n) /\ lost = FALSE
           \/ mounts = <<>> /\ lost = TRUE
  BY Zenon DEF StartContainer
<1>3. n \in CtrNames(wanted) /\ IsSeq(mounts) /\ (lost = FALSE => Elems(mounts) = A) /\ Elems(mounts) \subseteq A /\ lost \in BOOLEAN
  <2>1. PodIn(pod, wanted)
    BY DEF AdmitInv, PodIn
  <2>2. /\ n \in CtrNames(wanted)
        /\ IsSeq(GuestMountsFor(RestoreVolumes(pod), n)) /\ Elems(GuestMountsFor(RestoreVolumes(pod), n)) = A
    BY <1>1, <2>1, ShimAsks, Zenon
  <2>3. IsSeq(<<>>) /\ Elems(<<>>) = {}
    BY DEF IsSeq, Elems
  <2>. QED BY <1>2, <2>2, <2>3
<1>. DEFINE P == {m \in Elems(mounts) : m.kind # "block"}
            B == {m \in Elems(mounts) : m.kind = "block"}
            todo == Only(mounts, P)
            blocks == Only(mounts, B)
            c == begin(mounts, lost)
<1>4. todo \in Seq({g \in A : g.kind # "block"}) /\ Elems(todo) = P
  <2>1. todo \in Seq(Elems(mounts) \cap P) /\ Elems(todo) = Elems(mounts) \cap P
    BY <1>3, SubSeqIsSeq
  <2>2. Elems(mounts) \cap P = P /\ P \subseteq {g \in A : g.kind # "block"}
    BY <1>3
  <2>. HIDE DEF P, todo, A
  <2>. QED BY <2>1, <2>2
<1>5. blocks \in Seq({g \in A : g.kind = "block"}) /\ Elems(blocks) = B
  <2>1. blocks \in Seq(Elems(mounts) \cap B) /\ Elems(blocks) = Elems(mounts) \cap B
    BY <1>3, SubSeqIsSeq
  <2>2. Elems(mounts) \cap B = B /\ B \subseteq {g \in A : g.kind = "block"}
    BY <1>3
  <2>. HIDE DEF B, blocks, A
  <2>. QED BY <2>1, <2>2
<1>6. c = [ctr[n] EXCEPT !.pc = "check", !.lost = lost, !.todo = todo, !.blocks = blocks]
  BY Zenon DEF Keep
<1>7. ctr[n] \in CtrSet(A)
  BY DEF GuestInv, GuestTypes
<1>8. Elems(mounts) = P \cup B
  OBVIOUS
<1>. HIDE DEF P, B, todo, blocks, c, A
<1>9. c \in CtrSet(A) /\ c.pc = "check" /\ c.lost = lost /\ c.todo = todo /\ c.blocks = blocks
  BY <1>3, <1>4, <1>5, <1>6, <1>7 DEF CtrSet, Pcs
<1>10. AtPc(c, vmi, mounted)
  BY <1>9 DEF AtPc, First
<1>11. Covered(c, n, vmi, wanted, mounted)
  <2>. SUFFICES ASSUME lost = FALSE, NEW m \in Wants(wanted, n) PROVE Request(wanted, m) \in Elems(c.todo) \cup Elems(c.blocks)
    BY <1>3, <1>9 DEF Covered
  <2>1. Request(wanted, m) \in A
    BY DEF A, Asked
  <2>. QED BY <1>3, <1>4, <1>5, <1>8, <1>9, <2>1
<1>12. up = TRUE /\ fs' \in [Claims -> 0 .. 2]
  BY <1>1 DEF GuestInv, GuestTypes, GuestLinks
<1>13. /\ GuestLinks' /\ GuestTypes' /\ GuestStarts' /\ MountsBacked'
       /\ ctr'[n] = c /\ \A k \in Ctrs \ {n} : ctr'[k] = ctr[k]
  <2>1. ctr' = [ctr EXCEPT ![n] = c]
    BY <1>2 DEF c
  <2>. QED BY <1>1, <1>3, <1>9, <1>10, <1>11, <1>12, <2>1, OneMoves DEF A
<1>14. GuestRaces'
  BY <1>1, <1>9, <1>13, NoNewRace DEF First
<1>15. GuestBlanks'
  BY <1>1, <1>9, <1>13, NoNewBlank
<1>. QED BY <1>13, <1>14, <1>15 DEF GuestInv

\* What the steps of the agent leave alone.
LEMMA CheckStep ==
    ASSUME AdmitInv, GuestInv, NEW n \in Ctrs, Check(n)
    PROVE  GuestInv'
<1>. DEFINE A == Asked(wanted, n)
            m == Head(ctr[n].todo)
            x == IF mounted[m.vol] # <<>> THEN "bind" ELSE IF m.kind = "tmpfs" THEN "mount" ELSE "probe"
            c == [ctr[n] EXCEPT !.pc = x]
<1>1. /\ ctr[n].pc = "check" /\ ctr[n].todo # <<>> /\ ctr' = [ctr EXCEPT ![n].pc = x]
      /\ raced' = IF mounted[m.vol] = <<>> /\ MountsFirst(m.vol) THEN raced \cup {m.vol} ELSE raced
      /\ UNCHANGED <<pod, wanted, vmi, up, mounted, fs>>
  BY DEF Check, Doing, Going, apiVars
<1>2. up = TRUE /\ pod # None /\ Manifest(wanted) /\ n \in CtrNames(wanted)
  BY <1>1, StartHas DEF GuestInv
<1>3. ctr[n] \in CtrSet(A) /\ Covered(ctr[n], n, vmi, wanted, mounted) /\ fs' \in [Claims -> 0 .. 2]
  BY <1>1 DEF GuestInv, GuestTypes, GuestStarts
<1>4. ctr' = [ctr EXCEPT ![n] = c]
  BY <1>1
<1>5. m \in A
  BY <1>1, <1>3 DEF CtrSet
<1>6. m.vol \in Vols /\ x \in Pcs
  BY <1>2, <1>5, AskedVolume DEF Pcs
<1>. HIDE DEF A, m, x
<1>7. c \in CtrSet(A) /\ c.pc = x /\ c.todo = ctr[n].todo /\ c.blocks = ctr[n].blocks /\ c.binds = ctr[n].binds /\ c.lost = ctr[n].lost
  BY <1>3, <1>6 DEF CtrSet
<1>. HIDE DEF c
<1>8. AtPc(c, vmi, mounted)
  BY <1>1, <1>7 DEF AtPc, First, m, x
<1>9. Covered(c, n, vmi, wanted, mounted)
  BY <1>1, <1>3, <1>7 DEF Covered, Ended
<1>10. /\ GuestLinks' /\ GuestTypes' /\ GuestStarts' /\ MountsBacked'
       /\ ctr'[n] = c /\ \A k \in Ctrs \ {n} : ctr'[k] = ctr[k]
  BY <1>1, <1>2, <1>3, <1>4, <1>7, <1>8, <1>9, OneMoves DEF A
<1>11. raced \subseteq raced' /\ c.pc # "mkfs"
  BY <1>1, <1>7 DEF x
<1>12. GuestBlanks'
  BY <1>1, <1>10, <1>11, NoNewBlank
<1>13. GuestRaces'
  <2>1. ASSUME NEW k \in Ctrs, k # n, c.pc \in First, ctr[k].pc \in First, Head(ctr[k].todo).vol = m.vol
        PROVE  m.vol \in raced'
    <3>1. MountsFirst(m.vol)
      BY <2>1 DEF MountsFirst, First
    <3>2. mounted[m.vol] = <<>>
      BY <1>7, <2>1 DEF x, First
    <3>. QED BY <1>1, <3>1, <3>2
  <2>2. c.pc \in First => mounted[m.vol] = <<>>
    BY <1>7 DEF x, First
  <2>3. Head(c.todo) = m
    BY <1>7 DEF m
  <2>4. ASSUME NEW i \in Ctrs, NEW k \in Ctrs, i # k, ctr'[i].pc \in First, ctr'[k].pc \in First,
               Head(ctr'[i].todo).vol = Head(ctr'[k].todo).vol
        PROVE  Head(ctr'[i].todo).vol \in raced'
    <3>1. CASE i = n
      BY <1>10, <2>1, <2>3, <2>4, <3>1
    <3>2. CASE k = n
      BY <1>10, <2>1, <2>3, <2>4, <3>2
    <3>3. CASE i # n /\ k # n
      BY <1>10, <1>11, <2>4, <3>3 DEF GuestInv, GuestRaces
    <3>. QED BY <3>1, <3>2, <3>3
  <2>5. ASSUME NEW i \in Ctrs, ctr'[i].pc \in First, mounted[Head(ctr'[i].todo).vol] # <<>>
        PROVE  Head(ctr'[i].todo).vol \in raced'
    <3>1. CASE i = n
      BY <1>10, <2>2, <2>3, <2>5, <3>1
    <3>2. CASE i # n
      BY <1>10, <1>11, <2>5, <3>2 DEF GuestInv, GuestRaces
    <3>. QED BY <3>1, <3>2
  <2>6. \A v \in Vols \ raced' : Len(mounted[v]) <= 1
    BY <1>11 DEF GuestInv, GuestRaces
  <2>. QED BY <1>1, <2>4, <2>5, <2>6 DEF GuestRaces
<1>. QED BY <1>10, <1>12, <1>13 DEF GuestInv

\* A container's start goes on to x with the rest of its state as it is.
LEMMA PcMoves ==
    ASSUME GuestInv, up = TRUE, pod # None, NEW n \in Ctrs, NEW x \in Pcs, ctr' = [ctr EXCEPT ![n].pc = x],
           UNCHANGED <<pod, wanted, vmi, up, mounted, raced>>, fs' \in [Claims -> 0 .. 2],
           n \in CtrNames(wanted), ctr[n].pc # "waiting", AtPc([ctr[n] EXCEPT !.pc = x], vmi, mounted),
           x \in First => ctr[n].pc \in First, ctr[n].pc \in Ended => x \in {"waiting", "done"}
    PROVE  /\ GuestLinks' /\ GuestTypes' /\ GuestStarts' /\ MountsBacked' /\ GuestRaces'
           /\ ctr'[n].pc = x /\ ctr'[n].todo = ctr[n].todo /\ \A k \in Ctrs \ {n} : ctr'[k] = ctr[k]
<1>. DEFINE A == Asked(wanted, n)
            c == [ctr[n] EXCEPT !.pc = x]
<1>1. ctr[n] \in CtrSet(A) /\ Covered(ctr[n], n, vmi, wanted, mounted)
  BY DEF GuestInv, GuestTypes, GuestStarts
<1>2. ctr' = [ctr EXCEPT ![n] = c]
  OBVIOUS
<1>. HIDE DEF A
<1>3. c \in CtrSet(A) /\ c.pc = x /\ c.todo = ctr[n].todo /\ c.blocks = ctr[n].blocks /\ c.binds = ctr[n].binds /\ c.lost = ctr[n].lost
  BY <1>1 DEF CtrSet
<1>4. AtPc(c, vmi, mounted)
  OBVIOUS
<1>. HIDE DEF c
<1>5. Covered(c, n, vmi, wanted, mounted)
  BY <1>1, <1>3 DEF Covered, Ended
<1>6. /\ GuestLinks' /\ GuestTypes' /\ GuestStarts' /\ MountsBacked'
      /\ ctr'[n] = c /\ \A k \in Ctrs \ {n} : ctr'[k] = ctr[k]
  BY <1>2, <1>3, <1>4, <1>5, OneMoves DEF A
<1>7. GuestRaces'
  BY <1>3, <1>6, NoNewRace
<1>. QED BY <1>3, <1>6, <1>7

\* A start that fails keeps GuestInv.
LEMMA FailedStep ==
    ASSUME GuestInv, up = TRUE, pod # None, NEW n \in Ctrs, Failed(n),
           UNCHANGED <<pod, wanted, vmi, up, mounted, raced, fs>>
    PROVE  GuestInv'
<1>. DEFINE A == Asked(wanted, n)
            c == [ctr[n] EXCEPT !.pc = "waiting", !.todo = <<>>, !.blocks = <<>>]
<1>1. ctr[n] \in CtrSet(A) /\ fs' \in [Claims -> 0 .. 2]
  BY DEF GuestInv, GuestTypes
<1>2. ctr' = [ctr EXCEPT ![n] = c]
  BY DEF Failed
<1>. HIDE DEF A
<1>3. c \in CtrSet(A) /\ c.pc = "waiting" /\ c.todo = <<>> /\ c.blocks = <<>>
  <2>. DEFINE e == <<>>
  <2>1. \A S : e \in Seq(S)
    OBVIOUS
  <2>2. c = [ctr[n] EXCEPT !.pc = "waiting", !.todo = e, !.blocks = e]
    OBVIOUS
  <2>. HIDE DEF c, e
  <2>3. c \in CtrSet(A) /\ c.pc = "waiting" /\ c.todo = e /\ c.blocks = e
    BY <1>1, <2>1, <2>2 DEF CtrSet, Pcs
  <2>. QED BY <2>3 DEF e
<1>. HIDE DEF c
<1>4. AtPc(c, vmi, mounted)
  BY <1>3 DEF AtPc, First
<1>5. Covered(c, n, vmi, wanted, mounted)
  BY <1>3 DEF Covered
<1>6. /\ GuestLinks' /\ GuestTypes' /\ GuestStarts' /\ MountsBacked'
      /\ ctr'[n] = c /\ \A k \in Ctrs \ {n} : ctr'[k] = ctr[k]
  BY <1>1, <1>2, <1>3, <1>4, <1>5, OneMoves DEF A
<1>7. GuestRaces'
  BY <1>3, <1>6, NoNewRace DEF First
<1>8. GuestBlanks'
  BY <1>3, <1>6, NoNewBlank
<1>. QED BY <1>6, <1>7, <1>8 DEF GuestInv

\* Probe keeps GuestInv.
LEMMA ProbeStep ==
    ASSUME AdmitInv, GuestInv, NEW n \in Ctrs, Probe(n)
    PROVE  GuestInv'
<1>. DEFINE m == Head(ctr[n].todo)
            dev == Find(vmi, m.serial)
<1>1. /\ ctr[n].pc = "probe" /\ ctr[n].todo # <<>>
      /\ \/ dev = None /\ Failed(n)
         \/ \E x \in {"mount", "mkfs", "blind"} : dev # None /\ ctr' = [ctr EXCEPT ![n].pc = x] /\ (x = "mkfs" => ~(fs[dev] > 0))
      /\ UNCHANGED <<pod, wanted, vmi, up, mounted, raced, fs>>
  BY FindIs, Zenon DEF Probe, Doing, Going, apiVars
<1>2. up = TRUE /\ pod # None /\ Manifest(wanted) /\ n \in CtrNames(wanted) /\ DisksOf(vmi, wanted)
  BY <1>1, StartHas DEF GuestInv
<1>3. AtPc(ctr[n], vmi, mounted) /\ ctr[n] \in CtrSet(Asked(wanted, n)) /\ fs \in [Claims -> 0 .. 2]
  BY DEF GuestInv, GuestStarts, GuestTypes
<1>4. m \in Asked(wanted, n) /\ m.kind # "tmpfs"
  BY <1>1, <1>3 DEF CtrSet, AtPc
<1>5. dev \in Claims \cup {None}
  <2>1. m.serial = DiskSerial(m.vol) /\ VolumeOf(wanted, m.vol) \in Elems(wanted.volumes) /\ VolumeOf(wanted, m.vol).name = m.vol
    BY <1>2, <1>4, AskedVolume
  <2>. QED BY <1>2, <2>1, FoundIs
<1>. HIDE DEF m, dev
<1>6. CASE dev = None /\ Failed(n)
  BY <1>1, <1>2, <1>6, FailedStep
<1>7. ASSUME NEW x \in {"mount", "mkfs", "blind"}, dev # None, ctr' = [ctr EXCEPT ![n].pc = x], x = "mkfs" => ~(fs[dev] > 0)
      PROVE  GuestInv'
  <2>. DEFINE c == [ctr[n] EXCEPT !.pc = x]
  <2>1. c.pc = x /\ c.todo = ctr[n].todo
    BY <1>3 DEF CtrSet
  <2>. HIDE DEF c
  <2>2. AtPc(c, vmi, mounted)
    BY <1>1, <1>4, <1>7, <2>1 DEF AtPc, First, m, dev
  <2>3. /\ GuestLinks' /\ GuestTypes' /\ GuestStarts' /\ MountsBacked' /\ GuestRaces'
        /\ ctr'[n].pc = x /\ ctr'[n].todo = ctr[n].todo /\ \A k \in Ctrs \ {n} : ctr'[k] = ctr[k]
    BY <1>1, <1>2, <1>3, <1>7, <2>2, PcMoves DEF First, Ended, Pcs, c
  <2>4. x = "mkfs" => fs[dev] = 0
    BY <1>3, <1>5, <1>7
  <2>5. GuestBlanks'
    BY <1>1, <2>3, <2>4 DEF GuestInv, GuestBlanks, m, dev
  <2>. QED BY <2>3, <2>5 DEF GuestInv
<1>. QED BY <1>1, <1>6, <1>7

\* What mkfs finds.
LEMMA MkfsHas ==
    ASSUME AdmitInv, GuestInv, NEW n \in Ctrs, ctr[n].pc \in {"mkfs", "blind"}
    PROVE  LET m == Head(ctr[n].todo)
               dev == Find(vmi, m.serial)
           IN  /\ up = TRUE /\ pod # None /\ wanted \in Templates /\ Manifest(wanted) /\ n \in CtrNames(wanted)
               /\ m.kind # "tmpfs" /\ dev # None /\ dev \in Claims /\ m.serial = DiskSerial(m.vol)
               /\ VolumeOf(wanted, m.vol) \in Elems(wanted.volumes) /\ VolumeOf(wanted, m.vol).name = m.vol
               /\ SerialsDiffer(wanted) => VolumeOf(wanted, m.vol).kind = "pvc" /\ VolumeOf(wanted, m.vol).claim = dev
               /\ SerialsDiffer(wanted) /\ ClaimsDiffer(wanted) /\ ctr[n].pc = "mkfs" /\ m.vol \notin raced => fs[dev] = 0
<1>. DEFINE m == Head(ctr[n].todo)
            dev == Find(vmi, m.serial)
            v == VolumeOf(wanted, m.vol)
<1>2. up = TRUE /\ pod # None /\ wanted \in Templates /\ Manifest(wanted) /\ n \in CtrNames(wanted) /\ DisksOf(vmi, wanted)
  BY StartHas DEF GuestInv
<1>3. AtPc(ctr[n], vmi, mounted) /\ ctr[n] \in CtrSet(Asked(wanted, n))
  BY DEF GuestInv, GuestStarts, GuestTypes
<1>4. m \in Asked(wanted, n) /\ m.kind # "tmpfs" /\ dev # None
  BY <1>3 DEF CtrSet, AtPc, First
<1>5. SerialsDiffer(wanted) /\ ClaimsDiffer(wanted) /\ ctr[n].pc = "mkfs" /\ m.vol \notin raced => fs[dev] = 0
  BY DEF GuestInv, GuestBlanks
<1>6. m.serial = DiskSerial(m.vol) /\ v \in Elems(wanted.volumes) /\ v.name = m.vol /\ v.kind \in {"pvc", "ephemeral"}
  BY <1>2, <1>4, AskedVolume
<1>7. dev \in Claims /\ (SerialsDiffer(wanted) => v.kind = "pvc" /\ v.claim = dev)
  <2>. DEFINE x == Find(vmi, DiskSerial(v.name))
  <2>1. x \in Claims \cup {None} /\ (SerialsDiffer(wanted) /\ v.kind \in {"pvc", "ephemeral"} /\ x # None => v.kind = "pvc" /\ x = v.claim)
    BY <1>2, <1>6, FoundIs, Zenon
  <2>2. x = dev
    BY <1>6
  <2>. HIDE DEF x, dev, v
  <2>. QED BY <1>4, <1>6, <2>1, <2>2
<1>. QED BY <1>2, <1>4, <1>5, <1>6, <1>7

\* Mkfs keeps GuestInv.
LEMMA MkfsStep ==
    ASSUME AdmitInv, GuestInv, NEW n \in Ctrs, Mkfs(n)
    PROVE  GuestInv'
<1>. DEFINE m == Head(ctr[n].todo)
            dev == Find(vmi, m.serial)
<1>1. /\ ctr[n].pc \in {"mkfs", "blind"} /\ ctr[n].todo # <<>>
      /\ fs' = [fs EXCEPT ![dev] = IF @ = 2 THEN 2 ELSE @ + 1] /\ ctr' = [ctr EXCEPT ![n].pc = "mount"]
      /\ UNCHANGED <<pod, wanted, vmi, up, mounted, raced>>
  BY FindIs, Zenon DEF Mkfs, Doing, Going, apiVars
<1>2. up = TRUE /\ pod # None /\ Manifest(wanted) /\ n \in CtrNames(wanted) /\ dev # None /\ dev \in Claims /\ m.kind # "tmpfs"
  BY <1>1, MkfsHas
<1>3. ctr[n] \in CtrSet(Asked(wanted, n)) /\ fs \in [Claims -> 0 .. 2]
  BY DEF GuestInv, GuestTypes
<1>4. fs' \in [Claims -> 0 .. 2] /\ \A k \in Claims \ {dev} : fs'[k] = fs[k]
  BY <1>1, <1>2, <1>3
<1>. DEFINE c == [ctr[n] EXCEPT !.pc = "mount"]
<1>5. c.pc = "mount" /\ c.todo = ctr[n].todo
  BY <1>3 DEF CtrSet
<1>. HIDE DEF c
<1>6. AtPc(c, vmi, mounted)
  BY <1>1, <1>2, <1>5 DEF AtPc, First
<1>7. /\ GuestLinks' /\ GuestTypes' /\ GuestStarts' /\ MountsBacked' /\ GuestRaces'
      /\ ctr'[n].pc = "mount" /\ ctr'[n].todo = ctr[n].todo /\ \A k \in Ctrs \ {n} : ctr'[k] = ctr[k]
  BY <1>1, <1>2, <1>3, <1>4, <1>6, PcMoves DEF First, Ended, Pcs, c
<1>8. GuestBlanks'
  <2>. SUFFICES ASSUME SerialsDiffer(wanted), ClaimsDiffer(wanted), NEW k \in Ctrs, ctr'[k].pc = "mkfs", Head(ctr'[k].todo).vol \notin raced
                PROVE  fs'[Find(vmi, Head(ctr'[k].todo).serial)] = 0
    BY <1>1 DEF GuestBlanks
  <2>. DEFINE o == Head(ctr[k].todo)
              d == Find(vmi, o.serial)
              v == VolumeOf(wanted, m.vol)
              u == VolumeOf(wanted, o.vol)
  <2>1. k # n /\ ctr'[k] = ctr[k] /\ ctr[k].pc = "mkfs" /\ o.vol \notin raced
    BY <1>7
  <2>2. d \in Claims /\ fs[d] = 0 /\ u \in Elems(wanted.volumes) /\ u.name = o.vol /\ u.kind = "pvc" /\ u.claim = d
    BY <2>1, MkfsHas
  <2>3. v \in Elems(wanted.volumes) /\ v.name = m.vol /\ v.kind = "pvc" /\ v.claim = dev
    BY <1>1, MkfsHas
  <2>4. ASSUME d = dev PROVE FALSE
    <3>1. u = v
      BY <2>2, <2>3, <2>4 DEF ClaimsDiffer
    <3>2. o.vol = m.vol
      BY <2>2, <2>3, <3>1
    <3>. QED BY <1>1, <2>1, <3>2 DEF GuestInv, GuestRaces, First
  <2>. QED BY <1>4, <2>1, <2>2, <2>4
<1>. QED BY <1>7, <1>8 DEF GuestInv

\* Exit keeps GuestInv.
LEMMA ExitStep ==
    ASSUME AdmitInv, GuestInv, NEW n \in Ctrs, Exit(n)
    PROVE  GuestInv'
<1>1. /\ ctr[n].pc = "running" /\ UNCHANGED <<pod, wanted, vmi, up, mounted, raced, fs>>
      /\ \E x \in {"done", "waiting"} : ctr' = [ctr EXCEPT ![n].pc = x]
  BY DEF Exit, Going, apiVars
<1>2. PICK x \in {"done", "waiting"} : ctr' = [ctr EXCEPT ![n].pc = x]
  BY <1>1
<1>3. up = TRUE /\ pod # None /\ n \in CtrNames(wanted)
  BY <1>1, StartHas DEF GuestInv
<1>4. AtPc(ctr[n], vmi, mounted) /\ ctr[n] \in CtrSet(Asked(wanted, n)) /\ fs \in [Claims -> 0 .. 2]
  BY DEF GuestInv, GuestStarts, GuestTypes
<1>. DEFINE c == [ctr[n] EXCEPT !.pc = x]
<1>5. c.pc = x /\ c.todo = ctr[n].todo /\ c.blocks = ctr[n].blocks
  BY <1>4 DEF CtrSet
<1>. HIDE DEF c
<1>6. AtPc(c, vmi, mounted)
  BY <1>1, <1>4, <1>5 DEF AtPc, First
<1>7. /\ GuestLinks' /\ GuestTypes' /\ GuestStarts' /\ MountsBacked' /\ GuestRaces'
      /\ ctr'[n].pc = x /\ ctr'[n].todo = ctr[n].todo /\ \A k \in Ctrs \ {n} : ctr'[k] = ctr[k]
  BY <1>1, <1>2, <1>3, <1>4, <1>6, PcMoves DEF First, Ended, Pcs, c
<1>8. GuestBlanks'
  BY <1>1, <1>7 DEF GuestInv, GuestBlanks
<1>. QED BY <1>7, <1>8 DEF GuestInv

\* More is mounted.
LEMMA StartGrows ==
    ASSUME NEW w, Manifest(w), NEW k, NEW c \in CtrSet(Asked(w, k)), c.pc # "waiting" => k \in CtrNames(w), NEW vm, NEW mt, NEW mu,
           \A v \in Vols : Elems(mt[v]) \subseteq Elems(mu[v]) /\ (mt[v] # <<>> => mu[v] # <<>>),
           AtPc(c, vm, mt), Covered(c, k, vm, w, mt)
    PROVE  AtPc(c, vm, mu) /\ Covered(c, k, vm, w, mu)
<1>1. AtPc(c, vm, mu)
  <2>1. ASSUME c.pc = "bind" PROVE mu[Head(c.todo).vol] # <<>>
    <3>1. c.todo # <<>> /\ mt[Head(c.todo).vol] # <<>>
      BY <2>1 DEF AtPc
    <3>2. Head(c.todo) \in Asked(w, k)
      BY <3>1 DEF CtrSet
    <3>3. Head(c.todo).vol \in Vols
      BY <2>1, <3>2, AskedVolume
    <3>. QED BY <3>1, <3>3
  <2>. QED BY <2>1 DEF AtPc
<1>2. Covered(c, k, vm, w, mu)
  <2>. SUFFICES ASSUME c.pc # "waiting", ~c.lost, NEW m \in Wants(w, k), Stays(w, m), Request(w, m) \notin Elems(c.todo) \cup Elems(c.blocks)
                PROVE  \E b \in c.binds : b.path = m.path /\ IF m.dev THEN c.pc \in Ended /\ Backs(vm, w, m.vol, b.inst) ELSE b.inst \in Elems(mu[m.vol])
    BY Zenon DEF Covered
  <2>1. PICK b \in c.binds : b.path = m.path /\ IF m.dev THEN c.pc \in Ended /\ Backs(vm, w, m.vol, b.inst) ELSE b.inst \in Elems(mt[m.vol])
    BY Zenon DEF Covered
  <2>2. m.vol \in Vols
    BY WantsIs
  <2>. QED BY <2>1, <2>2
<1>. QED BY <1>1, <1>2

\* Mount keeps GuestInv.
LEMMA MountStep ==
    ASSUME AdmitInv, GuestInv, NEW n \in Ctrs, Mount(n)
    PROVE  GuestInv'
<1>. DEFINE A == Asked(wanted, n)
            m == Head(ctr[n].todo)
            onto == mounted[m.vol]
            src == IF m.kind = "tmpfs" THEN "tmpfs" ELSE Find(vmi, m.serial)
            new == [src |-> src, ro |-> m.ro /\ m.kind # "tmpfs", at |-> Len(onto) + 1]
            busy == m.kind # "tmpfs" /\ \E i \in DOMAIN onto : onto[i].src = src
            q == IF busy THEN onto ELSE Append(onto, new)
            c == [ctr[n] EXCEPT !.pc = "bind"]
            v == VolumeOf(wanted, m.vol)
<1>1. /\ ctr[n].pc = "mount" /\ ctr[n].todo # <<>> /\ ctr' = [ctr EXCEPT ![n].pc = "bind"]
      /\ mounted' = [mounted EXCEPT ![m.vol] = q]
      /\ UNCHANGED <<pod, wanted, vmi, up, raced, fs>>
  BY FindIs, Zenon DEF Mount, Doing, Going, apiVars
<1>2. up = TRUE /\ pod # None /\ Manifest(wanted) /\ n \in CtrNames(wanted) /\ DisksOf(vmi, wanted)
  BY <1>1, StartHas DEF GuestInv
<1>3. /\ AtPc(ctr[n], vmi, mounted) /\ Covered(ctr[n], n, vmi, wanted, mounted) /\ ctr[n] \in CtrSet(A)
      /\ mounted \in [Vols -> Seq(Insts)] /\ ctr = [k \in Ctrs |-> ctr[k]]
  BY DEF GuestInv, GuestStarts, GuestTypes
<1>4. m \in A /\ m.kind # "block" /\ (m.kind # "tmpfs" => Find(vmi, m.serial) # None)
  BY <1>1, <1>3 DEF CtrSet, AtPc
<1>5. /\ v \in Elems(wanted.volumes) /\ v.name = m.vol /\ m.vol \in Vols /\ m.ro \in BOOLEAN
      /\ m.kind = "tmpfs" <=> v.kind = "emptyDir"
      /\ m.kind # "tmpfs" => m.serial = DiskSerial(m.vol)
      /\ v.kind = "pvc" /\ v.ro => m.ro
  BY <1>2, <1>4, AskedVolume, Zenon
<1>6. m.kind # "tmpfs" => src \in Claims /\ src = Find(vmi, DiskSerial(m.vol)) /\ src # None
  <2>. SUFFICES ASSUME m.kind # "tmpfs" PROVE src \in Claims /\ src = Find(vmi, DiskSerial(m.vol)) /\ src # None
    OBVIOUS
  <2>1. Find(vmi, DiskSerial(v.name)) \in Claims \cup {None}
    BY <1>2, <1>5, FoundIs, Zenon
  <2>. QED BY <1>4, <1>5, <2>1
<1>7. m.kind = "tmpfs" => src = "tmpfs"
  OBVIOUS
<1>8. onto \in Seq(Insts)
  BY <1>3, <1>5
<1>. HIDE DEF A, m, src, v
<1>9. new \in Insts /\ Backs(vmi, wanted, m.vol, new)
  <2>. DEFINE ro == m.ro /\ m.kind # "tmpfs"
  <2>1. ro \in BOOLEAN /\ (v.kind = "pvc" /\ v.ro => ro)
    <3>1. v.kind = "pvc" => m.kind # "tmpfs"
      BY <1>5
    <3>. QED BY <1>5, <3>1, Zenon
  <2>2. Len(onto) + 1 \in Nat
    BY <1>8, LenProperties
  <2>3. new = [src |-> src, ro |-> ro, at |-> Len(onto) + 1]
    BY Zenon
  <2>. HIDE DEF ro, new
  <2>4. new \in Insts /\ new.src = src /\ new.ro = ro
    BY <1>6, <1>7, <2>1, <2>2, <2>3 DEF Insts
  <2>. QED BY <1>5, <1>6, <1>7, <2>1, <2>4, Zenon DEF Backs, v
<1>. HIDE DEF new
<1>10. /\ q \in Seq(Insts) /\ q # <<>> /\ Elems(onto) \subseteq Elems(q) /\ Elems(q) \subseteq Elems(onto) \cup {new}
       /\ Len(q) <= Len(onto) + 1
  <2>1. CASE busy
    <3>1. q = onto /\ \E i \in DOMAIN onto : TRUE
      BY <2>1, Zenon
    <3>. HIDE DEF q
    <3>2. onto # <<>>
      BY <3>1
    <3>3. Len(onto) \in Nat
      BY <1>8, LenProperties
    <3>. HIDE DEF onto
    <3>. QED BY <1>8, <3>1, <3>2, <3>3
  <2>2. CASE ~busy
    <3>1. q = Append(onto, new)
      BY <2>2, Zenon
    <3>. HIDE DEF q, onto
    <3>2. Elems(q) = Elems(onto) \cup {new}
      BY <1>8, <1>9, <3>1, ElemsAppend
    <3>3. q \in Seq(Insts) /\ Len(q) = Len(onto) + 1 /\ q # <<>>
      BY <1>8, <1>9, <3>1, AppendProperties
    <3>4. Len(onto) \in Nat
      BY <1>8, LenProperties
    <3>. QED BY <3>2, <3>3, <3>4
  <2>. QED BY <2>1, <2>2
<1>. HIDE DEF q, busy
<1>11. mounted' \in [Vols -> Seq(Insts)] /\ mounted'[m.vol] = q /\ \A x \in Vols \ {m.vol} : mounted'[x] = mounted[x]
  BY <1>1, <1>3, <1>5, <1>10
<1>12. ctr' = [ctr EXCEPT ![n] = c]
  BY <1>1
<1>13. c \in CtrSet(A) /\ c.pc = "bind" /\ c.todo = ctr[n].todo /\ c.blocks = ctr[n].blocks /\ c.binds = ctr[n].binds /\ c.lost = ctr[n].lost
  BY <1>3 DEF CtrSet, Pcs
<1>. HIDE DEF c
<1>14. ctr'[n] = c /\ (\A k \in Ctrs \ {n} : ctr'[k] = ctr[k]) /\ ctr' = [k \in Ctrs |-> ctr'[k]]
  BY <1>3, <1>12
<1>15. GuestLinks'
  BY <1>1, <1>2 DEF GuestInv, GuestLinks
<1>16. GuestTypes'
  BY <1>1, <1>11, <1>13, <1>14 DEF GuestInv, GuestTypes, A
<1>17. \A x \in Vols : Elems(mounted[x]) \subseteq Elems(mounted'[x]) /\ (mounted[x] # <<>> => mounted'[x] # <<>>)
  BY <1>10, <1>11
<1>18. GuestStarts'
  <2>. SUFFICES ASSUME NEW k \in Ctrs
                PROVE  /\ ctr'[k].pc # "waiting" => k \in CtrNames(wanted)
                       /\ AtPc(ctr'[k], vmi, mounted')
                       /\ Covered(ctr'[k], k, vmi, wanted, mounted')
    BY <1>1, Zenon DEF GuestStarts
  <2>1. CASE k # n
    BY <1>2, <1>14, <1>17, <2>1, StartGrows DEF GuestInv, GuestStarts, GuestTypes
  <2>2. CASE k = n
    <3>1. Covered(ctr[n], n, vmi, wanted, mounted')
      BY <1>2, <1>3, <1>17, StartGrows DEF A
    <3>2. Covered(c, n, vmi, wanted, mounted')
      BY <1>1, <1>13, <3>1 DEF Covered, Ended
    <3>3. AtPc(c, vmi, mounted')
      BY <1>1, <1>10, <1>11, <1>13 DEF AtPc, m, First
    <3>. QED BY <1>2, <1>14, <2>2, <3>2, <3>3
  <2>. QED BY <2>1, <2>2
<1>19. MountsBacked'
  BY <1>1, <1>9, <1>10, <1>11 DEF GuestInv, MountsBacked
<1>20. GuestRaces'
  <2>1. ASSUME NEW i \in Ctrs, ctr'[i].pc \in First
        PROVE  i # n /\ ctr'[i] = ctr[i]
    BY <1>13, <1>14, <2>1 DEF First
  <2>2. ASSUME NEW i \in Ctrs, ctr'[i].pc \in First, mounted'[Head(ctr'[i].todo).vol] # <<>>
        PROVE  Head(ctr'[i].todo).vol \in raced
    <3>1. i # n /\ ctr'[i] = ctr[i] /\ ctr[i].pc \in First
      BY <2>1, <2>2
    <3>2. CASE Head(ctr[i].todo).vol = m.vol
      BY <1>1, <3>1, <3>2 DEF GuestInv, GuestRaces, First, m
    <3>3. CASE Head(ctr[i].todo).vol # m.vol
      <4>1. i \in CtrNames(wanted) /\ ctr[i].todo # <<>> /\ ctr[i] \in CtrSet(Asked(wanted, i))
        BY <3>1 DEF GuestInv, GuestStarts, GuestTypes, AtPc, First
      <4>2. Head(ctr[i].todo) \in Asked(wanted, i)
        BY <4>1 DEF CtrSet
      <4>3. Head(ctr[i].todo).vol \in Vols
        BY <1>2, <4>1, <4>2, AskedVolume
      <4>. QED BY <1>11, <2>2, <3>1, <3>3, <4>3 DEF GuestInv, GuestRaces
    <3>. QED BY <3>2, <3>3
  <2>3. ASSUME NEW x \in Vols \ raced PROVE Len(mounted'[x]) <= 1
    <3>1. CASE x # m.vol
      BY <1>11, <2>3, <3>1 DEF GuestInv, GuestRaces
    <3>2. CASE x = m.vol
      <4>1. onto = <<>>
        BY <1>1, <2>3, <3>2 DEF GuestInv, GuestRaces, First, m
      <4>. QED BY <1>10, <1>11, <3>2, <4>1
    <3>. QED BY <3>1, <3>2
  <2>4. ASSUME NEW i \in Ctrs, NEW k \in Ctrs, i # k, ctr'[i].pc \in First, ctr'[k].pc \in First,
               Head(ctr'[i].todo).vol = Head(ctr'[k].todo).vol
        PROVE  Head(ctr'[i].todo).vol \in raced
    BY <2>1, <2>4 DEF GuestInv, GuestRaces
  <2>. QED BY <1>1, <2>2, <2>3, <2>4 DEF GuestRaces
<1>21. GuestBlanks'
  BY <1>1, <1>13, <1>14 DEF GuestInv, GuestBlanks
<1>. QED BY <1>15, <1>16, <1>18, <1>19, <1>20, <1>21 DEF GuestInv

\* The elements of a sequence are its head and those of its tail.
LEMMA HeadTail ==
    ASSUME NEW X, NEW s \in Seq(X), s # <<>>
    PROVE  Head(s) \in X /\ Tail(s) \in Seq(X) /\ Elems(s) \subseteq {Head(s)} \cup Elems(Tail(s))
<1>1. Head(s) \in X /\ Tail(s) \in Seq(X) /\ Len(Tail(s)) = Len(s) - 1 /\ Len(s) \in Nat /\ Len(s) > 0 /\ DOMAIN s = 1 .. Len(s)
  BY HeadTailProperties, EmptySeq, LenProperties
<1>2. \A i \in 1 .. Len(s) - 1 : Tail(s)[i] = s[i + 1]
  BY <1>1, HeadTailProperties
<1>3. DOMAIN Tail(s) = 1 .. Len(s) - 1
  BY <1>1, LenProperties
<1>4. ASSUME NEW i \in DOMAIN s, i # 1 PROVE s[i] \in Elems(Tail(s))
  <2>1. i - 1 \in 1 .. Len(s) - 1 /\ Tail(s)[i - 1] = s[(i - 1) + 1] /\ (i - 1) + 1 = i
    BY <1>1, <1>2, <1>4
  <2>. QED BY <1>3, <2>1 DEF Elems
<1>5. s[1] = Head(s)
  OBVIOUS
<1>. QED BY <1>1, <1>4, <1>5 DEF Elems

\* Bind keeps GuestInv.
LEMMA BindStep ==
    ASSUME AdmitInv, GuestInv, NEW n \in Ctrs, Bind(n)
    PROVE  GuestInv'
<1>. DEFINE A == Asked(wanted, n)
            todo == ctr[n].todo
            h == Head(todo)
            top == mounted[h.vol][Len(mounted[h.vol])]
            new == [path |-> h.path, inst |-> top]
            binds == {b \in ctr[n].binds : b.path # h.path} \cup {new}
            c == [ctr[n] EXCEPT !.pc = "check", !.todo = Tail(todo), !.binds = Rebind(ctr[n].binds, h.path, top)]
<1>1. /\ ctr[n].pc = "bind" /\ todo # <<>> /\ ctr' = [ctr EXCEPT ![n] = c]
      /\ UNCHANGED <<pod, wanted, vmi, up, mounted, raced, fs>>
  <2>1. ctr[n].pc = "bind" /\ todo # <<>> /\ UNCHANGED <<pod, wanted, vmi, up, mounted, raced, fs>>
    BY DEF Bind, Doing, apiVars
  <2>2. ctr' = [ctr EXCEPT ![n] = c]
    BY DEF Bind
  <2>. QED BY <2>1, <2>2, Zenon
<1>2. up = TRUE /\ pod # None /\ Manifest(wanted) /\ n \in CtrNames(wanted)
  BY <1>1, StartHas DEF GuestInv
<1>3. /\ AtPc(ctr[n], vmi, mounted) /\ Covered(ctr[n], n, vmi, wanted, mounted) /\ ctr[n] \in CtrSet(A)
      /\ mounted \in [Vols -> Seq(Insts)] /\ fs' \in [Claims -> 0 .. 2]
  BY <1>1 DEF GuestInv, GuestStarts, GuestTypes
<1>. DEFINE P == {g \in A : g.kind # "block"}
            T == Tail(todo)
<1>4. todo \in Seq(P)
  BY <1>3 DEF CtrSet
<1>5. h \in P /\ T \in Seq(P) /\ Elems(todo) \subseteq {h} \cup Elems(T)
  <2>. HIDE DEF P, todo
  <2>. QED BY <1>1, <1>4, HeadTail
<1>6. h.vol \in Vols
  BY <1>2, <1>5, AskedVolume
<1>7. top \in Elems(mounted[h.vol]) /\ top \in Insts
  <2>. DEFINE s == mounted[h.vol]
  <2>1. s # <<>> /\ s \in Seq(Insts)
    BY <1>1, <1>3, <1>6 DEF AtPc
  <2>. HIDE DEF s
  <2>2. Len(s) \in 1 .. Len(s) /\ DOMAIN s = 1 .. Len(s)
    BY <2>1, LenProperties, EmptySeq
  <2>3. s[Len(s)] \in Elems(s) /\ s[Len(s)] \in Insts
    BY <2>1, <2>2, ElementOfSeq DEF Elems
  <2>. QED BY <2>3 DEF s
<1>8. c = [ctr[n] EXCEPT !.pc = "check", !.todo = T, !.binds = binds]
  BY Zenon DEF Rebind
<1>9. binds \in SUBSET [path : {g.path : g \in A}, inst : Insts]
  <2>1. new \in [path : {g.path : g \in A}, inst : Insts]
    BY <1>5, <1>7
  <2>2. ctr[n].binds \in SUBSET [path : {g.path : g \in A}, inst : Insts]
    BY <1>3 DEF CtrSet
  <2>. HIDE DEF new, A
  <2>. QED BY <2>1, <2>2, Zenon
<1>10. new.path = h.path /\ new.inst = top
  OBVIOUS
<1>. HIDE DEF A, h, T, top, new, binds, c
<1>11. c \in CtrSet(A) /\ c.pc = "check" /\ c.todo = T /\ c.blocks = ctr[n].blocks /\ c.binds = binds /\ c.lost = ctr[n].lost
  BY <1>3, <1>5, <1>8, <1>9 DEF CtrSet, Pcs
<1>12. AtPc(c, vmi, mounted)
  BY <1>11 DEF AtPc, First
<1>13. Covered(c, n, vmi, wanted, mounted)
  <2>. DEFINE Bound(m, b) == b.path = m.path /\ IF m.dev THEN FALSE ELSE b.inst \in Elems(mounted[m.vol])
  <2>. SUFFICES ASSUME ~c.lost, NEW m \in Wants(wanted, n), Stays(wanted, m), Request(wanted, m) \notin Elems(c.todo) \cup Elems(c.blocks)
                PROVE  \E b \in c.binds : Bound(m, b)
    BY <1>11, Zenon DEF Covered
  <2>. DEFINE g == Request(wanted, m)
  <2>1. /\ g \in A /\ g.vol = m.vol /\ g.path = m.path /\ m.dev \in BOOLEAN
        /\ m.dev <=> g.kind = "block"
    BY <1>2, AskedMount, Zenon DEF A
  <2>. HIDE DEF g
  <2>2. g \in Elems(todo) \/ \E b \in ctr[n].binds : Bound(m, b)
    <3>1. ctr[n].pc \notin Ended /\ ctr[n].pc # "waiting"
      BY <1>1 DEF Ended
    <3>. QED BY <1>3, <1>11, <3>1, Zenon DEF Covered, g
  <2>3. CASE g = h
    <3>1. m.dev = FALSE
      BY <1>5, <2>1, <2>3
    <3>2. Bound(m, new)
      BY <1>7, <1>10, <2>1, <2>3, <3>1
    <3>3. new \in c.binds
      BY <1>11 DEF binds
    <3>. HIDE DEF Bound
    <3>. QED BY <3>2, <3>3
  <2>4. CASE g # h
    <3>1. g \notin Elems(todo)
      BY <1>5, <1>11, <2>4 DEF g
    <3>2. PICK b \in ctr[n].binds : Bound(m, b)
      BY <2>2, <3>1, Zenon
    <3>3. m.path # h.path
      <4>. SUFFICES ASSUME m.path = h.path PROVE FALSE
        OBVIOUS
      <4>1. PICK o \in Wants(wanted, n) : h = Request(wanted, o)
        BY <1>5 DEF Asked, A
      <4>2. o.path = m.path
        BY <1>2, <4>1, AskedMount
      <4>3. o = m
        BY <1>2, <4>2, WantsIs
      <4>. QED BY <2>4, <4>1, <4>3 DEF g
    <3>4. b \in c.binds
      BY <1>11, <3>2, <3>3 DEF binds
    <3>. HIDE DEF Bound
    <3>. QED BY <3>2, <3>4
  <2>. QED BY <2>3, <2>4
<1>14. /\ GuestLinks' /\ GuestTypes' /\ GuestStarts' /\ MountsBacked'
       /\ ctr'[n] = c /\ \A k \in Ctrs \ {n} : ctr'[k] = ctr[k]
  BY <1>1, <1>2, <1>3, <1>11, <1>12, <1>13, OneMoves DEF A
<1>15. GuestRaces'
  BY <1>1, <1>11, <1>14, NoNewRace DEF First
<1>16. GuestBlanks'
  BY <1>1, <1>11, <1>14, NoNewBlank
<1>. QED BY <1>14, <1>15, <1>16 DEF GuestInv

\* StartProcess keeps GuestInv.
LEMMA ProcessStep ==
    ASSUME AdmitInv, GuestInv, NEW n \in Ctrs, StartProcess(n)
    PROVE  GuestInv'
<1>. DEFINE A == Asked(wanted, n)
            bs == ctr[n].blocks
            dev(i) == Find(vmi, bs[i].serial)
            bound(i) == [path |-> bs[i].path, inst |-> [src |-> dev(i), ro |-> bs[i].ro, at |-> 0]]
            paths == {bs[i].path : i \in DOMAIN bs}
            hidden(b) == b.path \in ChrootPaths /\ (b.path \in DevPaths => b.inst.at # 0)
            nodes == {b \in {bound(i) : i \in DOMAIN bs} : b.path \in DevPaths}
            binds == {b \in ctr[n].binds : b.path \notin paths /\ ~hidden(b)} \cup {bound(i) : i \in DOMAIN bs}
            others(k) == [ctr[k] EXCEPT !.binds = Renoded(ctr[k].binds, nodes)]
            c == [ctr[n] EXCEPT !.pc = "running", !.blocks = <<>>, !.binds = binds]
<1>1. /\ ctr[n].pc = "check" /\ ctr[n].todo = <<>>
      /\ \/ Failed(n)
         \/ (\A i \in DOMAIN bs : dev(i) # None) /\ ctr' = [k \in Ctrs |-> IF k = n THEN c ELSE others(k)]
      /\ UNCHANGED <<pod, wanted, vmi, up, mounted, raced, fs>>
  <2>1. ctr[n].pc = "check" /\ ctr[n].todo = <<>> /\ UNCHANGED <<pod, wanted, vmi, up, mounted, raced, fs>>
    BY DEF StartProcess, apiVars
  <2>. DEFINE found(i) == FindDiskBySerial(bs[i].serial)
              new(i) == [path |-> bs[i].path, inst |-> [src |-> found(i), ro |-> bs[i].ro, at |-> 0]]
              made == {new(i) : i \in DOMAIN bs}
              mine == {b \in ctr[n].binds : b.path \notin paths /\ ~hidden(b)} \cup made
              theirs(k) == [ctr[k] EXCEPT !.binds = Renoded(ctr[k].binds, {b \in made : b.path \in DevPaths})]
  <2>2. \/ Failed(n)
        \/ /\ ~ \E i \in DOMAIN bs : found(i) = None
           /\ ctr' = [k \in Ctrs |-> IF k = n THEN [ctr[n] EXCEPT !.pc = "running", !.blocks = <<>>, !.binds = mine]
                                              ELSE theirs(k)]
    BY Zenon DEF StartProcess
  <2>3. \A i : found(i) = dev(i)
    BY FindIs, Zenon
  <2>4. made = {bound(i) : i \in DOMAIN bs}
    <3>1. \A i : new(i) = bound(i)
      BY <2>3, Zenon
    <3>. HIDE DEF new, bound
    <3>. QED BY <3>1, Zenon
  <2>5. mine = binds /\ {b \in made : b.path \in DevPaths} = nodes
    <3>. HIDE DEF made, bound, hidden, paths
    <3>. QED BY <2>4, Zenon
  <2>6. \A k : theirs(k) = others(k)
    <3>. HIDE DEF made, nodes
    <3>. QED BY <2>5, Zenon
  <2>7. [k \in Ctrs |-> IF k = n THEN [ctr[n] EXCEPT !.pc = "running", !.blocks = <<>>, !.binds = mine] ELSE theirs(k)]
          = [k \in Ctrs |-> IF k = n THEN c ELSE others(k)]
    <3>1. c = [ctr[n] EXCEPT !.pc = "running", !.blocks = <<>>, !.binds = mine]
      <4>. HIDE DEF mine, binds
      <4>. QED BY <2>5, Zenon
    <3>. HIDE DEF mine, binds, c, theirs, others
    <3>. QED BY <2>6, <3>1, Zenon
  <2>. HIDE DEF c, mine, made, theirs, others, found, dev
  <2>. QED BY <2>1, <2>2, <2>3, <2>7, Zenon
<1>2. up = TRUE /\ pod # None /\ Manifest(wanted) /\ n \in CtrNames(wanted) /\ DisksOf(vmi, wanted)
  BY <1>1, StartHas DEF GuestInv
<1>3. CASE Failed(n)
  BY <1>1, <1>2, <1>3, FailedStep
<1>4. CASE (\A i \in DOMAIN bs : dev(i) # None) /\ ctr' = [k \in Ctrs |-> IF k = n THEN c ELSE others(k)]
  <2>1. /\ Covered(ctr[n], n, vmi, wanted, mounted) /\ ctr[n] \in CtrSet(A) /\ fs' \in [Claims -> 0 .. 2]
    BY <1>1 DEF GuestInv, GuestStarts, GuestTypes
  <2>2. \A i \in DOMAIN bs : bs[i] \in A /\ bs[i].kind = "block"
    <3>1. bs \in Seq({g \in A : g.kind = "block"})
      BY <2>1 DEF CtrSet
    <3>. HIDE DEF bs, A
    <3>. QED BY <3>1
  <2>3. ASSUME NEW i \in DOMAIN bs
        PROVE  bound(i) \in [path : {g.path : g \in A}, inst : Insts] /\ Backs(vmi, wanted, bs[i].vol, bound(i).inst) /\ bound(i).path = bs[i].path
    <3>. DEFINE g == bs[i]
                v == VolumeOf(wanted, g.vol)
                d == dev(i)
    <3>1. g \in A /\ g.kind = "block" /\ d # None
      BY <1>4, <2>2
    <3>2. /\ v \in Elems(wanted.volumes) /\ v.name = g.vol /\ g.ro \in BOOLEAN /\ v.kind # "emptyDir"
          /\ g.serial = DiskSerial(g.vol)
          /\ v.kind = "pvc" /\ v.ro => g.ro
      <4>1. /\ v \in Elems(wanted.volumes) /\ v.name = g.vol /\ g.ro \in BOOLEAN
            /\ g.kind = "tmpfs" <=> v.kind = "emptyDir"
            /\ g.kind # "tmpfs" => g.serial = DiskSerial(g.vol)
            /\ v.kind = "pvc" /\ v.ro => g.ro
        BY <1>2, <3>1, AskedVolume, Zenon
      <4>2. g.kind # "tmpfs"
        BY <3>1
      <4>. QED BY <4>1, <4>2, Zenon
    <3>3. Find(vmi, DiskSerial(v.name)) \in Claims \cup {None}
      BY <1>2, <3>2, FoundIs, Zenon
    <3>4. d = Find(vmi, DiskSerial(g.vol)) /\ d \in Claims
      BY <3>1, <3>2, <3>3
    <3>5. bound(i) = [path |-> g.path, inst |-> [src |-> d, ro |-> g.ro, at |-> 0]]
      OBVIOUS
    <3>. DEFINE j == [src |-> d, ro |-> g.ro, at |-> 0]
                b == bound(i)
    <3>6. j \in Insts /\ j.src = d /\ j.ro = g.ro
      <4>. HIDE DEF g, d
      <4>. QED BY <3>2, <3>4 DEF Insts
    <3>. HIDE DEF d, v, j, b, A
    <3>7. Backs(vmi, wanted, g.vol, j)
      BY <3>1, <3>2, <3>4, <3>6, Zenon DEF Backs, v
    <3>8. b = [path |-> g.path, inst |-> j]
      BY <3>5 DEF b, j
    <3>9. b \in [path : {x.path : x \in A}, inst : Insts] /\ b.inst = j /\ b.path = g.path
      BY <3>1, <3>6, <3>8
    <3>. QED BY <3>7, <3>9 DEF b
  <2>. DEFINE U == [path : {g.path : g \in A}, inst : Insts]
  <2>4. binds \in SUBSET U
    <3>1. ctr[n].binds \in SUBSET U
      BY <2>1 DEF CtrSet
    <3>. HIDE DEF U, bound, hidden, paths
    <3>. QED BY <2>3, <3>1 DEF U
  <2>5. c \in CtrSet(A) /\ c.pc = "running" /\ c.todo = <<>> /\ c.blocks = <<>> /\ c.binds = binds /\ c.lost = ctr[n].lost
    <3>. DEFINE e == <<>>
    <3>1. \A S : e \in Seq(S)
      OBVIOUS
    <3>2. c = [ctr[n] EXCEPT !.pc = "running", !.blocks = e, !.binds = binds] /\ ctr[n].todo = e
      BY <1>1
    <3>. HIDE DEF c, e, binds, A
    <3>3. c \in CtrSet(A) /\ c.pc = "running" /\ c.todo = e /\ c.blocks = e /\ c.binds = binds /\ c.lost = ctr[n].lost
      BY <2>1, <2>4, <3>1, <3>2 DEF CtrSet, Pcs
    <3>. QED BY <3>3 DEF e
  <2>. HIDE DEF c, binds, A, bound
  <2>6. AtPc(c, vmi, mounted)
    BY <2>5 DEF AtPc, First
  <2>7. Covered(c, n, vmi, wanted, mounted)
    <3>. DEFINE Bound(m, b) == b.path = m.path /\ IF m.dev THEN Backs(vmi, wanted, m.vol, b.inst) ELSE b.inst \in Elems(mounted[m.vol])
    <3>. SUFFICES ASSUME ~c.lost, NEW m \in Wants(wanted, n), Stays(wanted, m)
                  PROVE  \E b \in c.binds : Bound(m, b)
      BY <2>5, Zenon DEF Covered, Ended
    <3>. DEFINE g == Request(wanted, m)
    <3>1. /\ g \in A /\ g.vol = m.vol /\ g.path = m.path /\ m.dev \in BOOLEAN
          /\ m.dev <=> g.kind = "block"
      BY <1>2, AskedMount, Zenon DEF A
    <3>. HIDE DEF g
    <3>2. g \in Elems(<<>>) \cup Elems(bs) \/ (~m.dev /\ \E b \in ctr[n].binds : Bound(m, b))
      <4>1. ctr[n].pc \notin Ended /\ ctr[n].pc # "waiting"
        BY <1>1 DEF Ended
      <4>2. ctr[n].lost = c.lost
        BY <2>5
      <4>. QED BY <1>1, <2>1, <4>1, <4>2, Zenon DEF Covered, g
    <3>3. Elems(<<>>) = {}
      BY DEF Elems
    <3>4. ASSUME NEW i \in DOMAIN bs, bs[i] = g PROVE \E b \in c.binds : Bound(m, b)
      <4>1. m.dev = TRUE
        BY <2>2, <3>1, <3>4
      <4>2. Bound(m, bound(i))
        BY <2>3, <3>1, <3>4, <4>1
      <4>3. bound(i) \in c.binds
        BY <2>5 DEF binds
      <4>. HIDE DEF Bound
      <4>. QED BY <4>2, <4>3
    <3>5. CASE g \in Elems(bs)
      BY <3>4, <3>5, Zenon DEF Elems
    <3>6. CASE g \notin Elems(bs)
      <4>1. PICK b \in ctr[n].binds : Bound(m, b)
        BY <3>2, <3>3, <3>6, Zenon
      <4>2. m.path \notin paths
        <5>. SUFFICES ASSUME NEW i \in DOMAIN bs, bs[i].path = m.path PROVE FALSE
          OBVIOUS
        <5>1. PICK o \in Wants(wanted, n) : bs[i] = Request(wanted, o)
          BY <2>2 DEF Asked, A
        <5>2. o.path = m.path
          BY <1>2, <5>1, AskedMount
        <5>3. o = m
          BY <1>2, <5>2, WantsIs
        <5>. QED BY <3>6, <5>1, <5>3 DEF Elems, g
      <4>3. ~hidden(b)
        <5>1. ~m.dev
          BY <3>2, <3>3, <3>6
        <5>. QED BY <4>1, <5>1 DEF Stays, Hidden
      <4>4. b \in c.binds
        BY <2>5, <4>1, <4>2, <4>3 DEF binds
      <4>. HIDE DEF Bound
      <4>. QED BY <4>1, <4>4
    <3>. QED BY <3>5, <3>6
  <2>8. ASSUME NEW k \in Ctrs, k # n
        PROVE  /\ others(k) \in CtrSet(Asked(wanted, k)) /\ others(k).pc = ctr[k].pc /\ others(k).todo = ctr[k].todo
               /\ others(k).pc # "waiting" => k \in CtrNames(wanted)
               /\ AtPc(others(k), vmi, mounted) /\ Covered(others(k), k, vmi, wanted, mounted)
    <3>. DEFINE e == others(k)
                V == [path : {g.path : g \in Asked(wanted, k)}, inst : Insts]
                new == Renoded(ctr[k].binds, nodes)
    <3>1. /\ ctr[k] \in CtrSet(Asked(wanted, k)) /\ AtPc(ctr[k], vmi, mounted) /\ Covered(ctr[k], k, vmi, wanted, mounted)
          /\ ctr[k].pc # "waiting" => k \in CtrNames(wanted)
      BY DEF GuestInv, GuestTypes, GuestStarts
    <3>2. ctr[k].binds \in SUBSET V
      BY <3>1 DEF CtrSet
    <3>3. \A x \in nodes : x \in U /\ x.path \in DevPaths /\ \E i \in DOMAIN bs : x = bound(i)
      BY <2>3
    <3>4. ASSUME NEW x \in nodes, NEW y \in ctr[k].binds, y.path = x.path PROVE x \in V
      <4>1. y \in V /\ x \in U
        BY <3>2, <3>3, <3>4
      <4>2. y.path \in {g.path : g \in Asked(wanted, k)} /\ x.inst \in Insts /\ x = [path |-> x.path, inst |-> x.inst]
        BY <4>1
      <4>. HIDE DEF nodes
      <4>. QED BY <3>4, <4>2
    <3>. HIDE DEF V, nodes
    <3>5. new \in SUBSET V
      BY <3>2, <3>4 DEF Renoded
    <3>6. e \in CtrSet(Asked(wanted, k)) /\ e.pc = ctr[k].pc /\ e.todo = ctr[k].todo /\ e.blocks = ctr[k].blocks /\ e.binds = new
            /\ e.lost = ctr[k].lost
      <4>. HIDE DEF new
      <4>1. e = [ctr[k] EXCEPT !.binds = new]
        BY DEF new
      <4>. QED BY <3>1, <3>5, <4>1 DEF CtrSet, V
    <3>. HIDE DEF e, new, others
    <3>7. AtPc(e, vmi, mounted)
      BY <3>1, <3>6 DEF AtPc
    <3>8. Covered(e, k, vmi, wanted, mounted)
      <4>. DEFINE Bound(m, b) == b.path = m.path /\ IF m.dev THEN ctr[k].pc \in Ended /\ Backs(vmi, wanted, m.vol, b.inst)
                                                            ELSE b.inst \in Elems(mounted[m.vol])
      <4>. SUFFICES ASSUME ctr[k].pc # "waiting", ~ctr[k].lost, NEW m \in Wants(wanted, k), Stays(wanted, m),
                           Request(wanted, m) \notin Elems(ctr[k].todo) \cup Elems(ctr[k].blocks)
                    PROVE  \E b \in new : Bound(m, b)
        BY <3>6, Zenon DEF Covered
      <4>1. PICK b \in ctr[k].binds : Bound(m, b)
        BY <3>1, Zenon DEF Covered
      <4>2. CASE \A x \in nodes : x.path # b.path
        <5>1. b \in new
          BY <4>2 DEF new, Renoded
        <5>. HIDE DEF Bound
        <5>. QED BY <4>1, <5>1
      <4>3. ASSUME NEW x \in nodes, x.path = b.path PROVE \E y \in new : Bound(m, y)
        <5>1. x \in new
          BY <4>3 DEF new, Renoded
        <5>2. PICK i \in DOMAIN bs : x = bound(i)
          BY <3>3
        <5>3. x.path \in DevPaths /\ x.path = bs[i].path /\ Backs(vmi, wanted, bs[i].vol, x.inst)
          BY <2>3, <3>3, <5>2
        <5>4. PICK o \in Wants(wanted, n) : bs[i] = Request(wanted, o)
          BY <2>2 DEF Asked, A
        <5>5. bs[i].vol = o.vol /\ bs[i].path = o.path /\ o.dev = TRUE
          BY <1>2, <2>2, <5>4, AskedMount
        <5>6. k \in CtrNames(wanted)
          BY <3>1
        <5>7. m.path = x.path /\ m.dev = TRUE /\ NodesDiffer(wanted)
          <6>1. m.path = x.path /\ m.dev \in BOOLEAN
            BY <1>2, <4>1, <4>3, <5>6, WantsIs
          <6>. QED BY <5>3, <6>1, PathsAssumption DEF Stays, Hidden
        <5>8. m.vol = o.vol
          <6>1. m \in Elems(CtrOf(wanted, k).mounts) /\ o \in Elems(CtrOf(wanted, n).mounts)
            BY <1>2, <5>6, WantsIs
          <6>2. CtrOf(wanted, k) \in Elems(wanted.ctrs) /\ CtrOf(wanted, n) \in Elems(wanted.ctrs)
            BY <1>2, <5>6, CtrOfName
          <6>3. m.path = o.path /\ m.path \in DevPaths
            BY <5>3, <5>5, <5>7
          <6>. HIDE DEF Bound
          <6>4. m.dev /\ o.dev
            BY <5>5, <5>7
          <6>. QED BY <5>7, <6>1, <6>2, <6>3, <6>4, Zenon DEF NodesDiffer
        <5>9. Bound(m, x)
          BY <4>1, <5>3, <5>5, <5>7, <5>8
        <5>. HIDE DEF Bound
        <5>. QED BY <5>1, <5>9
      <4>. QED BY <4>2, <4>3
    <3>. QED BY <3>1, <3>6, <3>7, <3>8 DEF e
  <2>9. /\ ctr' = [k \in Ctrs |-> ctr'[k]] /\ ctr'[n] = c
        /\ \A k \in Ctrs \ {n} : ctr'[k] = others(k)
    <3>. HIDE DEF others
    <3>. QED BY <1>4
  <2>. HIDE DEF others
  <2>10. \A k \in Ctrs : /\ ctr'[k] \in CtrSet(Asked(wanted, k)) /\ (ctr'[k].pc # "waiting" => k \in CtrNames(wanted))
                         /\ AtPc(ctr'[k], vmi, mounted) /\ Covered(ctr'[k], k, vmi, wanted, mounted)
    BY <1>2, <2>5, <2>6, <2>7, <2>8, <2>9 DEF A
  <2>11. \A k \in Ctrs \ {n} : ctr'[k].pc = ctr[k].pc /\ ctr'[k].todo = ctr[k].todo
    BY <2>8, <2>9
  <2>12. GuestLinks' /\ MountsBacked'
    BY <1>1, <1>2 DEF GuestInv, GuestLinks, MountsBacked
  <2>13. GuestTypes'
    BY <1>1, <2>1, <2>9, <2>10 DEF GuestInv, GuestTypes
  <2>14. GuestStarts'
    BY <1>1, <2>10, Zenon DEF GuestStarts
  <2>15. GuestRaces'
    BY <1>1, <2>5, <2>9, <2>11, NoNewRace DEF First
  <2>16. GuestBlanks'
    BY <1>1, <2>5, <2>9, <2>11, NoNewBlank
  <2>. QED BY <2>12, <2>13, <2>14, <2>15, <2>16 DEF GuestInv
<1>. QED BY <1>1, <1>3, <1>4

\* A start that a failed call ends keeps GuestInv.
LEMMA FailsStep ==
    ASSUME AdmitInv, GuestInv, NEW n \in Ctrs, StartFails(n)
    PROVE  GuestInv'
<1>1. ctr[n].pc # "waiting" /\ Failed(n) /\ UNCHANGED <<pod, wanted, vmi, up, mounted, raced, fs>>
  BY DEF StartFails, apiVars
<1>2. up = TRUE /\ pod # None
  BY <1>1, StartHas DEF GuestInv
<1>. QED BY <1>1, <1>2, FailedStep

-----------------------------------------------------------------------------
(* What follows from GuestInv.                                             *)

\* Every step keeps GuestInv.
LEMMA GuestStep == AdmitInv /\ GuestInv /\ [Next]_vars /\ AdmitInv' => GuestInv'
<1>. SUFFICES ASSUME AdmitInv, GuestInv, [Next]_vars, AdmitInv' PROVE GuestInv'
  OBVIOUS
<1>1. CASE CreatePod \/ UpdatePod \/ DeletePod \/ PodGone \/ CreateVMI \/ BootVM \/ VMDies \/ UNCHANGED vars
  BY <1>1, OutsideStep
<1>2. ASSUME NEW n \in Ctrs, Starting(n) \/ StartFails(n) \/ Exit(n) PROVE GuestInv'
  BY <1>2, StartStep, CheckStep, ProbeStep, MkfsStep, MountStep, BindStep, ProcessStep, FailsStep, ExitStep DEF Starting
<1>. QED BY <1>1, <1>2 DEF Next

\* Both invariants hold always.
LEMMA GuestHolds == Spec => [](AdmitInv /\ GuestInv)
<1>1. Init => AdmitInv /\ GuestInv
  BY AdmitInit, GuestInit
<1>2. AdmitInv /\ GuestInv /\ [Next]_vars => (AdmitInv /\ GuestInv)'
  BY AdmitStep, GuestStep
<1>. QED BY <1>1, <1>2, PTL DEF Spec

\* What a running container has at a path of its manifest.
LEMMA RunningHas ==
    ASSUME AdmitInv, GuestInv, NEW n \in Ctrs, ctr[n].pc = "running", ~ctr[n].lost, NEW m \in GuestMountsWanted(n), Stays(wanted, m)
    PROVE  /\ Manifest(wanted) /\ DisksOf(vmi, wanted) /\ n \in CtrNames(wanted) /\ m \in Wants(wanted, n)
           /\ \E b \in ctr[n].binds :
                 /\ b.path = m.path /\ Backs(vmi, wanted, m.vol, b.inst)
                 /\ ~m.dev => b.inst \in Elems(mounted[m.vol])
<1>1. Manifest(wanted) /\ DisksOf(vmi, wanted) /\ n \in CtrNames(wanted)
  BY StartHas DEF GuestInv
<1>2. m \in Wants(wanted, n)
  BY Zenon DEF GuestMountsWanted, Wants
<1>3. m.dev \in BOOLEAN /\ m.vol \in Vols
  BY <1>1, <1>2, WantsIs
<1>4. AtPc(ctr[n], vmi, mounted) /\ Covered(ctr[n], n, vmi, wanted, mounted)
  BY DEF GuestInv, GuestStarts
<1>5. ctr[n].todo = <<>> /\ ctr[n].blocks = <<>>
  BY <1>4 DEF AtPc
<1>6. Elems(ctr[n].todo) \cup Elems(ctr[n].blocks) = {}
  BY <1>5 DEF Elems
<1>7. PICK b \in ctr[n].binds : b.path = m.path /\ IF m.dev THEN ctr[n].pc \in Ended /\ Backs(vmi, wanted, m.vol, b.inst) ELSE b.inst \in Elems(mounted[m.vol])
  <2>1. Request(wanted, m) \notin Elems(ctr[n].todo) \cup Elems(ctr[n].blocks)
    BY <1>6
  <2>2. ctr[n].pc # "waiting"
    OBVIOUS
  <2>. QED BY <1>2, <1>4, <2>1, <2>2, Zenon DEF Covered
<1>8. Backs(vmi, wanted, m.vol, b.inst)
  BY <1>3, <1>7 DEF GuestInv, MountsBacked
<1>. QED BY <1>1, <1>2, <1>3, <1>7, <1>8

\* A container that the agent has started finds at each path the claim or
\* the tmpfs its manifest names there, as long as serials do not collide,
\* where prepareChroot mounts nothing over it and no other container's device
\* has its name in the VM's /dev.
THEOREM RunsWithItsVolumesHolds == Spec => []RunsWithItsVolumes
<1>1. AdmitInv /\ GuestInv => RunsWithItsVolumes
  <2>. SUFFICES ASSUME AdmitInv, GuestInv, NEW n \in Ctrs, ctr[n].pc = "running", ~ctr[n].lost, SerialsDiffer(wanted),
                       NEW m \in GuestMountsWanted(n), ~Hidden(m), m.dev => NodesDiffer(wanted)
                PROVE  \E b \in ctr[n].binds :
                         LET v == VolumeOf(wanted, m.vol)
                         IN  /\ b.path = m.path
                             /\ v.kind # "ephemeral"
                             /\ b.inst.src = IF v.kind = "emptyDir" THEN "tmpfs" ELSE v.claim
                             /\ v.kind = "pvc" /\ v.ro /\ ~m.dev => b.inst.ro
    BY Zenon DEF RunsWithItsVolumes
  <2>. Stays(wanted, m)
    BY DEF Stays
  <2>. DEFINE v == VolumeOf(wanted, m.vol)
              x == Find(vmi, DiskSerial(v.name))
  <2>1. Manifest(wanted) /\ DisksOf(vmi, wanted) /\ n \in CtrNames(wanted) /\ m \in Wants(wanted, n)
    BY RunningHas
  <2>2. PICK b \in ctr[n].binds : b.path = m.path /\ Backs(vmi, wanted, m.vol, b.inst)
    BY RunningHas
  <2>3. v \in Elems(wanted.volumes) /\ v.name = m.vol /\ v.kind \in {"pvc", "ephemeral", "emptyDir"}
    BY <2>1, WantsIs DEF IsStrippedVolume
  <2>4. x # None /\ v.kind \in {"pvc", "ephemeral"} => v.kind = "pvc" /\ x = v.claim
    BY <2>1, <2>3, FoundIs
  <2>5. /\ v.kind = "emptyDir" => b.inst.src = "tmpfs"
        /\ v.kind # "emptyDir" => b.inst.src = x /\ b.inst.src # None
        /\ v.kind = "pvc" /\ v.ro => b.inst.ro
    BY <2>2, <2>3, Zenon DEF Backs
  <2>. HIDE DEF v, x
  <2>6. v.kind # "ephemeral" /\ b.inst.src = IF v.kind = "emptyDir" THEN "tmpfs" ELSE v.claim
    BY <2>3, <2>4, <2>5
  <2>. QED BY <2>2, <2>5, <2>6, Zenon DEF v
<1>. QED BY <1>1, GuestHolds, PTL

\* Containers that run side by side share the file system of a volume that
\* prepareChroot hides from neither, unless two starts at once have both found
\* it not mounted.
THEOREM VolumesAreSharedHolds == Spec => []VolumesAreShared
<1>1. AdmitInv /\ GuestInv => VolumesAreShared
  <2>. SUFFICES ASSUME AdmitInv, GuestInv, NEW n \in Ctrs, NEW k \in Ctrs, ctr[n].pc = "running", ctr[k].pc = "running",
                       \A x \in Ctrs : ~ctr[x].lost,
                       NEW m \in GuestMountsWanted(n), NEW o \in GuestMountsWanted(k),
                       m.vol = o.vol, m.vol \notin raced, ~m.dev, ~o.dev, ~Hidden(m), ~Hidden(o)
                PROVE  \E b \in ctr[n].binds, d \in ctr[k].binds : b.path = m.path /\ d.path = o.path /\ b.inst = d.inst
    BY DEF VolumesAreShared
  <2>. Stays(wanted, m) /\ Stays(wanted, o)
    BY DEF Stays
  <2>1. PICK b \in ctr[n].binds : b.path = m.path /\ b.inst \in Elems(mounted[m.vol])
    BY RunningHas
  <2>2. PICK d \in ctr[k].binds : d.path = o.path /\ d.inst \in Elems(mounted[m.vol])
    BY RunningHas
  <2>3. m.vol \in Vols
    BY RunningHas, WantsIs
  <2>4. mounted[m.vol] \in Seq(Insts) /\ Len(mounted[m.vol]) <= 1
    BY <2>3 DEF GuestInv, GuestTypes, GuestRaces
  <2>5. b.inst = d.inst
    <3>. DEFINE s == mounted[m.vol]
    <3>1. DOMAIN s = 1 .. Len(s) /\ Len(s) \in Nat
      BY <2>4, LenProperties
    <3>2. \A i, j \in DOMAIN s : i = j
      BY <2>4, <3>1
    <3>. HIDE DEF s
    <3>3. \A x, y \in Elems(s) : x = y
      BY <3>2, Zenon DEF Elems
    <3>. QED BY <2>1, <2>2, <3>3 DEF s
  <2>. QED BY <2>1, <2>2, <2>5
<1>. QED BY <1>1, GuestHolds, PTL

\* None is no manifest.
LEMMA TemplateIsThere == \A t \in Templates : t # None
<1>. SUFFICES ASSUME NEW t \in Templates PROVE t # None
  OBVIOUS
<1>1. Shape(t) /\ t.deleting = FALSE
  BY TemplatesAssumption, ManifestShape
<1>2. Flag(t, FALSE) = t
  BY <1>1, FlagSame
<1>3. [t EXCEPT !.deleting = FALSE] # None
  BY NoneAssumption
<1>. QED BY <1>2, <1>3 DEF Flag

\* mountVirtioBlk formats no claim that holds an ext file system, unless two
\* starts at once have both found it blank or its superblock was not read.
THEOREM DataIsKeptHolds == Spec => DataIsKept
<1>. DEFINE Kept == wanted = None \/ (SerialsDiffer(wanted) /\ ClaimsDiffer(wanted)) =>
                        \A k \in Claims \ (RacedClaims \cup UnreadClaims) : fs[k] > 0 => fs'[k] = fs[k]
<1>1. AdmitInv /\ GuestInv /\ [Next]_vars => [Kept]_vars
  <2>. SUFFICES ASSUME AdmitInv, GuestInv, Next, wanted = None \/ (SerialsDiffer(wanted) /\ ClaimsDiffer(wanted)),
                       NEW k \in Claims \ (RacedClaims \cup UnreadClaims), fs[k] > 0
                PROVE  fs'[k] = fs[k]
    OBVIOUS
  <2>1. CASE UNCHANGED fs
    BY <2>1
  <2>2. ASSUME NEW n \in Ctrs, Mkfs(n) PROVE fs'[k] = fs[k]
    <3>. DEFINE m == Head(ctr[n].todo)
                dev == Find(vmi, m.serial)
                v == VolumeOf(wanted, m.vol)
    <3>1. ctr[n].pc \in {"mkfs", "blind"} /\ fs' = [fs EXCEPT ![dev] = IF @ = 2 THEN 2 ELSE @ + 1]
      BY <2>2, FindIs, Zenon DEF Mkfs, Doing
    <3>2. wanted \in Templates /\ dev \in Claims
      BY <3>1, MkfsHas
    <3>3. SerialsDiffer(wanted) /\ ClaimsDiffer(wanted) /\ wanted # None
      BY <3>2, TemplateIsThere
    <3>4. v.claim = dev /\ (ctr[n].pc = "mkfs" /\ m.vol \notin raced => fs[dev] = 0)
      BY <3>1, <3>3, MkfsHas
    <3>5. m.vol \in raced => dev \in RacedClaims
      BY <3>3, <3>4 DEF RacedClaims
    <3>6. fs \in [Claims -> 0 .. 2]
      BY DEF GuestInv, GuestTypes
    <3>8. ctr[n].pc = "blind" => dev \in UnreadClaims
      BY FindIs, Zenon DEF UnreadClaims
    <3>. HIDE DEF dev, m, v
    <3>7. k # dev
      BY <3>1, <3>4, <3>5, <3>8
    <3>. QED BY <3>1, <3>2, <3>6, <3>7
  <2>3. Next => UNCHANGED fs \/ \E n \in Ctrs : Mkfs(n)
    BY DEF Next, CreatePod, UpdatePod, DeletePod, PodGone, CreateVMI, BootVM, VMDies, Starting, StartContainer, Check, Probe,
           Mount, Bind, StartProcess, StartFails, Exit
  <2>. QED BY <2>1, <2>2, <2>3
<1>. QED BY <1>1, GuestHolds, PTL DEF Spec, DataIsKept

-----------------------------------------------------------------------------
(* The VMI is large enough for its Pod.                                    *)

\* The function that a walk over 1 .. n computes, from z on.
Walk(z, g, f, n) == f = [i \in 0 .. n |-> IF i = 0 THEN z ELSE g[i][f[i - 1]]]

\* Such a function exists, and stays in what the steps do not leave.
LEMMA WalkExists ==
    ASSUME NEW z, NEW g, NEW n \in Nat
    PROVE  \E f : Walk(z, g, f, n)
<1>. DEFINE T == {k \in Nat : \E f : Walk(z, g, f, k)}
<1>1. 0 \in T
  <2>1. Walk(z, g, [i \in 0 .. 0 |-> z], 0)
    BY DEF Walk
  <2>. QED BY <2>1
<1>2. \A k \in Nat : k \in T => k + 1 \in T
  <2>. SUFFICES ASSUME NEW k \in Nat, NEW f, Walk(z, g, f, k)
                PROVE  \E h : Walk(z, g, h, k + 1)
    OBVIOUS
  <2>. DEFINE h == [i \in 0 .. k + 1 |-> IF i = 0 THEN z ELSE g[i][f[i - 1]]]
  <2>1. \A i \in 0 .. k : h[i] = f[i]
    <3>. TAKE i \in 0 .. k
    <3>1. f[i] = IF i = 0 THEN z ELSE g[i][f[i - 1]]
      BY Zenon DEF Walk
    <3>2. i \in 0 .. k + 1
      OBVIOUS
    <3>. QED BY <3>1, <3>2, Zenon
  <2>2. \A i \in 0 .. k + 1 : i # 0 => i - 1 \in 0 .. k
    OBVIOUS
  <2>3. Walk(z, g, h, k + 1)
    BY <2>1, <2>2 DEF Walk
  <2>. QED BY <2>3
<1>. HIDE DEF T
<1>3. n \in T
  BY <1>1, <1>2, SetInduction
<1>. QED BY <1>3 DEF T

\* A walk that starts in Y and does not leave it is in Y.
LEMMA WalkStays ==
    ASSUME NEW Y, NEW n \in Nat, NEW f, f[0] \in Y, \A i \in 1 .. n : f[i - 1] \in Y => f[i] \in Y
    PROVE  \A k \in 0 .. n : f[k] \in Y
<1>. SUFFICES ASSUME NEW k \in 0 .. n PROVE f[k] \in Y
  OBVIOUS
<1>. DEFINE T == {i \in 0 .. k : f[i] \in Y}
<1>1. 0 \in T /\ k \in Nat
  OBVIOUS
<1>2. ASSUME NEW i \in 0 .. k - 1, i \in T PROVE i + 1 \in T
  <2>1. i + 1 \in 0 .. k /\ i + 1 \in 1 .. n /\ i + 1 - 1 = i
    OBVIOUS
  <2>2. f[i] \in Y => f[i + 1] \in Y
    BY <2>1
  <2>. QED BY <1>2, <2>1, <2>2
<1>3. k \in T
  <2>. HIDE DEF T
  <2>. QED BY <1>1, <1>2, UpTo
<1>. QED BY <1>3

\* The same, step by step.
Walks(z, g, f, n) == f[0] = z /\ (\A i \in 1 .. n : f[i] = g[i][f[i - 1]]) /\ f = [i \in 0 .. n |-> f[i]]

\* There is such a walk.
LEMMA WalkIs ==
    ASSUME NEW z, NEW g, NEW n \in Nat
    PROVE  \E f : Walks(z, g, f, n)
<1>0. PICK f : Walk(z, g, f, n)
  BY WalkExists
<1>1. \A i \in 0 .. n : f[i] = IF i = 0 THEN z ELSE g[i][f[i - 1]]
  BY <1>0, Zenon DEF Walk
<1>2. f = [i \in 0 .. n |-> f[i]]
  BY <1>0, Zenon DEF Walk
<1>3. 0 \in 0 .. n /\ \A i \in 1 .. n : i \in 0 .. n /\ i # 0
  OBVIOUS
<1>4. f[0] = z /\ (\A i \in 1 .. n : f[i] = g[i][f[i - 1]])
  BY <1>1, <1>3, Zenon
<1>5. Walks(z, g, f, n)
  BY <1>2, <1>4, Zenon DEF Walks
<1>. QED BY <1>5

\* Sums of natural numbers.
LEMMA SumNat ==
    ASSUME NEW s \in Seq(Nat)
    PROVE  Sum(s) \in Nat
<1>. DEFINE n == Len(s)
            z == 0
            P(f) == f = [i \in 0 .. n |-> IF i = 0 THEN z ELSE f[i - 1] + s[i]]
            g == [i \in 1 .. n |-> [y \in Nat |-> y + s[i]]]
<1>1. n \in Nat /\ z \in Nat /\ (\A i \in 1 .. n : s[i] \in Nat)
  BY LenProperties, ElementOfSeq
<1>2. \A i \in 1 .. n : \A y \in Nat : g[i][y] = y + s[i] /\ y + s[i] \in Nat
  BY <1>1
<1>3. 0 \in 0 .. n /\ (\A i \in 1 .. n : i \in 0 .. n /\ i # 0 /\ i - 1 \in 0 .. n)
         /\ \A i \in 0 .. n : i # 0 => i \in 1 .. n
  BY <1>1
<1>. HIDE DEF n, z, g
<1>4. PICK f : Walks(z, g, f, n)
  BY <1>1, WalkIs
<1>5. f[0] = z /\ (\A i \in 1 .. n : f[i] = g[i][f[i - 1]]) /\ f = [i \in 0 .. n |-> f[i]]
  BY <1>4, Zenon DEF Walks
<1>6. \A i \in 0 .. n : f[i] \in Nat
  <2>1. f[0] \in Nat
    BY <1>1, <1>5, Zenon
  <2>2. \A i \in 1 .. n : f[i - 1] \in Nat => f[i] \in Nat
    <3>. TAKE i \in 1 .. n
    <3>1. f[i] = g[i][f[i - 1]]
      BY <1>5
    <3>. HAVE f[i - 1] \in Nat
    <3>2. g[i][f[i - 1]] \in Nat
      BY <1>2
    <3>. QED BY <3>1, <3>2
  <2>. QED BY <1>1, <2>1, <2>2, WalkStays
<1>7. \E h : P(h)
  <2>1. \A i \in 0 .. n : f[i] = IF i = 0 THEN z ELSE f[i - 1] + s[i]
    BY <1>2, <1>3, <1>5, <1>6, Zenon
  <2>2. P(f)
    BY <1>5, <2>1, Zenon
  <2>. QED BY <2>2
<1>. DEFINE h == CHOOSE f1 : P(f1)
<1>8. P(h)
  <2>. HIDE DEF P
  <2>. QED BY <1>7, Zenon
<1>9. Sum(s) = h[n]
  BY Zenon DEF Sum, n, z
<1>. HIDE DEF h
<1>10. \A i \in 0 .. n : h[i] = IF i = 0 THEN z ELSE h[i - 1] + s[i]
  BY <1>8, Zenon
<1>11. h[0] \in Nat /\ \A i \in 1 .. n : h[i - 1] \in Nat => h[i] \in Nat
  BY <1>1, <1>2, <1>3, <1>10, Zenon
<1>12. \A i \in 0 .. n : h[i] \in Nat
  BY <1>1, <1>11, WalkStays
<1>13. n \in 0 .. n
  BY <1>1
<1>. QED BY <1>9, <1>12, <1>13

\* A list of ports without a number twice.
PortOnce(out) == \A i, j \in DOMAIN out : out[i].port = out[j].port => i = j
PortLists(X) == {out \in Seq(X) : PortOnce(out)}

\* AddPort makes one of one.
LEMMA AddPortIn ==
    ASSUME NEW X, NEW out \in PortLists(X), NEW p \in X
    PROVE  AddPort(out, p) \in PortLists(X)
<1>1. out \in Seq(X) /\ PortOnce(out)
  BY DEF PortLists
<1>2. CASE p.port = 0 \/ \E q \in Elems(out) : q.port = p.port
  BY <1>2 DEF AddPort
<1>3. CASE ~(p.port = 0 \/ \E q \in Elems(out) : q.port = p.port)
  <2>. DEFINE a == Append(out, p)
  <2>1. AddPort(out, p) = a
    BY <1>3 DEF AddPort
  <2>2. Len(out) \in Nat /\ DOMAIN out = 1 .. Len(out) /\ a \in Seq(X) /\ DOMAIN a = 1 .. Len(out) + 1
    BY <1>1, LenProperties, AppendProperties
  <2>3. a[Len(out) + 1] = p /\ \A i \in 1 .. Len(out) : a[i] = out[i]
    BY <1>1, AppendProperties
  <2>4. \A i \in 1 .. Len(out) : out[i].port # p.port
    BY <1>3, <2>2 DEF Elems
  <2>. HIDE DEF a
  <2>5. ASSUME NEW i \in DOMAIN a, NEW j \in DOMAIN a, a[i].port = a[j].port PROVE i = j
    <3>1. (i \in DOMAIN out \/ i = Len(out) + 1) /\ (j \in DOMAIN out \/ j = Len(out) + 1)
      BY <2>2
    <3>2. CASE i \in DOMAIN out /\ j \in DOMAIN out
      <4>1. out[i].port = out[j].port
        BY <2>2, <2>3, <2>5, <3>2
      <4>. QED BY <1>1, <3>2, <4>1 DEF PortOnce
    <3>3. CASE i = Len(out) + 1 /\ j \in DOMAIN out
      BY <2>2, <2>3, <2>4, <2>5, <3>3
    <3>4. CASE i \in DOMAIN out /\ j = Len(out) + 1
      BY <2>2, <2>3, <2>4, <2>5, <3>4
    <3>. QED BY <3>1, <3>2, <3>3, <3>4
  <2>6. PortOnce(a)
    BY <2>5 DEF PortOnce
  <2>. QED BY <2>1, <2>2, <2>6 DEF PortLists
<1>. QED BY <1>2, <1>3

\* A walk whose steps do not leave Y.
LEMMA WalkIn ==
    ASSUME NEW Y, NEW z \in Y, NEW g, NEW n \in Nat, \A i \in 1 .. n : \A y \in Y : g[i][y] \in Y
    PROVE  \E f : Walks(z, g, f, n) /\ \A i \in 0 .. n : f[i] \in Y
<1>1. PICK f : Walks(z, g, f, n)
  BY WalkIs
<1>2. f[0] = z /\ (\A i \in 1 .. n : f[i] = g[i][f[i - 1]])
  BY <1>1, Zenon DEF Walks
<1>3. \A i \in 1 .. n : f[i - 1] \in Y => f[i] \in Y
  BY <1>2, Zenon
<1>4. \A i \in 0 .. n : f[i] \in Y
  BY <1>2, <1>3, WalkStays
<1>. QED BY <1>1, <1>4

\* AddPorts makes one of one.
LEMMA AddPortsIn ==
    ASSUME NEW X, NEW out \in PortLists(X), NEW ports \in Seq(X)
    PROVE  AddPorts(out, ports) \in PortLists(X)
<1>. DEFINE n == Len(ports)
            Y == PortLists(X)
            P(f) == f = [i \in 0 .. n |-> IF i = 0 THEN out ELSE AddPort(f[i - 1], ports[i])]
            g == [i \in 1 .. n |-> [y \in Y |-> AddPort(y, ports[i])]]
<1>1. n \in Nat /\ (\A i \in 1 .. n : ports[i] \in X)
  BY LenProperties, ElementOfSeq
<1>2. \A i \in 1 .. n : \A y \in Y : g[i][y] = AddPort(y, ports[i]) /\ AddPort(y, ports[i]) \in Y
  <2>1. \A i \in 1 .. n : \A y \in Y : AddPort(y, ports[i]) \in Y
    BY <1>1, AddPortIn
  <2>. HIDE DEF Y, n
  <2>. QED BY <2>1, Zenon
<1>3. 0 \in 0 .. n /\ n \in 0 .. n /\ (\A i \in 1 .. n : i \in 0 .. n /\ i # 0 /\ i - 1 \in 0 .. n)
         /\ \A i \in 0 .. n : i # 0 => i \in 1 .. n
  BY <1>1
<1>4. out \in Y
  OBVIOUS
<1>. HIDE DEF n, g, Y
<1>5. PICK f : Walks(out, g, f, n) /\ \A i \in 0 .. n : f[i] \in Y
  <2>1. \A i \in 1 .. n : \A y \in Y : g[i][y] \in Y
    BY <1>2, Zenon
  <2>. QED BY <1>1, <1>4, <2>1, WalkIn
<1>6. f[0] = out /\ (\A i \in 1 .. n : f[i] = g[i][f[i - 1]]) /\ f = [i \in 0 .. n |-> f[i]]
  BY <1>5, Zenon DEF Walks
<1>7. \E h : P(h)
  <2>1. \A i \in 0 .. n : f[i] = IF i = 0 THEN out ELSE AddPort(f[i - 1], ports[i])
    BY <1>2, <1>3, <1>5, <1>6, Zenon
  <2>2. P(f)
    BY <1>6, <2>1, Zenon
  <2>. QED BY <2>2
<1>. DEFINE h == CHOOSE f1 : P(f1)
<1>8. P(h)
  <2>. HIDE DEF P
  <2>. QED BY <1>7, Zenon
<1>9. AddPorts(out, ports) = h[n]
  BY Zenon DEF AddPorts, n
<1>. HIDE DEF h
<1>10. \A i \in 0 .. n : h[i] = IF i = 0 THEN out ELSE AddPort(h[i - 1], ports[i])
  BY <1>8, Zenon
<1>11. h[0] \in Y /\ \A i \in 1 .. n : h[i - 1] \in Y => h[i] \in Y
  BY <1>2, <1>3, <1>4, <1>10, Zenon
<1>12. \A i \in 0 .. n : h[i] \in Y
  BY <1>1, <1>11, WalkStays
<1>. QED BY <1>3, <1>9, <1>12, Zenon DEF Y

\* WorkloadPorts has no number twice.
LEMMA WorkloadPortsIn ==
    ASSUME NEW p, IsSeq(p.ctrs), \A c \in Elems(p.ctrs) : IsSeq(c.ports)
    PROVE  PortOnce(WorkloadPorts(p))
<1>. DEFINE cs == AppCtrs(p)
            n == Len(cs)
            X == {AgentPort} \cup UNION {Elems(c.ports) : c \in Elems(p.ctrs)}
            Y == PortLists(X)
            z == <<AgentPort>>
            P(f) == f = [i \in 0 .. n |-> IF i = 0 THEN z ELSE AddPorts(f[i - 1], cs[i].ports)]
            g == [i \in 1 .. n |-> [y \in Y |-> AddPorts(y, cs[i].ports)]]
<1>0. cs \in Seq(Elems(p.ctrs))
  BY OnlyElems DEF IsSeq, AppCtrs, Keep
<1>. HIDE DEF cs
<1>1. n \in Nat /\ (\A i \in 1 .. n : cs[i] \in Elems(p.ctrs))
  BY <1>0, LenProperties, ElementOfSeq
<1>. HIDE DEF n
<1>2. \A i \in 1 .. n : \A y \in Y : g[i][y] = AddPorts(y, cs[i].ports) /\ AddPorts(y, cs[i].ports) \in Y
  <2>1. ASSUME NEW i \in 1 .. n, NEW y \in Y PROVE AddPorts(y, cs[i].ports) \in Y
    <3>. DEFINE c == cs[i]
    <3>1. c \in Elems(p.ctrs)
      BY <1>1
    <3>. HIDE DEF c
    <3>2. c.ports \in Seq(Elems(c.ports)) /\ Elems(c.ports) \subseteq X
      BY <3>1 DEF IsSeq
    <3>. HIDE DEF X
    <3>3. c.ports \in Seq(X)
      BY <3>2
    <3>. QED BY <3>3, AddPortsIn DEF c
  <2>. HIDE DEF Y
  <2>. QED BY <2>1, Zenon
<1>3. 0 \in 0 .. n /\ n \in 0 .. n /\ (\A i \in 1 .. n : i \in 0 .. n /\ i # 0 /\ i - 1 \in 0 .. n)
         /\ \A i \in 0 .. n : i # 0 => i \in 1 .. n
  BY <1>1
<1>4. z \in Y
  <2>1. AgentPort \in X
    OBVIOUS
  <2>. HIDE DEF X
  <2>2. z \in Seq(X) /\ DOMAIN z = {1}
    BY <2>1
  <2>. QED BY <2>2 DEF PortLists, PortOnce
<1>. HIDE DEF g, Y, z
<1>5. PICK f : Walks(z, g, f, n) /\ \A i \in 0 .. n : f[i] \in Y
  <2>1. \A i \in 1 .. n : \A y \in Y : g[i][y] \in Y
    BY <1>2, Zenon
  <2>. QED BY <1>1, <1>4, <2>1, WalkIn
<1>6. f[0] = z /\ (\A i \in 1 .. n : f[i] = g[i][f[i - 1]]) /\ f = [i \in 0 .. n |-> f[i]]
  BY <1>5, Zenon DEF Walks
<1>7. \E h : P(h)
  <2>1. \A i \in 0 .. n : f[i] = IF i = 0 THEN z ELSE AddPorts(f[i - 1], cs[i].ports)
    BY <1>2, <1>3, <1>5, <1>6, Zenon
  <2>2. P(f)
    BY <1>6, <2>1, Zenon
  <2>. QED BY <2>2
<1>. DEFINE h == CHOOSE f1 : P(f1)
<1>8. P(h)
  <2>. HIDE DEF P
  <2>. QED BY <1>7, Zenon
<1>9. WorkloadPorts(p) = h[n]
  BY Zenon DEF WorkloadPorts, n, z, cs
<1>. HIDE DEF h
<1>10. \A i \in 0 .. n : h[i] = IF i = 0 THEN z ELSE AddPorts(h[i - 1], cs[i].ports)
  BY <1>8, Zenon
<1>11. h[0] \in Y /\ \A i \in 1 .. n : h[i - 1] \in Y => h[i] \in Y
  BY <1>2, <1>3, <1>4, <1>10, Zenon
<1>12. \A i \in 0 .. n : h[i] \in Y
  BY <1>1, <1>11, WalkStays
<1>. QED BY <1>3, <1>9, <1>12, Zenon DEF Y, PortLists

\* What is kept of a mapped sequence.
LEMMA OnlyMap ==
    ASSUME NEW X, NEW Z, NEW s \in Seq(X), NEW t \in Seq(Z), NEW M, NEW S, NEW T, Len(s) = Len(t),
           \A i \in 1 .. Len(t) : s[i] = M[t[i]] /\ (s[i] \in S <=> t[i] \in T)
    PROVE  /\ Len(Only(s, S)) = Len(Only(t, T))
           /\ \A k \in 1 .. Len(Only(t, T)) : Only(s, S)[k] = M[Only(t, T)[k]]
<1>0. Len(s) \in Nat /\ \A i \in 1 .. Len(s) : s[i] \in X /\ t[i] \in Z
  BY LenProperties, ElementOfSeq
<1>1. PICK f : Keeps(s, S, f, Len(s)) /\ Only(s, S) = f[Len(s)]
  BY OnlyRec
<1>2. PICK h : Keeps(t, T, h, Len(t)) /\ Only(t, T) = h[Len(t)]
  BY OnlyRec
<1>. DEFINE n == Len(s)
            P(i) == /\ f[i] \in Seq(X) /\ h[i] \in Seq(Z) /\ Len(f[i]) = Len(h[i])
                    /\ \A k \in 1 .. Len(h[i]) : f[i][k] = M[h[i][k]]
            U == {i \in 0 .. n : P(i)}
<1>3. f[0] = <<>> /\ \A i \in 0 .. n - 1 : f[i + 1] = IF s[i + 1] \in S THEN Append(f[i], s[i + 1]) ELSE f[i]
  BY <1>0, <1>1, KeepsStep
<1>4. h[0] = <<>> /\ \A i \in 0 .. n - 1 : h[i + 1] = IF t[i + 1] \in T THEN Append(h[i], t[i + 1]) ELSE h[i]
  BY <1>0, <1>2, KeepsStep
<1>5. P(0)
  BY <1>3, <1>4
<1>. HIDE DEF n
<1>6. ASSUME NEW i \in 0 .. n - 1, P(i)
      PROVE  P(i + 1)
  <2>1. i \in Nat /\ i + 1 \in 1 .. n /\ s[i + 1] \in X /\ t[i + 1] \in Z /\ s[i + 1] = M[t[i + 1]] /\ (s[i + 1] \in S <=> t[i + 1] \in T)
    BY <1>0 DEF n
  <2>2. CASE s[i + 1] \in S
    <3>. DEFINE a == f[i]
                b == h[i]
                x == s[i + 1]
                y == t[i + 1]
                c == Append(a, x)
                d == Append(b, y)
    <3>1. f[i + 1] = c /\ h[i + 1] = d
      BY <1>3, <1>4, <2>1, <2>2
    <3>2. a \in Seq(X) /\ b \in Seq(Z) /\ x \in X /\ y \in Z /\ x = M[y] /\ Len(a) = Len(b) /\ \A k \in 1 .. Len(b) : a[k] = M[b[k]]
      BY <1>6, <2>1
    <3>. HIDE DEF a, b, x, y
    <3>3. /\ c \in Seq(X) /\ Len(c) = Len(a) + 1 /\ c[Len(a) + 1] = x /\ \A k \in 1 .. Len(a) : c[k] = a[k]
      BY <3>2, AppendProperties
    <3>4. /\ d \in Seq(Z) /\ Len(d) = Len(b) + 1 /\ d[Len(b) + 1] = y /\ \A k \in 1 .. Len(b) : d[k] = b[k]
      BY <3>2, AppendProperties
    <3>5. Len(b) \in Nat
      BY <3>2, LenProperties
    <3>. HIDE DEF c, d
    <3>6. \A k \in 1 .. Len(d) : c[k] = M[d[k]]
      <4>. TAKE k \in 1 .. Len(d)
      <4>1. k \in 1 .. Len(b) \/ k = Len(b) + 1
        BY <3>4, <3>5
      <4>. QED BY <3>2, <3>3, <3>4, <4>1
    <3>. QED BY <3>1, <3>2, <3>3, <3>4, <3>6
  <2>3. CASE s[i + 1] \notin S
    <3>1. f[i + 1] = f[i] /\ h[i + 1] = h[i]
      BY <1>3, <1>4, <2>1, <2>3
    <3>. QED BY <1>6, <3>1
  <2>. QED BY <2>2, <2>3
<1>7. P(n)
  <2>. HIDE DEF P
  <2>1. n \in Nat
    BY <1>0 DEF n
  <2>2. 0 \in U /\ \A i \in 0 .. n - 1 : i \in U => i + 1 \in U
    BY <1>5, <1>6, <2>1
  <2>3. n \in U
    <3>. HIDE DEF U
    <3>. QED BY <2>1, <2>2, UpTo
  <2>. QED BY <2>3
<1>. QED BY <1>1, <1>2, <1>7 DEF n

\* A Pod whose containers are those of its manifest, with their mounts put back.
Whole(q, w) ==
    /\ q.rootfs = w.rootfs /\ RestoreVolumes(q) = q
    /\ q.volumes = w.volumes \/ q.volumes = BackVolumes(w)
    /\ q.ctrs = w.ctrs \/ q.ctrs = BackCtrs(w)

\* Its containers ask for what those of the manifest ask.
LEMMA WholeCtrs ==
    ASSUME NEW w, Manifest(w), NEW q, Whole(q, w)
    PROVE  /\ DOMAIN q.ctrs = DOMAIN w.ctrs /\ DOMAIN w.ctrs = 1 .. Len(w.ctrs) /\ Len(w.ctrs) \in Nat
           /\ \A i \in DOMAIN w.ctrs : /\ q.ctrs[i].cpu = w.ctrs[i].cpu /\ q.ctrs[i].mem = w.ctrs[i].mem
                                       /\ q.ctrs[i].pages = w.ctrs[i].pages /\ q.ctrs[i].ports = w.ctrs[i].ports
                                       /\ q.ctrs[i].init = w.ctrs[i].init
           /\ IsSeq(q.ctrs) /\ Len(q.ctrs) = Len(w.ctrs)
           /\ \A c \in Elems(q.ctrs) : IsSeq(c.ports)
<1>1. w.ctrs \in Seq(Elems(w.ctrs)) /\ \A c \in Elems(w.ctrs) : IsSeq(c.ports)
  BY DEF Manifest, ValidCtr, IsSeq
<1>2. DOMAIN w.ctrs = 1 .. Len(w.ctrs) /\ Len(w.ctrs) \in Nat
  BY <1>1, LenProperties
<1>3. DOMAIN q.ctrs = DOMAIN w.ctrs
  BY Zenon DEF Whole, BackCtrs
<1>4. ASSUME NEW i \in DOMAIN w.ctrs
      PROVE  /\ q.ctrs[i].cpu = w.ctrs[i].cpu /\ q.ctrs[i].mem = w.ctrs[i].mem
             /\ q.ctrs[i].pages = w.ctrs[i].pages /\ q.ctrs[i].ports = w.ctrs[i].ports
             /\ q.ctrs[i].init = w.ctrs[i].init
  <2>1. CASE q.ctrs = w.ctrs
    BY <2>1
  <2>2. CASE q.ctrs = BackCtrs(w)
    <3>. DEFINE c == w.ctrs[i]
    <3>1. q.ctrs[i] = BackRec(c, Stripped(w))
      BY <2>2, Zenon DEF BackCtrs
    <3>. HIDE DEF c
    <3>. DEFINE d == BackRec(c, Stripped(w))
    <3>2. d.cpu = c.cpu /\ d.mem = c.mem /\ d.pages = c.pages /\ d.ports = c.ports /\ d.init = c.init
      BY BackFields, Zenon
    <3>. HIDE DEF d
    <3>. QED BY <3>1, <3>2 DEF c, d
  <2>. QED BY <2>1, <2>2 DEF Whole
<1>5. IsSeq(q.ctrs) /\ Len(q.ctrs) = Len(w.ctrs)
  <2>1. q.ctrs = [i \in 1 .. Len(w.ctrs) |-> q.ctrs[i]]
    <3>1. CASE q.ctrs = w.ctrs
      BY <1>1, <3>1, LenProperties
    <3>2. CASE q.ctrs = BackCtrs(w)
      BY <1>2, <3>2, Zenon DEF BackCtrs
    <3>. QED BY <3>1, <3>2 DEF Whole
  <2>2. \A i \in 1 .. Len(w.ctrs) : q.ctrs[i] \in Elems(q.ctrs)
    BY <1>2, <1>3 DEF Elems
  <2>3. q.ctrs \in [1 .. Len(w.ctrs) -> Elems(q.ctrs)]
    BY <2>1, <2>2
  <2>. QED BY <1>2, <2>3, SeqDef, LenProperties DEF IsSeq
<1>6. ASSUME NEW c \in Elems(q.ctrs) PROVE IsSeq(c.ports)
  <2>1. PICK i \in DOMAIN w.ctrs : c = q.ctrs[i]
    BY <1>3 DEF Elems
  <2>2. w.ctrs[i] \in Elems(w.ctrs)
    BY DEF Elems
  <2>. QED BY <1>1, <1>4, <2>1, <2>2
<1>. QED BY <1>2, <1>3, <1>4, <1>5, <1>6

\* What the containers of a manifest ask for together.
MemAsked(w) == Sum([i \in DOMAIN w.ctrs |-> w.ctrs[i].mem])
CpuAsked(w) == Sum([i \in DOMAIN w.ctrs |-> w.ctrs[i].cpu])

\* These are numbers.
LEMMA AskedNat ==
    ASSUME NEW w, Manifest(w)
    PROVE  MemAsked(w) \in Nat /\ CpuAsked(w) \in Nat
<1>. DEFINE n == Len(w.ctrs)
            m == [i \in DOMAIN w.ctrs |-> w.ctrs[i].mem]
            c == [i \in DOMAIN w.ctrs |-> w.ctrs[i].cpu]
<1>1. DOMAIN w.ctrs = 1 .. n /\ n \in Nat
  BY LenProperties DEF Manifest, IsSeq
<1>2. \A i \in DOMAIN w.ctrs : w.ctrs[i].mem \in Nat /\ w.ctrs[i].cpu \in Nat
  BY DEF Manifest, ValidCtr, Elems
<1>. HIDE DEF n
<1>3. m \in [1 .. n -> Nat] /\ c \in [1 .. n -> Nat]
  BY <1>1, <1>2
<1>. HIDE DEF m, c
<1>4. m \in Seq(Nat) /\ c \in Seq(Nat)
  BY <1>1, <1>3, SeqDef
<1>5. Sum(m) \in Nat /\ Sum(c) \in Nat
  BY <1>4, SumNat
<1>. QED BY <1>5 DEF MemAsked, CpuAsked, m, c

\* The guest is as large as the containers together.
LEMMA GuestIsLarge ==
    ASSUME NEW w, Manifest(w), NEW q, Whole(q, w)
    PROVE  /\ GuestMem(q) >= MemAsked(w)
           /\ 1000 * GuestCores(q) >= CpuAsked(w)
<1>. DEFINE mem == MemAsked(w)
            cpu == CpuAsked(w)
            conf == Confidential(ResolveTEE(q))
<1>1. Sum(Field(q.ctrs, LAMBDA c : c.mem)) = mem /\ Sum(Field(q.ctrs, LAMBDA c : c.cpu)) = cpu
  <2>1. DOMAIN q.ctrs = DOMAIN w.ctrs /\ \A i \in DOMAIN w.ctrs : q.ctrs[i].cpu = w.ctrs[i].cpu /\ q.ctrs[i].mem = w.ctrs[i].mem
    BY WholeCtrs
  <2>2. Field(q.ctrs, LAMBDA c : c.mem) = [i \in DOMAIN w.ctrs |-> w.ctrs[i].mem]
    BY <2>1, Zenon DEF Field
  <2>3. Field(q.ctrs, LAMBDA c : c.cpu) = [i \in DOMAIN w.ctrs |-> w.ctrs[i].cpu]
    BY <2>1, Zenon DEF Field
  <2>. QED BY <2>2, <2>3, Zenon DEF MemAsked, CpuAsked
<1>2. mem \in Nat /\ cpu \in Nat
  BY AskedNat
<1>. HIDE DEF mem, cpu, conf
<1>3. GuestMem(q) = (IF mem + Overhead.mem < MinGuestMem THEN MinGuestMem ELSE mem + Overhead.mem) + IF conf THEN TeeSlop ELSE 0
  BY <1>1, Zenon DEF GuestMem, conf
<1>4. GuestCores(q) = Cores(cpu + Overhead.cpu)
  BY <1>1, Zenon DEF GuestCores
<1>5. Overhead.mem \in Nat /\ Overhead.cpu \in Nat /\ MinGuestMem \in Nat /\ TeeSlop \in Nat
  BY SettingsAssumption, LimitsAssumption
<1>6. GuestMem(q) >= mem
  BY <1>2, <1>3, <1>5
<1>7. ASSUME NEW k \in Nat PROVE 1000 * Cores(k) >= k
  <2>1. CASE k = 0
    BY <2>1 DEF Cores
  <2>2. CASE k # 0
    BY <2>2 DEF Cores
  <2>. QED BY <2>1, <2>2
<1>8. ASSUME NEW k \in Nat PROVE Cores(k) \in Nat
  BY DEF Cores
<1>9. 1000 * GuestCores(q) >= cpu
  <2>. DEFINE k == cpu + Overhead.cpu
  <2>1. k \in Nat /\ k >= cpu
    BY <1>2, <1>5
  <2>. HIDE DEF k
  <2>2. 1000 * Cores(k) >= k /\ Cores(k) \in Nat
    BY <1>7, <1>8, <2>1
  <2>. QED BY <1>2, <1>4, <2>1, <2>2 DEF k
<1>. QED BY <1>6, <1>9 DEF mem, cpu

\* The Pod asks for the pages of its manifest.
LEMMA SamePages ==
    ASSUME NEW w, Manifest(w), NEW q, Whole(q, w)
    PROVE  PagesAsked(q) = PagesAsked(w)
<1>. DEFINE s == q.ctrs
            t == w.ctrs
            S == {x \in Elems(s) : ~x.init}
            T == {x \in Elems(t) : ~x.init}
            M == [c \in Elems(t) |-> BackRec(c, Stripped(w))]
<1>1. /\ DOMAIN s = DOMAIN t /\ DOMAIN t = 1 .. Len(t) /\ Len(t) \in Nat /\ IsSeq(s) /\ Len(s) = Len(t)
      /\ \A i \in DOMAIN t : s[i].pages = t[i].pages /\ s[i].init = t[i].init
  BY WholeCtrs
<1>2. s \in Seq(Elems(s)) /\ t \in Seq(Elems(t))
  BY <1>1 DEF Manifest, IsSeq
<1>3. CASE q.ctrs = w.ctrs
  BY <1>3, Zenon DEF PagesAsked, PageRequests, AppCtrs, Keep, Field
<1>4. CASE q.ctrs = BackCtrs(w)
  <2>1. \A i \in 1 .. Len(t) : s[i] = M[t[i]] /\ (s[i] \in S <=> t[i] \in T)
    <3>. TAKE i \in 1 .. Len(t)
    <3>1. i \in DOMAIN t /\ t[i] \in Elems(t) /\ s[i] \in Elems(s) /\ s[i].init = t[i].init
      BY <1>1 DEF Elems
    <3>2. s[i] = M[t[i]]
      BY <1>4, <3>1, Zenon DEF BackCtrs
    <3>. QED BY <3>1, <3>2, Zenon
  <2>. DEFINE a == Only(s, S)
              b == Only(t, T)
  <2>. HIDE DEF S, T, M
  <2>2. Len(a) = Len(b) /\ \A k \in 1 .. Len(b) : a[k] = M[b[k]]
    <3>. HIDE DEF s, t
    <3>1. Len(s) = Len(t)
      BY <1>1
    <3>. QED BY <1>2, <2>1, <3>1, OnlyMap
  <2>3. a \in Seq(Elems(s)) /\ b \in Seq(Elems(t))
    BY <1>2, OnlyElems
  <2>. HIDE DEF a, b
  <2>4. DOMAIN a = DOMAIN b /\ DOMAIN b = 1 .. Len(b) /\ \A k \in DOMAIN b : b[k] \in Elems(t)
    BY <2>2, <2>3, LenProperties, ElementOfSeq
  <2>5. \A k \in DOMAIN b : a[k].pages = b[k].pages
    <3>. TAKE k \in DOMAIN b
    <3>1. PICK i \in DOMAIN t : b[k] = t[i]
      BY <2>4 DEF Elems
    <3>2. a[k] = s[i]
      BY <1>1, <2>1, <2>2, <2>4, <3>1
    <3>. QED BY <1>1, <3>1, <3>2
  <2>6. AppCtrs(q) = a /\ AppCtrs(w) = b
    BY Zenon DEF AppCtrs, Keep, a, b, S, T
  <2>7. Field(AppCtrs(q), LAMBDA c : c.pages) = Field(AppCtrs(w), LAMBDA c : c.pages)
    BY <2>4, <2>5, <2>6, Zenon DEF Field
  <2>8. PageRequests(q) = PageRequests(w)
    BY <2>7, Zenon DEF PageRequests
  <2>. QED BY <2>8, Zenon DEF PagesAsked, Field
<1>. QED BY <1>3, <1>4 DEF Whole

\* A guest with pages has all its memory in them.
LEMMA PagesHold ==
    ASSUME NEW w, Manifest(w), NEW q, Whole(q, w), ApplyHugepages(q) # None
    PROVE  PagesAsked(w) >= GuestMem(q)
<1>1. PagesAsked(q) >= GuestMem(q)
  BY Zenon DEF ApplyHugepages
<1>. QED BY <1>1, SamePages, Zenon

\* PickSizeClass finds a class that holds the guest if there is one.
LEMMA ClassHolds ==
    ASSUME NEW cores, NEW mem,
           \E cl \in Elems(SizeClasses) : Cores(cl.cpu) >= cores /\ cl.mem >= mem
    PROVE  \E cl \in Elems(SizeClasses) : cl.name = PickSizeClass(cores, mem) /\ Cores(cl.cpu) >= cores /\ cl.mem >= mem
<1>. DEFINE sc == SizeClasses
            fits == {i \in DOMAIN sc : Cores(sc[i].cpu) >= cores /\ sc[i].mem >= mem}
            k == CHOOSE i \in fits : \A j \in fits : i <= j
<1>1. fits # {}
  BY DEF Elems
<1>2. fits \subseteq Nat
  <2>1. DOMAIN sc \subseteq Nat
    BY SettingsAssumption, LenProperties DEF IsSeq
  <2>. QED BY <2>1
<1>3. sc # <<>>
  BY <1>1
<1>. HIDE DEF sc
<1>4. PickSizeClass(cores, mem) = sc[k].name
  BY <1>1, <1>3, Zenon DEF PickSizeClass, sc
<1>5. k \in fits
  <2>. HIDE DEF fits
  <2>1. \E i \in fits : \A j \in fits : i <= j
    BY <1>1, <1>2, Least
  <2>. QED BY <2>1, Zenon
<1>. HIDE DEF k
<1>6. sc[k] \in Elems(sc) /\ Cores(sc[k].cpu) >= cores /\ sc[k].mem >= mem
  BY <1>5, Zenon DEF Elems
<1>. QED BY <1>4, <1>6, Zenon DEF sc

\* A sequence without an element twice.
Once(s) == \A i, j \in 1 .. Len(s) : s[i] = s[j] => i = j

\* Only puts no element twice.
LEMMA OnlyOnce ==
    ASSUME NEW X, NEW s \in Seq(X), NEW S, Once(s)
    PROVE  Once(Only(s, S))
<1>0. Len(s) \in Nat /\ \A i \in 1 .. Len(s) : s[i] \in X
  BY LenProperties, ElementOfSeq
<1>1. PICK f : Keeps(s, S, f, Len(s)) /\ Only(s, S) = f[Len(s)]
  BY OnlyRec
<1>. DEFINE n == Len(s)
            P(i) == f[i] \in Seq(X) /\ Once(f[i]) /\ \A k \in 1 .. Len(f[i]) : \E j \in 1 .. i : f[i][k] = s[j]
            U == {i \in 0 .. n : P(i)}
<1>2. f[0] = <<>> /\ \A i \in 0 .. n - 1 : f[i + 1] = IF s[i + 1] \in S THEN Append(f[i], s[i + 1]) ELSE f[i]
  BY <1>0, <1>1, KeepsStep
<1>3. P(0)
  BY <1>2 DEF Once
<1>. HIDE DEF n
<1>4. ASSUME NEW i \in 0 .. n - 1, P(i)
      PROVE  P(i + 1)
  <2>1. /\ i \in Nat /\ i + 1 \in 1 .. n /\ s[i + 1] \in X
        /\ \A j \in 1 .. i : j \in 1 .. i + 1 /\ s[j] # s[i + 1]
        /\ i + 1 \in 1 .. i + 1
    BY <1>0 DEF n, Once
  <2>2. CASE s[i + 1] \in S
    <3>. DEFINE a == f[i]
                x == s[i + 1]
                c == Append(a, x)
    <3>1. f[i + 1] = c
      BY <1>2, <2>1, <2>2
    <3>2. a \in Seq(X) /\ x \in X /\ Once(a) /\ \A k \in 1 .. Len(a) : \E j \in 1 .. i : a[k] = s[j]
      BY <1>4, <2>1
    <3>. HIDE DEF a
    <3>3. /\ c \in Seq(X) /\ Len(c) = Len(a) + 1 /\ c[Len(a) + 1] = x /\ \A k \in 1 .. Len(a) : c[k] = a[k]
      BY <3>2, AppendProperties
    <3>4. Len(a) \in Nat /\ \A k \in 1 .. Len(a) : a[k] # x
      BY <2>1, <3>2, LenProperties
    <3>. HIDE DEF c
    <3>5. \A k \in 1 .. Len(c) : \E j \in 1 .. i + 1 : c[k] = s[j]
      <4>. TAKE k \in 1 .. Len(c)
      <4>1. CASE k \in 1 .. Len(a)
        BY <2>1, <3>2, <3>3, <4>1
      <4>2. CASE k = Len(a) + 1
        BY <2>1, <3>3, <4>2
      <4>. QED BY <3>3, <3>4, <4>1, <4>2
    <3>. HIDE DEF x
    <3>6. Once(c)
      <4>. SUFFICES ASSUME NEW k \in 1 .. Len(c), NEW j \in 1 .. Len(c), c[k] = c[j] PROVE k = j
        BY DEF Once
      <4>1. (k \in 1 .. Len(a) \/ k = Len(a) + 1) /\ (j \in 1 .. Len(a) \/ j = Len(a) + 1)
        BY <3>3, <3>4
      <4>. QED BY <3>2, <3>3, <3>4, <4>1 DEF Once
    <3>. QED BY <3>1, <3>3, <3>5, <3>6
  <2>3. CASE s[i + 1] \notin S
    <3>1. f[i + 1] = f[i]
      BY <1>2, <2>1, <2>3
    <3>. QED BY <1>4, <2>1, <3>1
  <2>. QED BY <2>2, <2>3
<1>5. P(n)
  <2>. HIDE DEF P
  <2>1. n \in Nat
    BY <1>0 DEF n
  <2>2. 0 \in U /\ \A i \in 0 .. n - 1 : i \in U => i + 1 \in U
    BY <1>3, <1>4, <2>1
  <2>3. n \in U
    <3>. HIDE DEF U
    <3>. QED BY <2>1, <2>2, UpTo
  <2>. QED BY <2>3
<1>. QED BY <1>1, <1>5 DEF n

\* Nor do two such sequences with nothing in common.
LEMMA ConcatOnce ==
    ASSUME NEW X, NEW s \in Seq(X), NEW t \in Seq(X), Once(s), Once(t), Elems(s) \cap Elems(t) = {}
    PROVE  Once(s \o t)
<1>. DEFINE a == s \o t
<1>1. Len(s) \in Nat /\ DOMAIN s = 1 .. Len(s) /\ Len(t) \in Nat /\ DOMAIN t = 1 .. Len(t) /\ Len(a) = Len(s) + Len(t)
  BY LenProperties, ConcatProperties
<1>2. \A i \in 1 .. Len(s) + Len(t) : a[i] = IF i <= Len(s) THEN s[i] ELSE t[i - Len(s)]
  BY ConcatProperties
<1>. HIDE DEF a
<1>3. \A i \in 1 .. Len(s), j \in 1 .. Len(t) : s[i] # t[j]
  BY <1>1 DEF Elems
<1>4. ASSUME NEW i \in 1 .. Len(a), NEW j \in 1 .. Len(a), a[i] = a[j] PROVE i = j
  <2>1. \A k \in 1 .. Len(a) : \/ k \in 1 .. Len(s) /\ a[k] = s[k]
                               \/ k - Len(s) \in 1 .. Len(t) /\ a[k] = t[k - Len(s)]
    BY <1>1, <1>2
  <2>2. CASE i \in 1 .. Len(s) /\ a[i] = s[i] /\ j \in 1 .. Len(s) /\ a[j] = s[j]
    BY <1>4, <2>2 DEF Once
  <2>3. CASE i - Len(s) \in 1 .. Len(t) /\ a[i] = t[i - Len(s)] /\ j - Len(s) \in 1 .. Len(t) /\ a[j] = t[j - Len(s)]
    <3>1. i - Len(s) = j - Len(s)
      BY <1>4, <2>3 DEF Once
    <3>. QED BY <1>1, <3>1
  <2>. QED BY <1>3, <1>4, <2>1, <2>2, <2>3
<1>. QED BY <1>4 DEF Once, a

\* The restored Pod has the volumes of its manifest, none twice.
LEMMA VolumesOnce ==
    ASSUME NEW w, Manifest(w), NEW q, Whole(q, w)
    PROVE  IsSeq(q.volumes) /\ Once(q.volumes) /\ Elems(q.volumes) = Elems(w.volumes)
<1>1. w.volumes \in Seq(Elems(w.volumes)) /\ IsSeq(w.volumes)
  BY DEF Manifest, IsSeq
<1>2. DOMAIN w.volumes = 1 .. Len(w.volumes)
  BY <1>1, LenProperties
<1>3. Once(w.volumes)
  BY <1>2 DEF Manifest, NoneTwice, Once
<1>4. CASE q.volumes = w.volumes
  BY <1>1, <1>3, <1>4
<1>5. CASE q.volumes = BackVolumes(w)
  <2>. DEFINE O == OtherVolumes(w)
              T == TakenVolumes(w)
              X == Elems(w.volumes)
  <2>1. O \in Seq(X) /\ T \in Seq(X) /\ Once(O) /\ Once(T)
    BY <1>1, <1>3, OnlyElems, OnlyOnce DEF OtherVolumes, TakenVolumes, Keep
  <2>2. Elems(O) \cap Elems(T) = {}
    BY <1>1, OtherVolumesElems, TakenVolumesElems
  <2>. HIDE DEF O, T, X
  <2>3. Once(O \o T)
    BY <2>1, <2>2, ConcatOnce
  <2>. QED BY <1>1, <1>5, <2>3, BackVolumesElems DEF BackVolumes, O, T
<1>. QED BY <1>4, <1>5 DEF Whole

\* The volumes that get a disk besides the root.
Own(q) == Only(q.volumes, {v \in Elems(q.volumes) : v.kind = "pvc" /\ v.name # q.rootfs})
\* The claim named as rootfs disk.
RootVolumes(q) == {v \in Elems(q.volumes) : v.name = q.rootfs /\ v.kind = "pvc"}

\* The rootfs disk has that claim, or none.
LEMMA RootClaim ==
    ASSUME NEW q, RestoreVolumes(q) = q, None \notin Elems(q.volumes)
    PROVE  \/ RootVolumes(q) = {} /\ ApplyUserRootfs(q).claim = None
           \/ \E u \in RootVolumes(q) : ApplyUserRootfs(q).claim = u.claim
<1>. DEFINE named == {x \in Elems(RestoreVolumes(q).volumes) : x.name = q.rootfs /\ x.kind = "pvc"}
            u == CHOOSE x \in named : TRUE
            v == RootfsPVC(q)
<1>1. v = IF named = {} THEN None ELSE u
  BY Zenon DEF RootfsPVC
<1>2. named = RootVolumes(q)
  BY DEF RootVolumes
<1>. HIDE DEF named
<1>3. CASE named = {}
  <2>1. v = None
    BY <1>1, <1>3, Zenon
  <2>2. ApplyUserRootfs(q) = [serial |-> UserRootfsSerial, claim |-> None, ro |-> FALSE]
    BY <2>1, Zenon DEF ApplyUserRootfs
  <2>3. ApplyUserRootfs(q).claim = None
    BY <2>2
  <2>. QED BY <1>2, <1>3, <2>3
<1>4. CASE named # {}
  <2>1. u \in named
    BY <1>4, Zenon
  <2>2. v = u
    BY <1>1, <1>4, Zenon
  <2>. HIDE DEF u
  <2>3. u # None
    BY <1>2, <2>1 DEF RootVolumes
  <2>4. ApplyUserRootfs(q) = [serial |-> UserRootfsSerial, claim |-> u.claim, ro |-> u.ro]
    BY <2>2, <2>3, Zenon DEF ApplyUserRootfs
  <2>5. ApplyUserRootfs(q).claim = u.claim
    BY <2>4
  <2>. QED BY <1>2, <2>1, <2>5
<1>. QED BY <1>3, <1>4

\* The rootfs disk comes first, then one disk for each of the other claims.
LEMMA DiskLayout ==
    ASSUME NEW q, IsSeq(q.volumes), RestoreVolumes(q) = q
    PROVE  /\ Len(Own(q)) \in Nat /\ IsSeq(Own(q))
           /\ Elems(Own(q)) = {v \in Elems(q.volumes) : v.kind = "pvc" /\ v.name # q.rootfs}
           /\ DOMAIN ApplyVolumes(q) = 1 .. Len(Own(q)) + 1
           /\ ApplyVolumes(q)[1] = ApplyUserRootfs(q)
           /\ \A j \in 1 .. Len(Own(q)) : ApplyVolumes(q)[j + 1].claim = Own(q)[j].claim
<1>. DEFINE root == ApplyUserRootfs(q)
            own == Own(q)
            g == [v \in Elems(q.volumes) |-> [serial |-> DiskSerial(v.name), claim |-> v.claim, ro |-> v.ro]]
            f == [i \in DOMAIN own |-> g[own[i]]]
            D == {g[v] : v \in Elems(own)}
            one == <<root>>
            a == ApplyVolumes(q)
<1>1. IsSeq(own) /\ Elems(own) = {v \in Elems(q.volumes) : v.kind = "pvc" /\ v.name # q.rootfs}
  BY KeepElems, Zenon DEF Own
<1>2. a = one \o [i \in DOMAIN own |-> [serial |-> DiskSerial(own[i].name), claim |-> own[i].claim, ro |-> own[i].ro]]
  BY Zenon DEF ApplyVolumes, Field, Keep, Own
<1>. HIDE DEF own
<1>3. own \in Seq(Elems(own)) /\ Len(own) \in Nat /\ DOMAIN own = 1 .. Len(own)
  BY <1>1, LenProperties DEF IsSeq
<1>4. \A i \in DOMAIN own : own[i] \in Elems(q.volumes)
  BY <1>1, Zenon DEF Elems
<1>5. a = one \o f
  BY <1>2, <1>4, Zenon
<1>6. \A i \in DOMAIN own : g[own[i]].claim = own[i].claim
  BY <1>4
<1>. HIDE DEF g
<1>7. f \in Seq(D)
  BY <1>1, MapElems
<1>8. Len(f) = Len(own) /\ \A i \in 1 .. Len(own) : f[i] = g[own[i]]
  <2>1. DOMAIN f = 1 .. Len(own) /\ \A i \in 1 .. Len(own) : f[i] = g[own[i]]
    BY <1>3, Zenon
  <2>. HIDE DEF f
  <2>. QED BY <1>3, <1>7, <2>1, LenProperties
<1>. HIDE DEF f, root, D
<1>9. one \in Seq({root}) /\ Len(one) = 1 /\ one[1] = root
  OBVIOUS
<1>. DEFINE X == D \cup {root}
<1>10. one \in Seq(X) /\ f \in Seq(X)
  BY <1>7, <1>9
<1>. HIDE DEF one, X, a
<1>11. /\ one \o f \in Seq(X) /\ Len(one \o f) = Len(one) + Len(f)
       /\ \A i \in 1 .. Len(one) + Len(f) : (one \o f)[i] = IF i <= Len(one) THEN one[i] ELSE f[i - Len(one)]
  BY <1>10, ConcatProperties
<1>12. a \in Seq(X) /\ Len(a) = Len(own) + 1
       /\ \A i \in 1 .. Len(own) + 1 : a[i] = IF i <= 1 THEN one[i] ELSE f[i - 1]
  BY <1>3, <1>5, <1>8, <1>9, <1>11
<1>13. DOMAIN a = 1 .. Len(own) + 1 /\ a[1] = root
  BY <1>3, <1>9, <1>12, LenProperties
<1>14. ASSUME NEW j \in 1 .. Len(own) PROVE a[j + 1].claim = own[j].claim
  <2>1. j + 1 \in 1 .. Len(own) + 1 /\ ~(j + 1 <= 1) /\ j + 1 - 1 = j
    BY <1>3
  <2>2. a[j + 1] = f[j]
    BY <1>12, <2>1
  <2>. QED BY <1>3, <1>6, <1>8, <2>2
<1>. QED BY <1>1, <1>3, <1>13, <1>14 DEF own, a, root

\* One disk for each claim that is behind one volume.
LEMMA OneDisk ==
    ASSUME NEW w, Manifest(w), NEW q, Whole(q, w), ClaimsDiffer(w), None \notin Elems(w.volumes), None \notin Claims,
           NEW v \in Elems(w.volumes), v.kind = "pvc"
    PROVE  Cardinality({i \in DOMAIN ApplyVolumes(q) : ApplyVolumes(q)[i].claim = v.claim}) = 1
<1>. DEFINE own == Own(q)
            a == ApplyVolumes(q)
            n == Len(own)
            I == {i \in DOMAIN a : a[i].claim = v.claim}
<1>1. IsSeq(q.volumes) /\ Once(q.volumes) /\ Elems(q.volumes) = Elems(w.volumes) /\ RestoreVolumes(q) = q
  BY VolumesOnce DEF Whole
<1>2. /\ n \in Nat /\ IsSeq(own) /\ Elems(own) = {u \in Elems(q.volumes) : u.kind = "pvc" /\ u.name # q.rootfs}
      /\ DOMAIN a = 1 .. n + 1 /\ a[1] = ApplyUserRootfs(q) /\ \A j \in 1 .. n : a[j + 1].claim = own[j].claim
  BY <1>1, DiskLayout
<1>3. Once(own)
  BY <1>1, OnlyOnce DEF Own, IsSeq
<1>4. \A u \in Elems(w.volumes) : u.kind = "pvc" /\ u.claim = v.claim => u = v
  BY DEF ClaimsDiffer
<1>5. v.claim \in Claims /\ v.claim # None
  BY DEF Manifest, ValidVolume
<1>. DEFINE root == ApplyUserRootfs(q)
<1>6. root.claim = v.claim <=> v.name = q.rootfs
  <2>1. \/ RootVolumes(q) = {} /\ root.claim = None
        \/ \E u \in RootVolumes(q) : root.claim = u.claim
    BY <1>1, RootClaim
  <2>. HIDE DEF root
  <2>2. v.name = q.rootfs => v \in RootVolumes(q)
    BY <1>1 DEF RootVolumes
  <2>3. \A u \in RootVolumes(q) : u \in Elems(w.volumes) /\ u.kind = "pvc" /\ u.name = q.rootfs
    BY <1>1 DEF RootVolumes
  <2>4. v.name = q.rootfs => RootVolumes(q) = {v}
    BY <2>2, <2>3, ManifestNames
  <2>. QED BY <1>4, <1>5, <2>1, <2>3, <2>4
<1>7. DOMAIN own = 1 .. n /\ \A j \in 1 .. n : own[j] \in Elems(own)
  BY <1>2, LenProperties DEF IsSeq, Elems
<1>8. \A j \in 1 .. n : a[j + 1].claim = v.claim <=> own[j] = v
  <2>. TAKE j \in 1 .. n
  <2>1. own[j] \in Elems(w.volumes) /\ own[j].kind = "pvc"
    BY <1>1, <1>2, <1>7
  <2>. QED BY <1>2, <1>4, <2>1
<1>9. v \in Elems(own) <=> v.name # q.rootfs
  BY <1>1, <1>2
<1>. HIDE DEF own, a, n, root
<1>10. \E x : I = {x}
  <2>1. CASE v.name = q.rootfs
    <3>1. \A j \in 1 .. n : own[j] # v
      BY <1>7, <1>9, <2>1
    <3>2. \A i \in DOMAIN a : a[i].claim = v.claim <=> i = 1
      <4>. TAKE i \in DOMAIN a
      <4>1. i = 1 \/ (i - 1 \in 1 .. n /\ i - 1 + 1 = i /\ i # 1)
        BY <1>2
      <4>. QED BY <1>2, <1>6, <1>8, <2>1, <3>1, <4>1 DEF root
    <3>3. I = {1}
      BY <1>2, <3>2
    <3>. QED BY <3>3
  <2>2. CASE v.name # q.rootfs
    <3>1. PICK k \in 1 .. n : own[k] = v
      BY <1>7, <1>9, <2>2 DEF Elems
    <3>2. \A j \in 1 .. n : own[j] = v => j = k
      BY <1>3, <3>1 DEF Once, n
    <3>3. \A i \in DOMAIN a : a[i].claim = v.claim <=> i = k + 1
      <4>. TAKE i \in DOMAIN a
      <4>1. i = 1 \/ (i - 1 \in 1 .. n /\ i - 1 + 1 = i)
        BY <1>2
      <4>2. CASE i = 1
        <5>1. a[i].claim # v.claim
          BY <1>2, <1>6, <2>2, <4>2 DEF root
        <5>. QED BY <1>2, <4>2, <5>1
      <4>3. CASE i - 1 \in 1 .. n /\ i - 1 + 1 = i
        <5>1. a[i].claim = v.claim <=> own[i - 1] = v
          BY <1>8, <4>3
        <5>2. own[i - 1] = v <=> i - 1 = k
          BY <3>1, <3>2, <4>3
        <5>. QED BY <1>2, <4>3, <5>1, <5>2
      <4>. QED BY <4>1, <4>2, <4>3
    <3>4. k + 1 \in DOMAIN a
      BY <1>2
    <3>5. I = {k + 1}
      BY <3>3, <3>4
    <3>. QED BY <3>5
  <2>. QED BY <2>1, <2>2
<1>11. Cardinality(I) = 1
  <2>. HIDE DEF I
  <2>. QED BY <1>10, FS_Singleton
<1>. QED BY <1>11 DEF I, a

\* A class that holds the guest; the claims of a manifest; the disks of a claim.
Fits(cl, vm) == Cores(cl.cpu) >= vm.cores /\ cl.mem >= vm.mem
ClaimsOf(w) == {v.claim : v \in {x \in Elems(w.volumes) : x.kind = "pvc"}}
DisksFor(vm, k) == {i \in DOMAIN vm.disks : vm.disks[i].claim = k}

\* What a VMI has to be for its Pod, as VMIHoldsPod says it.
HoldsPod(vm, w) ==
    /\ vm.mem >= MemAsked(w) /\ 1000 * vm.cores >= CpuAsked(w)
    /\ vm.pages # None => PagesAsked(w) >= vm.mem
    /\ (\E cl \in Elems(SizeClasses) : Fits(cl, vm)) => \E cl \in Elems(SizeClasses) : cl.name = vm.class /\ Fits(cl, vm)
    /\ ClaimsDiffer(w) => \A k \in ClaimsOf(w) : Cardinality(DisksFor(vm, k)) = 1
    /\ PortOnce(vm.ports)
    /\ (vm.boot = "efi") = (vm.tee \in {"snp", "tdx"})

\* Translate makes such a VMI.
LEMMA TranslateHolds ==
    ASSUME NEW p, p # None, NEW w, PodIn(p, w)
    PROVE  HoldsPod(Translate(RestoreVolumes(p)), w)
<1>. DEFINE q == RestoreVolumes(p)
            vm == Translate(q)
<1>1. w \in Templates /\ Whole(q, w)
  BY AdmittedIsWhole DEF Whole
<1>2. Manifest(w) /\ None \notin Elems(w.volumes) /\ None \notin Claims
  BY <1>1, TemplatesAssumption, NoneAssumption
<1>. HIDE DEF q
<1>3. /\ vm.tee = ResolveTEE(q) /\ vm.boot = ApplyBoot(ResolveTEE(q)) /\ vm.cores = GuestCores(q) /\ vm.mem = GuestMem(q)
      /\ vm.class = PickSizeClass(GuestCores(q), GuestMem(q)) /\ vm.pages = ApplyHugepages(q)
      /\ vm.ports = ApplyNetwork(q) /\ vm.disks = ApplyVolumes(q)
  BY DEF Translate
<1>. HIDE DEF vm
<1>4. vm.mem >= MemAsked(w) /\ 1000 * vm.cores >= CpuAsked(w)
  BY <1>1, <1>2, <1>3, GuestIsLarge
<1>5. vm.pages # None => PagesAsked(w) >= vm.mem
  BY <1>1, <1>2, <1>3, PagesHold
<1>6. (\E cl \in Elems(SizeClasses) : Fits(cl, vm)) => \E cl \in Elems(SizeClasses) : cl.name = vm.class /\ Fits(cl, vm)
  BY <1>3, ClassHolds DEF Fits
<1>7. ClaimsDiffer(w) => \A k \in ClaimsOf(w) : Cardinality(DisksFor(vm, k)) = 1
  <2>. SUFFICES ASSUME ClaimsDiffer(w), NEW v \in Elems(w.volumes), v.kind = "pvc" PROVE Cardinality(DisksFor(vm, v.claim)) = 1
    BY DEF ClaimsOf
  <2>1. DisksFor(vm, v.claim) = {i \in DOMAIN ApplyVolumes(q) : ApplyVolumes(q)[i].claim = v.claim}
    BY <1>3 DEF DisksFor
  <2>. QED BY <1>1, <1>2, <2>1, OneDisk
<1>8. PortOnce(vm.ports)
  <2>1. PortOnce(WorkloadPorts(q))
    BY <1>1, <1>2, WholeCtrs, WorkloadPortsIn
  <2>2. PortOnce(<<>>)
    BY DEF PortOnce
  <2>. QED BY <1>3, <2>1, <2>2 DEF ApplyNetwork
<1>9. (vm.boot = "efi") = (vm.tee \in {"snp", "tdx"})
  BY <1>3 DEF ApplyBoot, Confidential
<1>. QED BY <1>4, <1>5, <1>6, <1>7, <1>8, <1>9, Zenon DEF HoldsPod, vm, q

\* The VMI there is holds its Pod.
VMIInv == vmi # None => HoldsPod(vmi, wanted)

\* Every step keeps VMIInv.
LEMMA VMIStep ==
    ASSUME AdmitInv, GuestInv, VMIInv, [Next]_vars
    PROVE  VMIInv'
<1>1. vmi # None => pod # None
  BY DEF GuestInv, GuestLinks
<1>2. CASE CreateVMI
  <2>1. vmi' = Translate(RestoreVolumes(pod)) /\ pod # None /\ UNCHANGED wanted
    BY <1>2 DEF CreateVMI
  <2>2. PodIn(pod, wanted)
    BY <2>1 DEF AdmitInv, PodIn
  <2>3. HoldsPod(vmi', wanted)
    BY <2>1, <2>2, TranslateHolds
  <2>. QED BY <2>1, <2>3 DEF VMIInv, HoldsPod
<1>3. CASE vmi' = None
  BY <1>3 DEF VMIInv
<1>4. CASE UNCHANGED <<vmi, wanted>>
  BY <1>4 DEF VMIInv
<1>5. CASE CreatePod
  <2>1. vmi = None /\ vmi' = vmi
    BY <1>1, <1>5 DEF CreatePod
  <2>. QED BY <2>1 DEF VMIInv
<1>6. UpdatePod \/ DeletePod \/ BootVM => UNCHANGED <<vmi, wanted>>
  BY DEF UpdatePod, DeletePod, BootVM, apiVars
<1>7. PodGone \/ VMDies => vmi' = None
  BY DEF PodGone, VMDies
<1>8. ASSUME NEW n \in Ctrs PROVE Starting(n) \/ StartFails(n) \/ Exit(n) => UNCHANGED <<vmi, wanted>>
  BY DEF Starting, StartFails, Exit, StartContainer, Check, Probe, Mkfs, Mount, Bind, StartProcess, apiVars
<1>9. UNCHANGED vars => UNCHANGED <<vmi, wanted>>
  BY DEF vars
<1>. QED BY <1>2, <1>3, <1>4, <1>5, <1>6, <1>7, <1>8, <1>9 DEF Next

\* Translate gives the guest the memory and cores its containers ask for, a
\* size class that holds it, one disk for each claim and no port twice.
THEOREM VMIHoldsPodHolds == Spec => []VMIHoldsPod
<1>1. Init => VMIInv
  BY DEF Init, VMIInv
<1>2. AdmitInv /\ GuestInv /\ VMIInv /\ [Next]_vars => VMIInv'
  BY VMIStep
<1>3. VMIInv => VMIHoldsPod
  <2>. SUFFICES ASSUME VMIInv, vmi # None
                PROVE  LET asked == Sum(Field(wanted.ctrs, LAMBDA c : c.mem))
                           claims == {v.claim : v \in {w \in Elems(wanted.volumes) : w.kind = "pvc"}}
                           holds(cl) == Cores(cl.cpu) >= vmi.cores /\ cl.mem >= vmi.mem
                       IN  /\ vmi.mem >= asked /\ 1000 * vmi.cores >= Sum(Field(wanted.ctrs, LAMBDA c : c.cpu))
                           /\ vmi.pages # None => PagesAsked(wanted) >= vmi.mem
                           /\ (\E cl \in Elems(SizeClasses) : holds(cl)) =>
                                  \E cl \in Elems(SizeClasses) : cl.name = vmi.class /\ holds(cl)
                           /\ ClaimsDiffer(wanted) => \A k \in claims : Cardinality({i \in DOMAIN vmi.disks : vmi.disks[i].claim = k}) = 1
                           /\ \A i, j \in DOMAIN vmi.ports : vmi.ports[i].port = vmi.ports[j].port => i = j
                           /\ (vmi.boot = "efi") = (vmi.tee \in {"snp", "tdx"})
    BY ZenonT(40) DEF VMIHoldsPod
  <2>1. HoldsPod(vmi, wanted)
    BY DEF VMIInv
  <2>2. Field(wanted.ctrs, LAMBDA c : c.mem) = [i \in DOMAIN wanted.ctrs |-> wanted.ctrs[i].mem]
    BY Zenon DEF Field
  <2>3. Field(wanted.ctrs, LAMBDA c : c.cpu) = [i \in DOMAIN wanted.ctrs |-> wanted.ctrs[i].cpu]
    BY Zenon DEF Field
  <2>. QED BY <2>1, <2>2, <2>3, ZenonT(40) DEF HoldsPod, MemAsked, CpuAsked, Fits, ClaimsOf, DisksFor, PortOnce
<1>. QED BY <1>1, <1>2, <1>3, GuestHolds, PTL DEF Spec
=============================================================================
