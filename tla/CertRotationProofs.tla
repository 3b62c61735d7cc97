------------------------- MODULE CertRotationProofs -------------------------
(***************************************************************************)
(* Proof that the certificates rotate without a gap: for any certConfig    *)
(* and outage that SafeRotation allows, any length of time and any number  *)
(* of outages and of reconciles on old copies.  Only calm behaviours are   *)
(* concerned: calm never comes back, and until it goes the first           *)
(* certConfig is in force and the target is there.                         *)
(***************************************************************************)
EXTENDS CertRotation, TLAPS

SignerLife == CertificateDefinition(1).signerLife
SignerRefresh == CertificateDefinition(1).signerRefresh
TargetLife == CertificateDefinition(1).targetLife
TargetRefresh == CertificateDefinition(1).targetRefresh

CAs == [id: Nat, born: Nat, exp: Nat]
Signers == [id: Nat, born: Nat, exp: Nat, after: Nat, cfg: {1}]
Targets == [issuer: Nat, born: Nat, exp: Nat, after: Nat, cfg: {1}]
Secrets == [signer: Signers, bundle: SUBSET CAs, target: Targets]

\* A signer and a target as they are at the time now; the signer was not due
\* when the operator last had nothing to do, at the time r.
OkSigner(s, now, r) ==
    /\ s \in Signers
    /\ s.exp = s.born + SignerLife /\ s.after = s.exp
    /\ s.born <= now /\ r < s.born + SignerRefresh
OkTarget(t, now) ==
    /\ t \in Targets
    /\ t.exp = t.born + TargetLife /\ t.after = t.exp
    /\ t.born <= now

\* At r a target was not due, or it was due and waited for a new signer.
Young(t, r) == r < t.born + TargetRefresh
Waits(t, s, r) ==
    /\ s.born <= r /\ 10 * (r - s.born) < TargetRefresh
    /\ s.born < t.born + TargetRefresh + Longest
InTime(t, s, r) == Young(t, r) \/ Waits(t, s, r)

\* The issuer of a target is in a bundle, and outlives it.
Covers(bundle, t) == \E ca \in bundle : ca.id = t.issuer /\ t.exp <= ca.exp

\* The targets that are about: the secret, the server's copy and, while the
\* operator is up, its copy.
About == {certs.target, inStore} \cup (IF down = 0 THEN {lister.target} ELSE {})

\* A signer of this very hour: no target that is about is due.
IsNew(s) == s.born = time /\ \A t \in About : Young(t, checked)

Types ==
    /\ time \in Nat /\ checked \in Nat /\ version = 1
    /\ certs \in Secrets
    /\ inStore \in Targets
    /\ hookCA \subseteq CAs
    /\ down \in Nat /\ rest \in BOOLEAN
    /\ down = 0 => lister \in Secrets
    /\ sync \in [pc: {"idle", "signer", "bundle", "target"}, ca: Signers \cup {NoCert}, trust: SUBSET CAs]
    /\ sync.pc # "idle" => down = 0

Ages ==
    /\ checked <= time /\ time <= checked + Longest
    /\ OkSigner(certs.signer, time, checked)
    /\ \A t \in About : OkTarget(t, time) /\ InTime(t, certs.signer, checked)

\* Every bundle that is used or may be used next has the issuers of all the
\* targets about, and the signer unless that is new.
Bundles ==
    /\ \A t \in About : Covers(hookCA, t) /\ Covers(certs.bundle, t)
    /\ CA(certs.signer) \in certs.bundle \/ IsNew(certs.signer)

\* The operator's copy is the secrets as they were at some moment of this
\* hour.
Copies ==
    down = 0 =>
        /\ OkSigner(lister.signer, time, checked)
        /\ \A t \in About : Covers(lister.bundle, t)
        /\ CA(lister.signer) \in lister.bundle \/ IsNew(lister.signer)
        /\ CA(lister.signer) \in lister.bundle => CA(lister.signer) \in certs.bundle
        /\ lister.signer = certs.signer \/ IsNew(certs.signer)

\* The reconcile under way.
Going ==
    /\ sync.pc # "idle" => hookCA = lister.bundle
    /\ sync.pc \in {"bundle", "target"} =>
          /\ OkSigner(sync.ca, time, checked) /\ time < sync.ca.born + SignerRefresh
          /\ sync.ca = lister.signer \/ IsNew(sync.ca)
    /\ sync.pc = "target" =>
          /\ \A t \in About : Covers(sync.trust, t)
          /\ CA(sync.ca) \in certs.bundle \/ IsNew(sync.ca)

\* A reconcile that has found nothing to do so far.
Resting ==
    rest /\ down = 0 =>
        /\ lister = certs
        /\ sync.pc # "signer" => time < certs.signer.born + SignerRefresh
        /\ sync.pc \in {"bundle", "target"} => sync.ca = certs.signer
        /\ sync.pc = "idle" => \/ time < certs.target.born + TargetRefresh
                               \/ 10 * (time - certs.signer.born) < TargetRefresh

InvParts == Types /\ Ages /\ Bundles /\ Copies /\ Going /\ Resting
CertInv == calm => InvParts

-----------------------------------------------------------------------------
(* Arithmetic.                                                             *)

\* SafeRotation in the names used here.
LEMMA Numbers ==
    ASSUME SafeRotation
    PROVE  /\ SignerLife \in Nat /\ SignerRefresh \in Nat /\ TargetLife \in Nat /\ TargetRefresh \in Nat
           /\ Longest \in Nat /\ 0 < Longest
           /\ 0 < TargetRefresh /\ 5 * (TargetRefresh + Longest) <= 4 * TargetLife
           /\ SignerRefresh + TargetLife <= SignerLife
           /\ TargetRefresh + 10 * Longest <= 10 * SignerRefresh
           /\ \A wait \in Nat : 10 * wait < TargetRefresh =>
                 TargetRefresh + 2 * Longest + wait <= TargetLife
<1>1. Longest \in Nat /\ 0 < Longest
  BY CertAssumption DEF Longest
<1>2. /\ SignerLife \in Nat /\ SignerRefresh \in Nat /\ TargetLife \in Nat /\ TargetRefresh \in Nat
      /\ 0 < TargetRefresh /\ 5 * (TargetRefresh + Longest) <= 4 * TargetLife
      /\ SignerRefresh + TargetLife <= SignerLife
      /\ TargetRefresh + 10 * Longest <= 10 * SignerRefresh
      /\ \A wait \in 0..TargetRefresh : 10 * wait < TargetRefresh =>
            TargetRefresh + 2 * Longest + wait <= TargetLife
  BY DEF SafeRotation, SignerLife, SignerRefresh, TargetLife, TargetRefresh
<1>3. \A wait \in Nat : 10 * wait < TargetRefresh => wait \in 0..TargetRefresh
  BY <1>2
<1>. QED
  BY <1>1, <1>2, <1>3

\* A target that is in time has not expired.
LEMMA InTimeLives ==
    ASSUME SafeRotation, NEW now \in Nat, NEW r \in Nat, NEW s, NEW t, r <= now, now <= r + Longest,
           OkSigner(s, now, r), OkTarget(t, now), InTime(t, s, r)
    PROVE  now < t.exp
<1>. USE Numbers DEF Signers, Targets
<1>1. CASE Young(t, r)
  BY <1>1 DEF OkTarget, Young
<1>2. CASE Waits(t, s, r)
  <2>. DEFINE wait == r - s.born
  <2>1. wait \in Nat /\ 10 * wait < TargetRefresh /\ r = s.born + wait
    BY <1>2 DEF Waits, OkSigner
  <2>. HIDE DEF wait
  <2>2. TargetRefresh + 2 * Longest + wait <= TargetLife
    BY <2>1
  <2>. QED
    BY <1>2, <2>1, <2>2 DEF Waits, OkSigner, OkTarget
<1>. QED
  BY <1>1, <1>2 DEF InTime

\* A young target is not too old to wait for a new signer.
LEMMA YoungWaits ==
    ASSUME SafeRotation, NEW now \in Nat, NEW r \in Nat, NEW t, r <= now, now <= r + Longest,
           OkTarget(t, now), Young(t, r)
    PROVE  ~(now >= t.after \/ 5 * (t.after - now) <= t.after - t.born)
BY Numbers DEF OkTarget, Young, Targets

\* A signer that a target waits for is not replaced.
LEMMA WaitedForStays ==
    ASSUME SafeRotation, NEW now \in Nat, NEW r \in Nat, NEW s, NEW t, r <= now, now <= r + Longest,
           OkSigner(s, now, r), Waits(t, s, r)
    PROVE  /\ now < s.born + SignerRefresh
           /\ ~(now >= s.after \/ 5 * (s.after - now) <= s.after - s.born)
BY Numbers DEF OkSigner, Waits, Signers

\* A signer that was not due has not expired.
LEMMA SignerLives ==
    ASSUME SafeRotation, NEW now \in Nat, NEW r \in Nat, NEW s, now <= r + Longest, OkSigner(s, now, r)
    PROVE  now < s.exp
BY Numbers DEF OkSigner, Signers
-----------------------------------------------------------------------------
(* The steps.                                                              *)

\* NoCert is no target, and a signer's CA is a CA.
LEMMA Shapes ==
    /\ \A t \in Targets : t # NoCert
    /\ \A s \in Signers : CA(s) \in CAs /\ CA(s).id = s.id /\ CA(s).exp = s.exp
BY NoCertAssumption DEF Targets, Signers, CAs, CA

\* The first installation.
LEMMA CertInitHolds == SafeRotation /\ CertInit => InvParts
<1>. SUFFICES ASSUME SafeRotation, CertInit PROVE InvParts
  OBVIOUS
<1>. DEFINE s == [id |-> 1, born |-> 0, exp |-> SignerLife, after |-> SignerLife, cfg |-> 1]
            t == [issuer |-> 1, born |-> 0, exp |-> TargetLife, after |-> TargetLife, cfg |-> 1]
            ca == [id |-> 1, born |-> 0, exp |-> SignerLife]
<1>0. SignerLife \in Nat /\ TargetLife \in Nat /\ TargetLife <= SignerLife /\ 0 < TargetRefresh
      /\ TargetRefresh \in Nat /\ SignerRefresh \in Nat /\ 0 < SignerRefresh
  BY Numbers
<1>1. time = 0 /\ version = 1 /\ checked = 0 /\ down = 0 /\ rest = FALSE
  BY DEF CertInit
<1>2. NewSigner(1) = s
  BY <1>0, <1>1 DEF NewSigner, Def, SignerLife
<1>3. CA(s) = ca
  BY DEF CA
<1>4. NewTarget(s) = t
  BY <1>0, <1>1 DEF NewTarget, Def, TargetLife
<1>5. certs = [signer |-> s, bundle |-> {ca}, target |-> t]
  BY <1>2, <1>3, <1>4 DEF CertInit
<1>6. s \in Signers /\ t \in Targets /\ ca \in CAs
  BY <1>0 DEF Signers, Targets, CAs
<1>7. OkSigner(s, 0, 0) /\ OkTarget(t, 0) /\ Young(t, 0) /\ Covers({ca}, t)
  BY <1>0, <1>6 DEF OkSigner, OkTarget, Young, Covers
<1>. HIDE DEF s, t, ca
<1>8. /\ lister = certs /\ hookCA = {ca} /\ inStore = t /\ About = {t}
      /\ sync = [pc |-> "idle", ca |-> NoCert, trust |-> {}]
  BY <1>1, <1>5 DEF CertInit, About
<1>9. Types
  BY <1>1, <1>5, <1>6, <1>8 DEF Types, Secrets
<1>10. Ages
  BY <1>1, <1>5, <1>7, <1>8, Numbers DEF Ages, InTime
<1>11. Bundles /\ Copies
  BY <1>1, <1>3, <1>5, <1>7, <1>8 DEF Bundles, Copies
<1>12. Going /\ Resting
  BY <1>1, <1>8 DEF Going, Resting
<1>. QED
  BY <1>9, <1>10, <1>11, <1>12 DEF InvParts

\* What is served is accepted.
LEMMA InvTrusts == SafeRotation /\ InvParts => Trusted
<1>. SUFFICES ASSUME SafeRotation, InvParts PROVE Trusted
  OBVIOUS
<1>1. Current = inStore /\ inStore \in About
  BY Shapes DEF InvParts, Types, Current, About
<1>2. time < inStore.exp
  BY <1>1, InTimeLives DEF InvParts, Types, Ages
<1>3. PICK ca \in hookCA : ca.id = inStore.issuer /\ inStore.exp <= ca.exp
  BY <1>1 DEF InvParts, Bundles, Covers
<1>. QED
  BY <1>1, <1>2, <1>3 DEF InvParts, Types, Trusted, CAs, Targets

LEMMA ServerSyncKeeps == ASSUME InvParts, ServerSync PROVE InvParts'
<1>1. About' \subseteq About
  BY DEF ServerSync, About
<1>2. certs.target \in Targets
  BY DEF InvParts, Types, Secrets
<1>3. Types'
  BY <1>2 DEF InvParts, Types, ServerSync
<1>4. (Ages /\ Bundles /\ Copies /\ Going /\ Resting)'
  BY <1>1 DEF InvParts, Ages, Bundles, Copies, Going, Resting, IsNew, ServerSync
<1>. QED
  BY <1>3, <1>4 DEF InvParts

LEMMA HandshakeKeeps == ASSUME InvParts, Handshake PROVE InvParts'
BY DEF InvParts, Types, Ages, Bundles, Copies, Going, Resting, IsNew, About, Handshake

LEMMA BeginKeeps == ASSUME InvParts, BeginReconcile PROVE InvParts'
<1>1. /\ down = 0 /\ sync.pc = "idle" /\ lister' \in {certs, lister}
      /\ sync' = [pc |-> "signer", ca |-> NoCert, trust |-> {}]
      /\ hookCA' = lister'.bundle
      /\ rest' = (lister' = certs /\ hookCA = lister'.bundle)
      /\ UNCHANGED <<time, version, certs, inStore, crt, down, checked, calm>>
  BY DEF BeginReconcile
<1>2. About' \subseteq About
  BY <1>1 DEF About
<1>3. Types'
  BY <1>1 DEF InvParts, Types, Secrets
<1>4. Ages'
  BY <1>1, <1>2 DEF InvParts, Ages
<1>5. Bundles' /\ Copies'
  <2>1. CASE lister' = certs
    BY <1>1, <1>2, <2>1 DEF InvParts, Ages, Bundles, Copies, IsNew
  <2>2. CASE lister' = lister
    BY <1>1, <1>2, <2>2 DEF InvParts, Bundles, Copies, IsNew
  <2>. QED
    BY <1>1, <2>1, <2>2
<1>6. Going' /\ Resting'
  BY <1>1 DEF Going, Resting
<1>. QED
  BY <1>3, <1>4, <1>5, <1>6 DEF InvParts
\* A signer is replaced only when no target waits for it, so that all the
\* targets about are young.
LEMMA EnsureSignerKeeps == ASSUME SafeRotation, InvParts, EnsureSigner PROVE InvParts'
<1>. DEFINE old == lister.signer
            renew == TooOld(old) \/ time >= old.born + Def.signerRefresh
            new == IF renew THEN NewSigner(certs.signer.id + 1) ELSE EnsureCertConfig(certs.signer)
<1>0. /\ sync.pc = "signer" /\ down = 0
      /\ certs \in Secrets /\ lister \in Secrets
      /\ time \in Nat /\ checked \in Nat /\ checked <= time /\ time <= checked + Longest
      /\ Def.signerRefresh = SignerRefresh /\ Def.signerLife = SignerLife /\ version = 1
  BY DEF InvParts, Types, Ages, EnsureSigner, Def, SignerRefresh, SignerLife
<1>1. /\ certs' = [certs EXCEPT !.signer = new]
      /\ sync' = [sync EXCEPT !.pc = "bundle", !.ca = IF renew THEN new ELSE old]
      /\ rest' = (rest /\ new = certs.signer)
      /\ UNCHANGED <<time, version, lister, hookCA, inStore, crt, down, checked, calm, tries>>
  BY DEF EnsureSigner
<1>2. certs.signer \in Signers /\ old \in Signers
  BY <1>0 DEF Secrets
<1>3. About' = About
  BY <1>0, <1>1 DEF About, Secrets
<1>4. CASE ~renew
  <2>1. new = certs.signer
    BY <1>0, <1>2, <1>4 DEF EnsureCertConfig, Signers
  <2>2. certs' = certs
    BY <1>0, <1>1, <2>1 DEF Secrets
  <2>3. sync'.pc = "bundle" /\ sync'.ca = old /\ sync' \in [pc: {"idle", "signer", "bundle", "target"}, ca: Signers \cup {NoCert}, trust: SUBSET CAs]
    BY <1>1, <1>2, <1>4 DEF InvParts, Types
  <2>4. time < old.born + SignerRefresh
    BY <1>0, <1>2, <1>4, Numbers DEF Signers
  <2>5. Types' /\ Ages' /\ Bundles'
    BY <1>0, <1>1, <1>3, <2>2, <2>3 DEF InvParts, Types, Ages, Bundles, IsNew
  <2>6. Copies'
    BY <1>1, <1>3, <2>2 DEF InvParts, Copies, IsNew
  <2>7. Going'
    BY <1>0, <1>1, <1>3, <2>2, <2>3, <2>4 DEF InvParts, Copies, Going, IsNew
  <2>8. Resting'
    BY <1>0, <1>1, <2>2, <2>3, <2>4 DEF InvParts, Resting
  <2>. QED
    BY <2>5, <2>6, <2>7, <2>8 DEF InvParts
<1>5. CASE renew
  <2>. DEFINE s == [id |-> certs.signer.id + 1, born |-> time, exp |-> time + SignerLife,
                    after |-> time + SignerLife, cfg |-> 1]
  <2>1. new = s
    BY <1>0, <1>5 DEF NewSigner
  <2>2. s \in Signers /\ s.born = time /\ OkSigner(s, time, checked) /\ s # certs.signer
    BY <1>0, <1>2, Numbers DEF OkSigner, Signers
  <2>. HIDE DEF s
  <2>3. certs' = [signer |-> s, bundle |-> certs.bundle, target |-> certs.target] /\ sync'.pc = "bundle" /\ sync'.ca = s
    BY <1>0, <1>1, <1>5, <2>1 DEF InvParts, Types, Secrets
  <2>4. \A t \in About : Young(t, checked)
    <3>. SUFFICES ASSUME NEW t \in About, Waits(t, certs.signer, checked), ~Young(t, checked) PROVE FALSE
      BY DEF InvParts, Ages, InTime
    <3>1. old = certs.signer
      BY <1>0 DEF InvParts, Copies, IsNew
    <3>2. /\ time < old.born + SignerRefresh
          /\ ~(time >= old.after \/ 5 * (old.after - time) <= old.after - old.born)
      BY <1>0, <3>1, WaitedForStays DEF InvParts, Ages
    <3>. QED
      BY <1>0, <1>2, <1>5, <3>2, Numbers DEF TooOld, Signers
  <2>5. Types'
    <3>1. sync' \in [pc: {"idle", "signer", "bundle", "target"}, ca: Signers \cup {NoCert}, trust: SUBSET CAs]
      BY <1>1, <1>5, <2>1, <2>2 DEF InvParts, Types
    <3>2. certs' \in Secrets
      BY <1>0, <2>2, <2>3 DEF Secrets
    <3>. QED
      BY <1>0, <1>1, <3>1, <3>2 DEF InvParts, Types
  <2>6. Ages'
    BY <1>0, <1>1, <1>3, <2>2, <2>3, <2>4 DEF InvParts, Ages, InTime
  <2>8. Bundles'
    BY <1>1, <1>3, <2>2, <2>3, <2>4 DEF InvParts, Bundles, IsNew
  <2>9. Copies'
    BY <1>1, <1>3, <2>2, <2>3, <2>4 DEF InvParts, Copies, IsNew
  <2>10. Going'
    <3>1. time < s.born + SignerRefresh
      BY <1>0, <2>2, Numbers
    <3>. QED
      BY <1>0, <1>1, <1>3, <2>2, <2>3, <2>4, <3>1 DEF InvParts, Going, IsNew
  <2>11. Resting'
    BY <1>1, <2>1, <2>2 DEF Resting
  <2>. QED
    BY <2>5, <2>6, <2>8, <2>9, <2>10, <2>11 DEF InvParts
<1>. QED
  BY <1>4, <1>5

\* The bundle keeps the issuer of every target about, which lives, and gets
\* the signer.
LEMMA EnsureBundleKeeps == ASSUME SafeRotation, InvParts, EnsureCertBundle PROVE InvParts'
<1>. DEFINE all == {ca \in lister.bundle \cup {CA(sync.ca)} : time < ca.exp}
            bundle == IF all = lister.bundle THEN certs.bundle ELSE all
<1>0. /\ sync.pc = "bundle" /\ down = 0
      /\ certs \in Secrets /\ lister \in Secrets
      /\ time \in Nat /\ checked \in Nat /\ checked <= time /\ time <= checked + Longest
      /\ OkSigner(sync.ca, time, checked)
  BY DEF InvParts, Types, Ages, Going, EnsureCertBundle
<1>1. /\ certs' = [certs EXCEPT !.bundle = bundle]
      /\ sync' = [sync EXCEPT !.pc = "target", !.trust = all]
      /\ rest' = (rest /\ all = lister.bundle)
      /\ UNCHANGED <<time, version, lister, hookCA, inStore, crt, down, checked, calm, tries>>
  BY <1>0 DEF EnsureCertBundle, Secrets
<1>2. sync.ca \in Signers /\ certs.signer \in Signers /\ lister.signer \in Signers
  BY <1>0 DEF OkSigner, Secrets
<1>3. CA(sync.ca) \in all
  BY <1>0, <1>2, Shapes, SignerLives
<1>4. CA(lister.signer) \in lister.bundle => CA(lister.signer) \in all
  BY <1>0, <1>2, Shapes, SignerLives DEF InvParts, Copies
<1>5. all \subseteq CAs /\ bundle \subseteq CAs
  BY <1>0, <1>2, Shapes DEF Secrets
<1>6. \A t \in About : Covers(all, t)
  <2>. SUFFICES ASSUME NEW t \in About PROVE Covers(all, t)
    OBVIOUS
  <2>1. time < t.exp /\ t \in Targets
    BY <1>0, InTimeLives DEF InvParts, Ages, OkTarget
  <2>2. PICK ca \in lister.bundle : ca.id = t.issuer /\ t.exp <= ca.exp
    BY <1>0 DEF InvParts, Copies, Covers
  <2>3. ca \in CAs
    BY <1>0, <2>2 DEF Secrets
  <2>4. ca \in all
    BY <1>0, <2>1, <2>2, <2>3 DEF CAs, Targets
  <2>. QED
    BY <2>2, <2>4 DEF Covers
<1>7. \A t \in About : Covers(bundle, t)
  BY <1>6 DEF InvParts, Bundles
<1>8. CA(sync.ca) \in bundle \/ IsNew(sync.ca)
  BY <1>0, <1>3 DEF InvParts, Copies, Going
<1>9. CA(lister.signer) \in lister.bundle => CA(lister.signer) \in bundle
  BY <1>0, <1>4 DEF InvParts, Copies
<1>10. CA(certs.signer) \in bundle \/ IsNew(certs.signer)
  BY <1>0, <1>9 DEF InvParts, Bundles, Copies
<1>. HIDE DEF all, bundle
<1>11. /\ certs' \in Secrets /\ certs'.signer = certs.signer /\ certs'.target = certs.target
       /\ certs'.bundle = bundle
  BY <1>0, <1>1, <1>5 DEF Secrets
<1>12. /\ sync' \in [pc: {"idle", "signer", "bundle", "target"}, ca: Signers \cup {NoCert}, trust: SUBSET CAs]
       /\ sync'.pc = "target" /\ sync'.ca = sync.ca /\ sync'.trust = all
  BY <1>1, <1>5 DEF InvParts, Types
<1>13. About' = About
  BY <1>1, <1>11 DEF About
<1>14. Types'
  BY <1>0, <1>1, <1>11, <1>12 DEF InvParts, Types
<1>15. Ages'
  BY <1>1, <1>11, <1>13 DEF InvParts, Ages
<1>16. Bundles'
  BY <1>1, <1>7, <1>10, <1>11, <1>13 DEF InvParts, Bundles, IsNew
<1>17. Copies'
  BY <1>1, <1>9, <1>11, <1>13 DEF InvParts, Copies, IsNew
<1>18. Going'
  BY <1>0, <1>1, <1>6, <1>8, <1>11, <1>12, <1>13 DEF InvParts, Going, IsNew
<1>19. Resting'
  <2>. SUFFICES ASSUME rest, all = lister.bundle PROVE Resting'
    BY <1>1 DEF Resting
  <2>1. lister = certs
    BY <1>0 DEF InvParts, Resting
  <2>2. certs' = certs
    BY <1>0, <1>1 DEF Secrets, bundle
  <2>. QED
    BY <1>0, <1>1, <1>12, <2>1, <2>2 DEF InvParts, Resting
<1>. QED
  BY <1>14, <1>15, <1>16, <1>17, <1>18, <1>19 DEF InvParts
\* A new target is signed by a signer of an earlier hour, which the webhooks
\* know: a signer of this hour finds only young targets, and those wait.
LEMMA EnsureTargetKeeps == ASSUME SafeRotation, InvParts, EnsureTarget PROVE InvParts'
<1>. DEFINE renew == lister.target = NoCert \/ NeedNewTarget(lister.target)
            new == IF renew THEN NewTarget(sync.ca)
                   ELSE IF certs.target = NoCert THEN NoCert ELSE EnsureCertConfig(certs.target)
            ca == sync.ca
<1>0. /\ sync.pc = "target" /\ down = 0
      /\ certs \in Secrets /\ lister \in Secrets
      /\ time \in Nat /\ checked \in Nat /\ checked <= time /\ time <= checked + Longest
      /\ Def.targetRefresh = TargetRefresh /\ Def.targetLife = TargetLife /\ version = 1
  BY DEF InvParts, Types, Ages, EnsureTarget, Def, TargetRefresh, TargetLife
<1>1. /\ certs' = [certs EXCEPT !.target = new]
      /\ rest' = (rest /\ new = certs.target)
      /\ sync' = [pc |-> "idle", ca |-> NoCert, trust |-> {}]
      /\ UNCHANGED <<time, version, lister, hookCA, inStore, crt, down, checked, calm, tries>>
  BY DEF EnsureTarget
<1>2. /\ OkSigner(ca, time, checked) /\ time < ca.born + SignerRefresh
      /\ ca = lister.signer \/ IsNew(ca)
      /\ \A t \in About : Covers(sync.trust, t)
      /\ CA(ca) \in certs.bundle \/ IsNew(ca)
      /\ hookCA = lister.bundle
  BY <1>0 DEF InvParts, Going
<1>3. lister.target \in About /\ lister.target \in Targets /\ certs.target \in Targets /\ ca \in Signers
  BY <1>0, <1>2 DEF About, Secrets, OkSigner
<1>4. CASE ~renew
  <2>1. new = certs.target
    BY <1>0, <1>3, <1>4, Shapes DEF EnsureCertConfig, Targets
  <2>2. certs' = certs
    BY <1>0, <1>1, <2>1 DEF Secrets
  <2>3. About' = About
    BY <1>1, <2>2 DEF About
  <2>4. Types' /\ Ages' /\ Bundles' /\ Copies' /\ Going'
    BY <1>0, <1>1, <2>2, <2>3 DEF InvParts, Types, Ages, Bundles, Copies, Going, IsNew
  <2>5. Resting'
    <3>. SUFFICES ASSUME rest PROVE Resting'
      BY <1>1 DEF Resting
    <3>1. lister = certs /\ sync.ca = certs.signer /\ time < certs.signer.born + SignerRefresh
      BY <1>0 DEF InvParts, Resting
    <3>2. ~(time >= certs.target.born + TargetRefresh /\ 10 * (time - certs.signer.born) >= TargetRefresh)
      BY <1>0, <1>4, <3>1 DEF NeedNewTarget
    <3>3. \/ time < certs.target.born + TargetRefresh
          \/ 10 * (time - certs.signer.born) < TargetRefresh
      BY <1>0, <1>3, <3>1, <3>2, Numbers DEF Targets, Signers
    <3>. QED
      BY <1>0, <1>1, <2>2, <3>1, <3>3 DEF Resting
  <2>. QED
    BY <2>4, <2>5 DEF InvParts
<1>5. CASE renew
  <2>1. ca = lister.signer /\ CA(ca) \in lister.bundle
    <3>1. NeedNewTarget(lister.target)
      BY <1>3, <1>5, Shapes
    <3>2. ~(\A c \in sync.trust : c.id # lister.target.issuer)
      BY <1>2, <1>3 DEF Covers
    <3>3. CASE TooOld(lister.target)
      <4>1. ~Young(lister.target, checked)
        BY <1>0, <1>3, <3>3, YoungWaits DEF InvParts, Ages, TooOld
      <4>. QED
        BY <1>0, <1>2, <1>3, <4>1 DEF InvParts, Copies, IsNew
    <3>4. CASE 10 * (time - ca.born) >= TargetRefresh
      <4>1. ca.born # time
        BY <1>0, <3>4, Numbers
      <4>. QED
        BY <1>0, <1>2, <4>1 DEF InvParts, Copies, IsNew
    <3>. QED
      BY <1>0, <3>1, <3>2, <3>3, <3>4 DEF NeedNewTarget
  <2>2. CA(ca) \in certs.bundle /\ CA(ca) \in hookCA
    BY <1>0, <1>2, <2>1 DEF InvParts, Copies
  <2>. DEFINE t == [issuer |-> ca.id, born |-> time, exp |-> time + TargetLife,
                    after |-> time + TargetLife, cfg |-> 1]
  <2>3. new = t
    BY <1>0, <1>2, <1>3, <1>5, Numbers DEF NewTarget, OkSigner, Signers
  <2>4. t \in Targets /\ OkTarget(t, time) /\ Young(t, checked) /\ t.born = time
    BY <1>0, <1>3, Numbers DEF OkTarget, Young, Targets, Signers
  <2>5. CA(ca).id = t.issuer /\ t.exp <= CA(ca).exp
    BY <1>0, <1>2, <1>3, Shapes, Numbers DEF OkSigner, Signers
  <2>6. Covers(hookCA, t) /\ Covers(certs.bundle, t) /\ Covers(lister.bundle, t)
    BY <2>1, <2>2, <2>5 DEF Covers
  <2>. HIDE DEF t
  <2>7. /\ certs' \in Secrets /\ certs'.signer = certs.signer /\ certs'.bundle = certs.bundle
        /\ certs'.target = t
    BY <1>0, <1>1, <2>3, <2>4 DEF Secrets
  <2>8. About' \subseteq About \cup {t}
    BY <1>1, <2>7 DEF About
  <2>9. Types' /\ Going'
    BY <1>0, <1>1, <2>7 DEF InvParts, Types, Going
  <2>10. Ages'
    BY <1>1, <2>4, <2>7, <2>8 DEF InvParts, Ages, InTime
  <2>11. Bundles'
    BY <1>1, <2>4, <2>6, <2>7, <2>8 DEF InvParts, Bundles, IsNew
  <2>12. Copies'
    BY <1>1, <2>4, <2>6, <2>7, <2>8 DEF InvParts, Copies, IsNew
  <2>13. Resting'
    <3>. SUFFICES ASSUME rest, t = certs.target PROVE Resting'
      BY <1>1, <2>3 DEF Resting
    <3>1. certs' = certs
      BY <1>0, <1>1, <2>3 DEF Secrets
    <3>2. time < certs.target.born + TargetRefresh
      BY <1>0, <2>4, Numbers
    <3>. QED
      BY <1>0, <1>1, <3>1, <3>2 DEF InvParts, Resting
  <2>. QED
    BY <2>9, <2>10, <2>11, <2>12, <2>13 DEF InvParts
<1>. QED
  BY <1>4, <1>5

LEMMA StopsKeeps == ASSUME InvParts, OperatorStops PROVE InvParts'
<1>1. /\ down = 0 /\ down' = 1 /\ sync' = [pc |-> "idle", ca |-> NoCert, trust |-> {}]
      /\ UNCHANGED <<time, version, certs, lister, hookCA, inStore, crt, rest, checked, calm>>
  BY DEF OperatorStops
<1>2. About' \subseteq About
  BY <1>1 DEF About
<1>3. Types' /\ Ages' /\ Bundles'
  BY <1>1, <1>2 DEF InvParts, Types, Ages, Bundles, IsNew
<1>4. Copies' /\ Going' /\ Resting'
  BY <1>1 DEF Copies, Going, Resting
<1>. QED
  BY <1>3, <1>4 DEF InvParts

LEMMA StartsKeeps == ASSUME InvParts, OperatorStarts PROVE InvParts'
<1>1. /\ down > 0 /\ down' = 0 /\ lister' = certs /\ rest' = FALSE
      /\ UNCHANGED <<time, version, certs, hookCA, inStore, crt, sync, checked, calm, tries>>
  BY DEF OperatorStarts
<1>2. About' \subseteq About /\ sync.pc = "idle"
  BY <1>1 DEF InvParts, Types, About
<1>3. Types' /\ Ages' /\ Bundles'
  BY <1>1, <1>2 DEF InvParts, Types, Ages, Bundles, IsNew
<1>4. Copies'
  BY <1>1, <1>2 DEF InvParts, Ages, Bundles, Copies, IsNew
<1>5. Going' /\ Resting'
  BY <1>1, <1>2 DEF Going, Resting
<1>. QED
  BY <1>3, <1>4, <1>5 DEF InvParts

\* Time passes: with the operator up, the reconcile of this hour has found no
\* signer due, and no target due but one that waits for a new signer.
LEMMA PassHoursKeeps == ASSUME SafeRotation, InvParts, PassHours, calm' PROVE InvParts'
<1>0. /\ time \in Nat /\ checked \in Nat /\ checked <= time /\ time <= checked + Longest
      /\ certs \in Secrets /\ down \in Nat
      /\ certs.signer \in Signers /\ certs.target \in Targets
      /\ OkSigner(certs.signer, time, checked)
      /\ \A t \in About : OkTarget(t, time) /\ InTime(t, certs.signer, checked)
  BY DEF InvParts, Types, Ages, Secrets
<1>1. /\ inStore = certs.target /\ time' = time + 1 /\ rest' = FALSE
      /\ time - checked' <= SafeOutage /\ CA(certs.signer) \in certs.bundle
      /\ UNCHANGED <<version, certs, lister, hookCA, inStore, crt, sync, tries>>
  BY DEF PassHours
<1>2. CASE down = 0
  <2>1. down' = 0 /\ checked' = time /\ lister = certs /\ rest /\ sync.pc = "idle"
    BY <1>2 DEF PassHours
  <2>2. About = {certs.target} /\ About' = About
    BY <1>1, <1>2, <2>1 DEF About
  <2>3. time < certs.signer.born + SignerRefresh
        /\ (time < certs.target.born + TargetRefresh \/ 10 * (time - certs.signer.born) < TargetRefresh)
    BY <1>2, <2>1 DEF InvParts, Resting
  <2>4. OkSigner(certs.signer, time', checked') /\ OkTarget(certs.target, time')
    BY <1>0, <1>1, <2>1, <2>2, <2>3 DEF OkSigner, OkTarget, Signers, Targets
  <2>5. InTime(certs.target, certs.signer, checked')
    <3>1. InTime(certs.target, certs.signer, checked) /\ certs.signer.born <= time
      BY <1>0, <2>2 DEF OkSigner
    <3>. QED
      BY <1>0, <2>1, <2>3, <3>1, Numbers DEF InTime, Young, Waits, Signers, Targets
  <2>6. Types' /\ Going' /\ Resting'
    <3>0. rest' \in BOOLEAN
      BY <1>1, Zenon
    <3>1. time' \in Nat /\ checked' \in Nat
      BY <1>0, <1>1, <2>1
    <3>2. Types'
      BY <1>0, <1>1, <2>1, <3>0, <3>1 DEF InvParts, Types
    <3>. QED
      BY <1>1, <2>1, <3>2 DEF Going, Resting
  <2>7. checked' <= time' /\ time' <= checked' + Longest
    BY <1>0, <1>1, <2>1, Numbers
  <2>8. Ages'
    BY <1>1, <2>2, <2>4, <2>5, <2>7 DEF Ages
  <2>9. Bundles' /\ Copies'
    BY <1>1, <1>2, <2>1, <2>2, <2>4 DEF InvParts, Bundles, Copies
  <2>. QED
    BY <2>6, <2>8, <2>9 DEF InvParts
<1>3. CASE down # 0
  <2>1. down' = down + 1 /\ checked' = checked /\ sync.pc = "idle" /\ down' # 0
    BY <1>0, <1>3 DEF PassHours, InvParts, Types
  <2>2. About' = About /\ About = {certs.target}
    BY <1>1, <1>3, <2>1 DEF About
  <2>3. OkSigner(certs.signer, time', checked) /\ OkTarget(certs.target, time')
    BY <1>0, <1>1, <2>2 DEF OkSigner, OkTarget, Signers, Targets
  <2>4. checked <= time' /\ time' <= checked + Longest
    BY <1>0, <1>1, <2>1, CertAssumption DEF Longest
  <2>5. Types' /\ Going' /\ Resting'
    <3>0. rest' \in BOOLEAN
      BY <1>1, Zenon
    <3>1. time' \in Nat /\ down' \in Nat
      BY <1>0, <1>1, <2>1
    <3>2. Types'
      BY <1>1, <2>1, <3>0, <3>1 DEF InvParts, Types
    <3>. QED
      BY <1>1, <2>1, <3>2 DEF Going, Resting
  <2>6. Ages'
    BY <1>0, <1>1, <2>1, <2>2, <2>3, <2>4 DEF Ages
  <2>7. Bundles' /\ Copies'
    BY <1>1, <2>1, <2>2 DEF InvParts, Bundles, Copies
  <2>. QED
    BY <2>5, <2>6, <2>7 DEF InvParts
<1>. QED
  BY <1>2, <1>3

\* Every step keeps the invariant while all is calm, and calm does not come
\* back.
LEMMA CertStep == SafeRotation /\ CertInv /\ [CertNext]_certVars => CertInv'
<1>. SUFFICES ASSUME SafeRotation, CertInv, [CertNext]_certVars, calm' PROVE InvParts'
  BY DEF CertInv
<1>1. ~(ChangeCertConfig \/ DeleteTarget)
  BY DEF ChangeCertConfig, DeleteTarget
<1>2. CASE UNCHANGED certVars
  BY <1>2 DEF certVars, CertInv, InvParts, Types, Ages, Bundles, Copies, Going, Resting, IsNew, About
<1>3. CASE CertNext
  <2>1. calm
    BY <1>1, <1>3 DEF CertNext, Rotation, ServerSync, Handshake, BeginReconcile, EnsureSigner,
          EnsureCertBundle, EnsureTarget, OperatorStops, OperatorStarts, PassHours
  <2>2. InvParts
    BY <2>1 DEF CertInv
  <2>. QED
    BY <1>1, <1>3, <2>2, ServerSyncKeeps, HandshakeKeeps, BeginKeeps, EnsureSignerKeeps, EnsureBundleKeeps,
       EnsureTargetKeeps, StopsKeeps, StartsKeeps, PassHoursKeeps DEF CertNext, Rotation
<1>. QED
  BY <1>2, <1>3

\* Through any number of rotations, outages and reconciles on old copies, the
\* API server accepts what the admission server serves, as long as all is calm
\* and the certConfig leaves room for it (cert_rotation.go, operator's
\* reconcile of the webhooks).
THEOREM ServedIsTrustedHolds ==
    ASSUME SafeRotation
    PROVE  CertInit /\ [][CertNext]_certVars => []ServedIsTrusted
<1>1. CertInit => CertInv
  BY CertInitHolds DEF CertInv
<1>2. CertInv /\ [CertNext]_certVars => CertInv'
  BY CertStep
<1>3. CertInv => ServedIsTrusted
  BY InvTrusts DEF CertInv, ServedIsTrusted
<1>. QED
  BY <1>1, <1>2, <1>3, PTL
=============================================================================
