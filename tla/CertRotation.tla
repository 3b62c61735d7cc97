---------------------------- MODULE CertRotation ----------------------------
(***************************************************************************)
(* The certificates of the admission server.  The operator keeps a signer, *)
(* a bundle of all signers that are still valid, and a target certificate  *)
(* for the server, and copies the bundle into the webhook configurations;  *)
(* the server serves the target from its own copy of the secret.  The API  *)
(* server calls the webhooks, which fail closed, only if what is served    *)
(* verifies against the webhooks' bundle.                                  *)
(*                                                                         *)
(* A reconcile writes the webhooks first, from the bundle as it is then,   *)
(* and rotates afterwards: a new signer reaches the webhooks one reconcile *)
(* later.  Reconciles come every minute, so time, which is counted in      *)
(* steps of hours, passes only when nothing is left to do, or while the    *)
(* operator is down.                                                       *)
(***************************************************************************)
EXTENDS Naturals, FiniteSets

CONSTANTS
    CertConfigs,    \* the certConfig of the CR, per version: [ca, server] of [duration, renewBefore]
    MaxTime,        \* bound: time
    SafeOutage,     \* how long the operator may fail to finish a reconcile without harm
    MaxOutage,      \* bound: length of an outage
    MaxTroubles,    \* bound: outages, reconciles on an old copy of the secrets,
                    \* deletions of the target and changes of the certConfig
    NoCert          \* a secret without data, or no secret

ASSUME CertAssumption == MaxTime \in Nat /\ SafeOutage \in Nat /\ MaxOutage \in Nat
ASSUME NoCertAssumption == NoCert \notin [issuer: Nat, born: Nat, exp: Nat, after: Nat, cfg: {1}]

VARIABLES
    time,
    version,   \* the version of the certConfig in force
    certs,     \* the secrets and the bundle: [signer, bundle, target]
    lister,    \* the copy of them the operator works from
    hookCA,    \* the CABundle of the webhook configurations
    inStore,   \* the server's copy of the target
    crt,       \* the certificate the server has loaded
    sync,      \* the reconcile under way: [pc, ca, trust]
    rest,      \* the last reconcile of this step of time found nothing to do
    down,      \* steps of time the operator has been down, 0 when it is up
    checked,   \* when the operator last had nothing left to do
    calm,      \* so far no long outage, none between the writes of a signer and
               \* of its bundle, no deletion and no new certConfig
    tries      \* troubles left

certVars == <<time, version, certs, lister, hookCA, inStore, crt, sync, rest, down, checked, calm, tries>>

\* Refresh counts from the beginning of a certificate, renewBefore from its
\* end.
CertificateDefinition(v) ==
    [signerLife |-> CertConfigs[v].ca.duration,
     signerRefresh |-> CertConfigs[v].ca.duration - CertConfigs[v].ca.renewBefore,
     targetLife |-> CertConfigs[v].server.duration,
     targetRefresh |-> CertConfigs[v].server.duration - CertConfigs[v].server.renewBefore]

Def == CertificateDefinition(version)

\* "born" and "exp" are the certificate's, "after" is what its secret is
\* annotated with, "cfg" the certConfig it was last checked against.
NewSigner(id) == [id |-> id, born |-> time, exp |-> time + Def.signerLife, after |-> time + Def.signerLife, cfg |-> version]
CA(s) == [id |-> s.id, born |-> s.born, exp |-> s.exp]

NewTarget(ca) ==
    LET exp == IF time + Def.targetLife <= ca.exp THEN time + Def.targetLife ELSE ca.exp
    IN  [issuer |-> ca.id, born |-> time, exp |-> exp, after |-> exp, cfg |-> version]

\* Expired, or past 80 per cent of its validity.
TooOld(c) == time >= c.after \/ 5 * (c.after - time) <= c.after - c.born
-----------------------------------------------------------------------------
(* The server and the API server.                                          *)

\* The server's informer.
ServerSync ==
    /\ inStore # certs.target
    /\ inStore' = certs.target
    /\ UNCHANGED <<time, version, certs, lister, hookCA, crt, sync, rest, down, checked, calm, tries>>

MutCurrent == crt

\* What a handshake gets: the store's certificate, or the last one that
\* could be loaded.
Current == IF inStore # NoCert THEN inStore ELSE crt

Handshake ==
    /\ crt # Current
    /\ crt' = Current
    /\ UNCHANGED <<time, version, certs, lister, hookCA, inStore, sync, rest, down, checked, calm, tries>>

\* The API server accepts what the server serves.
Trusted ==
    /\ time < Current.exp
    /\ \E ca \in hookCA : ca.id = Current.issuer /\ time < ca.exp
-----------------------------------------------------------------------------
(* The operator.                                                           *)

\* The webhooks are applied with the bundle as the operator's cache has it.
BeginReconcile ==
    /\ sync.pc = "idle" /\ down = 0
    /\ ~rest \/ lister # certs
    /\ \/ lister' = certs /\ UNCHANGED tries
       \/ lister # certs /\ tries > 0 /\ lister' = lister /\ tries' = tries - 1
    /\ sync' = [pc |-> "signer", ca |-> NoCert, trust |-> {}]
    /\ hookCA' = lister'.bundle
    /\ rest' = (lister' = certs /\ hookCA = lister'.bundle)
    /\ UNCHANGED <<time, version, certs, inStore, crt, down, checked, calm>>

\* A certificate checked against another certConfig is made to look expired.
EnsureCertConfig(c) == IF c.cfg = version THEN c ELSE [c EXCEPT !.after = time, !.cfg = version]

\* The decision is taken on the lister's copy, which does not have yet what
\* ensureCertConfig has just written.
EnsureSigner ==
    /\ sync.pc = "signer"
    /\ LET old == lister.signer
           renew == TooOld(old) \/ time >= old.born + Def.signerRefresh
           new == IF renew THEN NewSigner(certs.signer.id + 1) ELSE EnsureCertConfig(certs.signer)
       IN  /\ certs' = [certs EXCEPT !.signer = new]
           /\ sync' = [sync EXCEPT !.pc = "bundle", !.ca = IF renew THEN new ELSE old]
           /\ rest' = (rest /\ new = certs.signer)
    /\ UNCHANGED <<time, version, lister, hookCA, inStore, crt, down, checked, calm, tries>>

MutEnsureCertBundle ==
    /\ sync.pc = "bundle"
    /\ certs' = [certs EXCEPT !.bundle = {CA(sync.ca)}]
    /\ sync' = [sync EXCEPT !.pc = "target", !.trust = {CA(sync.ca)}]
    /\ rest' = (rest /\ certs.bundle = {CA(sync.ca)})
    /\ UNCHANGED <<time, version, lister, hookCA, inStore, crt, down, checked, calm, tries>>

\* The current signer and the earlier ones that have not expired.
EnsureCertBundle ==
    /\ sync.pc = "bundle"
    /\ LET all == {ca \in lister.bundle \cup {CA(sync.ca)} : time < ca.exp}
       IN  /\ certs' = [certs EXCEPT !.bundle = IF all = lister.bundle THEN @ ELSE all]
           /\ sync' = [sync EXCEPT !.pc = "target", !.trust = all]
           /\ rest' = (rest /\ all = lister.bundle)
    /\ UNCHANGED <<time, version, lister, hookCA, inStore, crt, down, checked, calm, tries>>

\* A target past its refresh time waits for a signer that has been known for
\* a tenth of it; one that is too old, or whose issuer is not in the bundle,
\* does not wait.
NeedNewTarget(c) ==
    \/ TooOld(c)
    \/ /\ time >= c.born + Def.targetRefresh
       /\ 10 * (time - sync.ca.born) >= Def.targetRefresh
    \/ \A ca \in sync.trust : ca.id # c.issuer

EnsureTarget ==
    /\ sync.pc = "target"
    /\ LET renew == lister.target = NoCert \/ NeedNewTarget(lister.target)
           new == IF renew THEN NewTarget(sync.ca)
                  ELSE IF certs.target = NoCert THEN NoCert ELSE EnsureCertConfig(certs.target)
       IN  /\ certs' = [certs EXCEPT !.target = new]
           /\ rest' = (rest /\ new = certs.target)
    /\ sync' = [pc |-> "idle", ca |-> NoCert, trust |-> {}]
    /\ UNCHANGED <<time, version, lister, hookCA, inStore, crt, down, checked, calm, tries>>
-----------------------------------------------------------------------------
(* Users, outages and time.                                                *)

ChangeCertConfig ==
    /\ version + 1 \in DOMAIN CertConfigs /\ tries > 0
    /\ version' = version + 1
    /\ tries' = tries - 1
    /\ calm' = FALSE /\ rest' = FALSE
    /\ UNCHANGED <<time, certs, lister, hookCA, inStore, crt, sync, down, checked>>

DeleteTarget ==
    /\ certs.target # NoCert /\ tries > 0
    /\ certs' = [certs EXCEPT !.target = NoCert]
    /\ tries' = tries - 1
    /\ calm' = FALSE /\ rest' = FALSE
    /\ UNCHANGED <<time, version, lister, hookCA, inStore, crt, sync, down, checked>>

\* The operator stops, between two calls.
OperatorStops ==
    /\ down = 0 /\ tries > 0
    /\ down' = 1
    /\ sync' = [pc |-> "idle", ca |-> NoCert, trust |-> {}]
    /\ tries' = tries - 1
    /\ UNCHANGED <<time, version, certs, lister, hookCA, inStore, crt, rest, checked, calm>>

OperatorStarts ==
    /\ down > 0
    /\ down' = 0
    /\ lister' = certs
    /\ rest' = FALSE
    /\ UNCHANGED <<time, version, certs, hookCA, inStore, crt, sync, checked, calm, tries>>

PassHours ==
    /\ time < MaxTime
    /\ IF down = 0 THEN rest /\ sync.pc = "idle" /\ lister = certs ELSE down <= MaxOutage
    /\ inStore = certs.target
    /\ time' = time + 1
    /\ down' = IF down = 0 THEN 0 ELSE down + 1
    /\ checked' = IF down = 0 THEN time ELSE checked
    /\ calm' = (calm /\ time - checked' <= SafeOutage /\ CA(certs.signer) \in certs.bundle)
    /\ rest' = FALSE
    /\ UNCHANGED <<version, certs, lister, hookCA, inStore, crt, sync, tries>>
-----------------------------------------------------------------------------
\* After the first installation.
CertInit ==
    /\ time = 0 /\ version = 1
    /\ certs = LET s == NewSigner(1) IN [signer |-> s, bundle |-> {CA(s)}, target |-> NewTarget(s)]
    /\ lister = certs
    /\ hookCA = certs.bundle
    /\ inStore = certs.target /\ crt = certs.target
    /\ sync = [pc |-> "idle", ca |-> NoCert, trust |-> {}]
    /\ rest = FALSE
    /\ down = 0
    /\ checked = 0
    /\ calm = TRUE
    /\ tries = MaxTroubles

Rotation == BeginReconcile \/ EnsureSigner \/ EnsureCertBundle \/ EnsureTarget

CertNext ==
    \/ ServerSync \/ Handshake \/ Rotation
    \/ ChangeCertConfig \/ DeleteTarget \/ OperatorStops \/ OperatorStarts \/ PassHours
-----------------------------------------------------------------------------
\* The longest time from one reconcile that has nothing left to do to the
\* next, as long as all is calm.
Longest == SafeOutage + 1

\* What the first certConfig and SafeOutage need for a rotation without a
\* gap: a target that is due is replaced before it is too old to wait; a
\* signer outlives the targets it signs before it is replaced; it is not
\* replaced while a target waits for it; and that target lives on until then.
SafeRotation ==
    LET def == CertificateDefinition(1)
    IN  /\ {def.signerLife, def.signerRefresh, def.targetLife, def.targetRefresh} \subseteq Nat
        /\ 0 < def.targetRefresh /\ 5 * (def.targetRefresh + Longest) <= 4 * def.targetLife
        /\ def.signerRefresh + def.targetLife <= def.signerLife
        /\ def.targetRefresh + 10 * Longest <= 10 * def.signerRefresh
        /\ \A wait \in 0..def.targetRefresh :
              10 * wait < def.targetRefresh => def.targetRefresh + 2 * Longest + wait <= def.targetLife

\* Through all rotations the API server accepts the server's certificate at
\* every moment, old copies of the secrets and short outages included: the
\* webhooks know a signer before the server shows a certificate of it.
ServedIsTrusted == calm => Trusted

\* After a change of the certConfig, a deleted secret or a long outage the
\* server is accepted again, once the operator works.
TrustRecovers == ~Trusted ~> Trusted
=============================================================================
