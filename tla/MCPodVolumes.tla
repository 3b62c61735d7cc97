---------------------------- MODULE MCPodVolumes ----------------------------
(* Manifests for model checking PodVolumes.                                *)
EXTENDS PodVolumes

Data == <<"d", "a", "t", "a">>
Logs == <<"l", "-", "1">>
Conf == <<"c">>
Dat1 == <<"d", "a", "t", "1">>

PVC(name, claim, ro) == [name |-> name, kind |-> "pvc", claim |-> claim, ro |-> ro]
Other(name, kind) == [name |-> name, kind |-> kind, claim |-> None, ro |-> FALSE]
On(vol, path, ro) == [vol |-> vol, path |-> path, ro |-> ro, dev |-> FALSE]
Device(vol, path) == [vol |-> vol, path |-> path, ro |-> FALSE, dev |-> TRUE]

ProbeOf(kind, timeout) == [kind |-> kind, port |-> 80, timeout |-> timeout, delay |-> 0]
Ctr(name, init, mounts) ==
    [name |-> name, init |-> init, mounts |-> mounts, probe |-> ProbeOf("http", 1),
     cpu |-> 600, mem |-> 300, pages |-> <<>>, vfs |-> 0, gpu |-> FALSE,
     ports |-> <<[port |-> 80, proto |-> "TCP"]>>]
PodOf(volumes, ctrs) ==
    [sandbox |-> TRUE, deleting |-> FALSE, label |-> FALSE, finalizer |-> FALSE, snapshot |-> None,
     placement |-> FALSE, rootfs |-> None, tee |-> None, nad |-> None, claims |-> FALSE,
     volumes |-> volumes, ctrs |-> ctrs]

\* An init container fills a new claim and a scratch directory for two
\* others, one of which has the scratch directory at two paths.
InitAndApps ==
    PodOf(<<PVC(Data, "k1", FALSE), Other(Conf, "configMap"), Other(Logs, "emptyDir")>>,
          <<Ctr("i", TRUE, <<On(Data, "/d", FALSE), On(Logs, "/l", FALSE)>>),
            Ctr("a", FALSE, <<On(Logs, "/l", FALSE), On(Conf, "/c", TRUE), On(Logs, "/m", FALSE)>>),
            Ctr("b", FALSE, <<On(Data, "/d", TRUE), On(Logs, "/l", FALSE)>>)>>)
\* Two claims, one read-only and shared by containers that start together,
\* one as a raw device; confidential, and with pages for all of the guest.
Devices ==
    [PodOf(<<PVC(Data, "k2", TRUE), PVC(Logs, "k3", FALSE)>>,
           <<[Ctr("a", FALSE, <<On(Data, "/d", FALSE), Device(Logs, "/dev/x")>>)
                EXCEPT !.pages = <<[size |-> "2Mi", qty |-> 2000]>>],
             [Ctr("b", FALSE, <<On(Data, "/e", TRUE)>>)
                EXCEPT !.ports = <<[port |-> 80, proto |-> "UDP"], [port |-> 0, proto |-> "TCP"]>>]>>)
        EXCEPT !.tee = "snp"]
\* The container's root on a claim, and an interface of an SR-IOV network.
RootOnClaim ==
    [PodOf(<<PVC(Data, "k2", FALSE), Other(Logs, "emptyDir")>>,
           <<[Ctr("a", FALSE, <<On(Logs, "/l", FALSE), Device(Logs, "/dev/l")>>)
                EXCEPT !.vfs = 1, !.probe = ProbeOf("tcp", 30)]>>)
        EXCEPT !.rootfs = Data, !.nad = "net"]
\* An ephemeral volume, for which the VMI gets no disk.
Ephemeral == PodOf(<<Other(Data, "ephemeral")>>, <<Ctr("a", FALSE, <<On(Data, "/d", FALSE)>>)>>)
\* Refused by the translation: confidential with a GPU, a rootfs that is no
\* claim, two page sizes, no network for the interface, a resource claim.
OneCtr == PodOf(<<Other(Logs, "emptyDir")>>, <<Ctr("a", FALSE, <<On(Logs, "/l", FALSE)>>)>>)
Untranslatable ==
    {[OneCtr EXCEPT !.tee = "tdx", !.ctrs[1].gpu = TRUE],
     [OneCtr EXCEPT !.rootfs = Logs],
     [OneCtr EXCEPT !.ctrs[1].pages = <<[size |-> "2Mi", qty |-> 1], [size |-> "1Gi", qty |-> 1]>>],
     [OneCtr EXCEPT !.ctrs[1].vfs = 1],
     [OneCtr EXCEPT !.claims = TRUE]}
\* Refused by the webhook: an annotation that is too large.
TooLarge == PodOf(<<Other(Data, "emptyDir"), Other(Logs, "emptyDir")>>,
                  <<Ctr("a", FALSE, <<On(Data, "/d", FALSE), On(Data, "/e", FALSE), On(Data, "/f", FALSE), On(Data, "/g", FALSE),
                                      On(Logs, "/l", FALSE), On(Logs, "/m", FALSE), On(Logs, "/n", FALSE)>>)>>)
\* Not a sandbox.
Plain == [OneCtr EXCEPT !.sandbox = FALSE]
\* A blank claim and an emptyDir of two containers that start together.
SharedBlank ==
    PodOf(<<PVC(Data, "k1", FALSE), Other(Logs, "emptyDir")>>,
          <<Ctr("a", FALSE, <<On(Data, "/d", FALSE), On(Logs, "/l", FALSE)>>),
            Ctr("b", FALSE, <<On(Data, "/d", FALSE), On(Logs, "/l", FALSE)>>)>>)
\* Two volumes of one claim, and an ephemeral volume with the serial of one.
Ambiguous ==
    PodOf(<<PVC(Data, "k1", FALSE), Other(Dat1, "ephemeral"), PVC(Logs, "k1", FALSE)>>,
          <<Ctr("a", FALSE, <<On(Data, "/d", FALSE), On(Dat1, "/e", FALSE)>>), Ctr("b", FALSE, <<On(Logs, "/d", FALSE)>>)>>)

\* A scratch directory at /tmp of one container and elsewhere in another; two
\* claims as devices of one name, and one of them again outside /dev.
OneTmp ==
    PodOf(<<Other(Logs, "emptyDir"), PVC(Data, "k2", FALSE), PVC(Conf, "k3", TRUE)>>,
          <<Ctr("a", FALSE, <<On(Logs, "/tmp", FALSE), Device(Data, "/dev/x")>>),
            Ctr("b", FALSE, <<On(Logs, "/l", FALSE), Device(Conf, "/dev/x"), Device(Data, "/x")>>)>>)

AllTemplates == {InitAndApps, SharedBlank, Devices, OneTmp, RootOnClaim, Ephemeral, Ambiguous, TooLarge, Plain} \cup Untranslatable
Volumes == {Data, Logs, Conf, Dat1}
Letters == {"a", "c", "d", "l", "t", "1"}
\* The defaults of the code, and a config that adds a class and no more.
CodeDefaults ==
    [overhead |-> [cpu |-> 50, mem |-> 64], tee |-> "off", nad |-> None, binding |-> "masquerade",
     classes |-> <<[name |-> "s", cpu |-> 1000, mem |-> 512], [name |-> "m", cpu |-> 2000, mem |-> 2048]>>]
OwnClasses ==
    [overhead |-> None, tee |-> None, nad |-> None, binding |-> None,
     classes |-> <<[name |-> "s", cpu |-> 1000, mem |-> 512], [name |-> "l", cpu |-> 4000, mem |-> 4096]>>]

\* Only does what SelectSeq does.
ASSUME OnlyAssumption ==
    \A s \in UNION {[1 .. n -> 1 .. 3] : n \in 0 .. 4}, S \in SUBSET (1 .. 3) :
        Only(s, S) = SelectSeq(s, LAMBDA x : x \in S)
=============================================================================
