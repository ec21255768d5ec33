------------------------------ MODULE Bootstrap ------------------------------
(***************************************************************************)
(* Cluster formation with "kubic-init bootstrap".                          *)
(*                                                                         *)
(* Every node runs one kubic-init process, started by its systemd unit and *)
(* restarted when it exits with an error.  A node whose configuration has  *)
(* no seeder runs "kubeadm init" and then installs, one API call after the *)
(* other, everything a Kubic cluster needs; any other node runs "kubeadm   *)
(* join" against its seeder.  A process may crash between any two steps, a *)
(* call to the API server may be refused or its answer lost, and the       *)
(* operator may reset a host.                                              *)
(*                                                                         *)
(* pc[n] names the call that the process of node n is about to make.       *)
(* kubeadm and the certificate controllers are outside the repository;     *)
(* they are modelled by what kubic-init relies on.                         *)
(***************************************************************************)
EXTENDS Naturals

CONSTANTS
    Nodes,        \* the machines
    NoSeeder,     \* the empty ClusterFormation.Seeder
    Tokens,       \* well-formed bootstrap tokens
    NodeConfigs,  \* NodeConfigs[n]: configurations node n may be given
    MaxFaults,    \* crashes, failed calls and timeouts in a behaviour
    MaxResets     \* "kubic-init reset" runs in a behaviour

(***************************************************************************)
(* What bootstrap reads of the configuration, its flags and its            *)
(* environment.  "valid" says whether loading and --var processing succeed *)
(* (module KubicConfig), "kubeconfig" whether GetConfig locates one, and   *)
(* "files" what kinds of assets its directories hold.                      *)
(***************************************************************************)
NoToken        == "no token"
MalformedToken == "malformed token"

Config ==
    [ seeder      : Nodes \cup {NoSeeder},
      token       : Tokens \cup {NoToken, MalformedToken},
      autoApprove : BOOLEAN,
      caHash      : BOOLEAN,
      driver      : STRING,
      psp         : BOOLEAN,
      valid       : BOOLEAN,
      deployCNI   : BOOLEAN,
      loadAssets  : BOOLEAN,
      files       : SUBSET {"rbac", "crds", "manifests"},
      kubeconfig  : BOOLEAN,
      block       : BOOLEAN ]

ASSUME SeederAssumption  == NoSeeder \notin Nodes
ASSUME ConfigsAssumption == \A n \in Nodes : NodeConfigs[n] \subseteq Config
ASSUME BoundsAssumption  == MaxFaults \in Nat /\ MaxResets \in Nat

VARIABLES
    cfg,      \* cfg[n]: the configuration of node n
    pc,       \* pc[n]: what kubic-init does next on n
    host,     \* host[n]: "dirty" once kubeadm wrote to the host, until a reset
    serving,  \* serving[n]: an API server runs on n
    objs,     \* objs[n]: the objects in the cluster n seeds
    csr,      \* csr[n]: the client certificate n asked its seeder for
    faults,   \* faults so far
    resets    \* resets so far

vars == <<cfg, pc, host, serving, objs, csr, faults, resets>>

-----------------------------------------------------------------------------
(***************************************************************************)
(* The objects bootstrap cares about.  kubeadm creates the first two.      *)
(***************************************************************************)
ApprovalRule == "node-autoapprove-bootstrap"   \* ClusterRoleBinding
ClusterInfo  == "cluster-info"                 \* what a joining node discovers
DeletionMark == "node-autoapprove-bootstrap.deletionTimestamp"

Objects ==
    { ApprovalRule, DeletionMark, ClusterInfo, "kubic-init-config-seeder", "flannel-sa",
      "flannel-cm", "flannel-ds", "flannel-role", "flannel-binding",
      "flannel-psp-binding", "rbac", "crds", "manifests" }

KubeadmInit == {"controlplane", "tokens", "addons"}
KubeadmRuns == KubeadmInit \cup {"join", "tlsbootstrap"}
ApiCalls    == {"upload", "unapprove", "sa", "cm", "ds", "role", "binding",
                "pspbinding", "rbac", "crds"}
Ready       == {"block", "exit"}
Running     == KubeadmRuns \cup ApiCalls \cup
               {"load", "init", "cni", "assets", "manifests", "block"}
Stages      == Running \cup {"off", "exit", "failed"}

IsSeeder(n) == cfg[n].seeder = NoSeeder
SeederOf(n) == cfg[n].seeder

(***************************************************************************)
(* The branches of newCmdBootstrap: the next call, given the flags.        *)
(***************************************************************************)
AtEnd(n)         == IF cfg[n].block THEN "block" ELSE "exit"
AfterCNI(n)      == IF cfg[n].loadAssets THEN "assets" ELSE AtEnd(n)
AfterApproval(n) == IF cfg[n].deployCNI THEN "cni" ELSE AfterCNI(n)
\* Mutant: the test of autoApprove is the wrong way round.
AfterUploadSwapped(n) ==
    IF cfg[n].autoApprove THEN "unapprove" ELSE AfterApproval(n)
AfterUpload(n)   == IF cfg[n].autoApprove THEN AfterApproval(n) ELSE "unapprove"

\* InstallAllAssets makes no call for a kind of asset it finds no file of.
AfterRBAC(n)  == IF "crds" \in cfg[n].files THEN "crds" ELSE "manifests"
FirstAsset(n) == IF "rbac" \in cfg[n].files THEN "rbac" ELSE AfterRBAC(n)

Registry == {"flannel"}

Goto(n, stage) == pc' = [pc EXCEPT ![n] = stage]

Fault == faults < MaxFaults /\ faults' = faults + 1

Init ==
    /\ cfg \in [Nodes -> UNION {NodeConfigs[n] : n \in Nodes}]
    /\ \A n \in Nodes : cfg[n] \in NodeConfigs[n]
    /\ pc = [n \in Nodes |-> "off"]
    /\ host = [n \in Nodes |-> "clean"]
    /\ serving = [n \in Nodes |-> FALSE]
    /\ objs = [n \in Nodes |-> {}]
    /\ csr = [n \in Nodes |-> "none"]
    /\ faults = 0
    /\ resets = 0

-----------------------------------------------------------------------------
(***************************************************************************)
(* The process: started by systemd at boot, restarted on failure, killed   *)
(* at any moment.                                                          *)
(***************************************************************************)
Start(n) ==
    /\ pc[n] = "off"
    /\ Goto(n, "load")
    /\ UNCHANGED <<cfg, host, serving, objs, csr, faults, resets>>

\* Mutant: a unit without Restart=on-failure.
RestartNever(n) ==
    /\ pc[n] = "failed"
    /\ UNCHANGED vars

Restart(n) ==
    /\ pc[n] = "failed"
    /\ Goto(n, "load")
    /\ UNCHANGED <<cfg, host, serving, objs, csr, faults, resets>>

\* The operator runs bootstrap again after a run with --block=false.
Rerun(n) ==
    /\ pc[n] = "exit"
    /\ Goto(n, "load")
    /\ UNCHANGED <<cfg, host, serving, objs, csr, faults, resets>>

Crash(n) ==
    /\ pc[n] \in Running
    /\ Fault
    /\ Goto(n, "failed")
    /\ UNCHANGED <<cfg, host, serving, objs, csr, resets>>

\* Loading the configuration, SetVars and the choice of role.
LoadConfig(n) ==
    /\ pc[n] = "load"
    /\ Goto(n, IF ~cfg[n].valid THEN "failed"
               ELSE IF IsSeeder(n) THEN "init" ELSE "join")
    /\ UNCHANGED <<cfg, host, serving, objs, csr, faults, resets>>

-----------------------------------------------------------------------------
(***************************************************************************)
(* The seeder: kubeadm init.                                               *)
(***************************************************************************)

\* Mutant: every preflight error is ignored.
PreflightIgnored(n) == TRUE

\* kubeadm refuses a host that holds files of an earlier run: none of the
\* FileAvailable, DirAvailable and Port-6443 checks is on the list of
\* preflight errors kubic-init ignores.
Preflight(n) == host[n] = "clean"

\* toInitConfig fails on a token NewBootstrapTokenString cannot parse.
InitConfigOK(n) == cfg[n].token # MalformedToken

NewInit(n) ==
    /\ pc[n] = "init"
    /\ InitConfigOK(n) /\ Preflight(n)
    /\ host' = [host EXCEPT ![n] = "dirty"]
    /\ Goto(n, "controlplane")
    /\ UNCHANGED <<cfg, serving, objs, csr, faults, resets>>

NewInitFails(n) ==
    /\ pc[n] = "init"
    /\ \/ ~(InitConfigOK(n) /\ Preflight(n)) /\ UNCHANGED faults
       \/ Fault
    /\ Goto(n, "failed")
    /\ UNCHANGED <<cfg, host, serving, objs, csr, resets>>

ControlPlaneUp(n) ==
    /\ pc[n] = "controlplane"
    /\ serving' = [serving EXCEPT ![n] = TRUE]
    /\ Goto(n, "tokens")
    /\ UNCHANGED <<cfg, host, objs, csr, faults, resets>>

\* kubeadm's bootstrap-token phase creates the approval rule together with
\* what a joining node needs to find the cluster.
BootstrapTokens(n) ==
    /\ pc[n] = "tokens"
    /\ objs' = [objs EXCEPT ![n] = @ \cup {ApprovalRule, ClusterInfo}]
    /\ Goto(n, "addons")
    /\ UNCHANGED <<cfg, host, serving, csr, faults, resets>>

\* kubeadm installs its addons and returns; ClientSetFromFile then reads the
\* admin.conf kubeadm wrote.
KubeadmInitReturns(n) ==
    /\ pc[n] = "addons"
    /\ Goto(n, "upload")
    /\ UNCHANGED <<cfg, host, serving, objs, csr, faults, resets>>

KubeadmInitFails(n) ==
    /\ pc[n] \in KubeadmInit
    /\ Fault
    /\ Goto(n, "failed")
    /\ UNCHANGED <<cfg, host, serving, objs, csr, resets>>

-----------------------------------------------------------------------------
(***************************************************************************)
(* The seeder: the calls to its own API server.  A call takes effect and   *)
(* the process goes on; or it is refused, or its answer is lost after it   *)
(* took effect, and CheckErr ends the process.                             *)
(***************************************************************************)
\* Mutant: a failed call is not followed by CheckErr.
ApiCallUnchecked(n, stage, after, next) ==
    /\ pc[n] = stage
    /\ \/ serving[n] /\ objs' = [objs EXCEPT ![n] = after] /\ UNCHANGED faults
       \/ serving[n] /\ Fault /\ UNCHANGED objs
       \/ ~serving[n] /\ UNCHANGED <<objs, faults>>
    /\ Goto(n, next)
    /\ UNCHANGED <<cfg, host, serving, csr, resets>>

ApiCall(n, stage, after, next) ==
    /\ pc[n] = stage
    /\ \/ /\ serving[n]
          /\ objs' = [objs EXCEPT ![n] = after]
          /\ Goto(n, next)
          /\ UNCHANGED faults
       \/ /\ serving[n]
          /\ Fault
          /\ \/ objs' = [objs EXCEPT ![n] = after]
             \/ UNCHANGED objs
          /\ Goto(n, "failed")
       \/ /\ ~serving[n]
          /\ Goto(n, "failed")
          /\ UNCHANGED <<objs, faults>>
    /\ UNCHANGED <<cfg, host, serving, csr, resets>>

CreateOrUpdate(n, stage, obj, next) ==
    ApiCall(n, stage, objs[n] \cup {obj}, next)

ToConfigMap(n) ==
    CreateOrUpdate(n, "upload", "kubic-init-config-seeder", AfterUpload(n))

\* Deletion in the foreground: the API server marks the rule and answers; the
\* rule is there, and honoured, until the garbage collector is done.  Deleting a
\* rule that is not there is an error.
RemoveAutoApprovalRBAC(n) ==
    LET found == ApprovalRule \in objs[n]
    IN  ApiCall(n, "unapprove",
                IF found THEN objs[n] \cup {DeletionMark} ELSE objs[n],
                IF found THEN AfterApproval(n) ELSE "failed")

\* The garbage collector of the cluster.
CollectRule(n) ==
    /\ serving[n]
    /\ DeletionMark \in objs[n]
    /\ objs' = [objs EXCEPT ![n] = @ \ {ApprovalRule, DeletionMark}]
    /\ UNCHANGED <<cfg, pc, host, serving, csr, faults, resets>>

\* Registry.Load calls a nil function, and panics, for an unknown driver.
RegistryLoad(n) ==
    /\ pc[n] = "cni"
    /\ Goto(n, IF cfg[n].driver \in Registry THEN "sa" ELSE "failed")
    /\ UNCHANGED <<cfg, host, serving, objs, csr, faults, resets>>

\* Mutant: the DaemonSet is created before the ConfigMap.
CreateFlannelDaemonSetFirst(n) == CreateOrUpdate(n, "cm", "flannel-ds", "ds")

CreateServiceAccount(n)   == CreateOrUpdate(n, "sa", "flannel-sa", "cm")
CreateFlannelConfigMap(n) == CreateOrUpdate(n, "cm", "flannel-cm", "ds")
CreateFlannelDaemonSet(n) == CreateOrUpdate(n, "ds", "flannel-ds", "role")
CreateClusterRole(n)      == CreateOrUpdate(n, "role", "flannel-role", "binding")

CreateClusterRoleBinding(n) ==
    CreateOrUpdate(n, "binding", "flannel-binding",
                   IF cfg[n].psp THEN "pspbinding" ELSE AfterCNI(n))

\* Mutant: the role is created in place of the binding to it.
CreatePSPRole(n) ==
    CreateOrUpdate(n, "pspbinding", "suse:kubic:psp:privileged", AfterCNI(n))

CreatePSPBinding(n) ==
    CreateOrUpdate(n, "pspbinding", "flannel-psp-binding", AfterCNI(n))

\* Mutant: no location but the in-cluster one is tried.
GetConfigInCluster(n) ==
    /\ pc[n] = "assets"
    /\ Goto(n, "failed")
    /\ UNCHANGED <<cfg, host, serving, objs, csr, faults, resets>>

GetConfig(n) ==
    /\ pc[n] = "assets"
    /\ Goto(n, IF cfg[n].kubeconfig THEN FirstAsset(n) ELSE "failed")
    /\ UNCHANGED <<cfg, host, serving, objs, csr, faults, resets>>

InstallRBAC(n) == CreateOrUpdate(n, "rbac", "rbac", AfterRBAC(n))
InstallCRDs(n) == CreateOrUpdate(n, "crds", "crds", "manifests")

\* Best effort: whatever the API server answers, the process goes on.  Only
\* a manifest file that cannot be read is an error.
InstallManifests(n) ==
    /\ pc[n] = "manifests"
    /\ \/ /\ serving[n] /\ "manifests" \in cfg[n].files
          /\ objs' = [objs EXCEPT ![n] = @ \cup {"manifests"}]
          /\ Goto(n, AtEnd(n)) /\ UNCHANGED faults
       \/ UNCHANGED <<objs, faults>> /\ Goto(n, AtEnd(n))
       \/ Fault /\ UNCHANGED objs /\ Goto(n, "failed")
    /\ UNCHANGED <<cfg, host, serving, csr, resets>>

-----------------------------------------------------------------------------
(***************************************************************************)
(* Any other node: kubeadm join.                                           *)
(***************************************************************************)

\* toJoinConfig turns verification off when there is no hash and never sets
\* CACertHashes, so with a hash kubeadm is told to verify against nothing,
\* which it rejects; so it does an absent or malformed token.
JoinConfigOK(n) == ~cfg[n].caHash /\ cfg[n].token \in Tokens

\* Discovery: the seeder answers, publishes cluster-info and knows the token
\* (a seeder without a token makes up one that nobody else knows).
Reachable(n) ==
    LET s == SeederOf(n)
    IN  /\ s \in Nodes
        /\ serving[s]
        /\ ClusterInfo \in objs[s]
        /\ cfg[n].token = cfg[s].token

NewJoin(n) ==
    /\ pc[n] = "join"
    /\ JoinConfigOK(n) /\ Preflight(n) /\ Reachable(n)
    /\ host' = [host EXCEPT ![n] = "dirty"]
    /\ csr' = [csr EXCEPT ![n] = "pending"]
    /\ Goto(n, "tlsbootstrap")
    /\ UNCHANGED <<cfg, serving, objs, faults, resets>>

NewJoinFails(n) ==
    /\ pc[n] = "join"
    /\ \/ ~(JoinConfigOK(n) /\ Preflight(n) /\ Reachable(n)) /\ UNCHANGED faults
       \/ Fault
    /\ Goto(n, "failed")
    /\ UNCHANGED <<cfg, host, serving, objs, csr, resets>>

\* The certificate controller of the seeder's cluster approves a request as
\* long as the approval rule is there; an operator may do so at any time.
Approvable(n) == serving[SeederOf(n)] /\ ApprovalRule \in objs[SeederOf(n)]

AutoApprove(n) ==
    /\ csr[n] = "pending"
    /\ Approvable(n)
    /\ csr' = [csr EXCEPT ![n] = "auto"]
    /\ UNCHANGED <<cfg, pc, host, serving, objs, faults, resets>>

ManualApprove(n) ==
    /\ csr[n] = "pending"
    /\ serving[SeederOf(n)]
    /\ csr' = [csr EXCEPT ![n] = "manual"]
    /\ UNCHANGED <<cfg, pc, host, serving, objs, faults, resets>>

KubeadmJoinReturns(n) ==
    /\ pc[n] = "tlsbootstrap"
    /\ csr[n] \in {"auto", "manual"}
    /\ Goto(n, AtEnd(n))
    /\ UNCHANGED <<cfg, host, serving, objs, csr, faults, resets>>

\* kubeadm gives up waiting for the certificate: because of a fault, because
\* the request is gone with the seeder's cluster, or because nobody approves
\* it in time.  A request that is still there may be approved later.
KubeadmJoinTimeout(n) ==
    /\ pc[n] = "tlsbootstrap"
    /\ \/ Fault
       \/ /\ csr[n] = "none" \/ (csr[n] = "pending" /\ ~Approvable(n))
          /\ UNCHANGED faults
    /\ Goto(n, "failed")
    /\ UNCHANGED <<cfg, host, serving, objs, csr, resets>>

-----------------------------------------------------------------------------
\* The loop bootstrap ends in.
Block(n) ==
    /\ pc[n] = "block"
    /\ UNCHANGED vars

\* "kubic-init reset" in a process of its own, next to whatever the unit's
\* process does, but not under a running kubeadm.  It empties the host, and
\* with it the cluster the host seeds.
NewReset(n) ==
    /\ pc[n] \notin KubeadmRuns
    /\ cfg[n].valid
    /\ resets < MaxResets
    /\ resets' = resets + 1
    /\ host' = [host EXCEPT ![n] = "clean"]
    /\ serving' = [serving EXCEPT ![n] = FALSE]
    /\ objs' = [objs EXCEPT ![n] = {}]
    /\ csr' = [m \in Nodes |-> IF SeederOf(m) = n THEN "none" ELSE csr[m]]
    /\ UNCHANGED <<cfg, pc, faults>>

SeederStep(n) ==
    \/ NewInit(n) \/ NewInitFails(n) \/ ControlPlaneUp(n)
    \/ BootstrapTokens(n) \/ KubeadmInitReturns(n) \/ KubeadmInitFails(n)
    \/ ToConfigMap(n) \/ RemoveAutoApprovalRBAC(n)
    \/ RegistryLoad(n) \/ CreateServiceAccount(n) \/ CreateFlannelConfigMap(n)
    \/ CreateFlannelDaemonSet(n) \/ CreateClusterRole(n)
    \/ CreateClusterRoleBinding(n) \/ CreatePSPBinding(n)
    \/ GetConfig(n) \/ InstallRBAC(n) \/ InstallCRDs(n) \/ InstallManifests(n)

JoinStep(n) ==
    \/ NewJoin(n) \/ NewJoinFails(n)
    \/ KubeadmJoinReturns(n) \/ KubeadmJoinTimeout(n)

Step(n) == LoadConfig(n) \/ SeederStep(n) \/ JoinStep(n)

Next ==
    \E n \in Nodes :
        \/ Start(n) \/ Restart(n) \/ Rerun(n) \/ Crash(n)
        \/ Step(n) \/ Block(n)
        \/ AutoApprove(n) \/ ManualApprove(n)
        \/ CollectRule(n) \/ NewReset(n)

Spec == Init /\ [][Next]_vars

\* systemd starts and restarts the unit, a running process goes on, and the
\* certificate controller and the garbage collector work.  Nothing obliges the
\* operator.
Fairness ==
    \A n \in Nodes : /\ WF_vars(Start(n))
                     /\ WF_vars(Restart(n))
                     /\ WF_vars(Step(n))
                     /\ WF_vars(AutoApprove(n))
                     /\ WF_vars(CollectRule(n))

FairSpec == Spec /\ Fairness

-----------------------------------------------------------------------------
(***************************************************************************)
(* Properties.                                                             *)
(***************************************************************************)

\* Every variable has the type its declaration suggests.
TypeOK ==
    /\ cfg \in [Nodes -> Config]
    /\ pc \in [Nodes -> Stages]
    /\ host \in [Nodes -> {"clean", "dirty"}]
    /\ serving \in [Nodes -> BOOLEAN]
    /\ objs \in [Nodes -> SUBSET Objects]
    /\ csr \in [Nodes -> {"none", "pending", "auto", "manual"}]
    /\ faults \in 0 .. MaxFaults
    /\ resets \in 0 .. MaxResets

FlannelObjects(n) ==
    {"flannel-sa", "flannel-cm", "flannel-ds", "flannel-role", "flannel-binding"}
        \cup (IF cfg[n].psp THEN {"flannel-psp-binding"} ELSE {})

\* What the flags and the configuration of a seeder ask for.
Required(n) ==
    {ClusterInfo, "kubic-init-config-seeder"}
        \cup (IF cfg[n].deployCNI THEN FlannelObjects(n) ELSE {})
        \cup (IF cfg[n].loadAssets THEN cfg[n].files \ {"manifests"} ELSE {})

\* A seeder that says "control plane ready" (or exits without error) and
\* whose cluster is still there has everything its configuration asks for in
\* that cluster, the approval rule included if autoApprove is set; if it is not,
\* the rule is gone or on its way out.  This holds whatever crashes, lost
\* answers, restarts and resets came before.
ReadyMeansComplete ==
    \A n \in Nodes :
        pc[n] \in Ready /\ IsSeeder(n) /\ serving[n] =>
            /\ Required(n) \subseteq objs[n]
            /\ cfg[n].autoApprove <=>
                   ApprovalRule \in objs[n] /\ DeletionMark \notin objs[n]

\* The order of the calls in EnsureFlannelAddon: at no time, failures between
\* two calls included, does the cluster hold a DaemonSet without the service
\* account and the ConfigMap it mounts, or a binding without its subject and
\* (for the role the addon creates itself) its role.
FlannelReferences ==
    \A n \in Nodes :
        /\ "flannel-ds" \in objs[n] => {"flannel-sa", "flannel-cm"} \subseteq objs[n]
        /\ "flannel-binding" \in objs[n] => {"flannel-sa", "flannel-role"} \subseteq objs[n]
        /\ "flannel-psp-binding" \in objs[n] => "flannel-sa" \in objs[n]

\* As long as a cluster is not reset, its approval rule does not come back
\* once the seeder's bootstrap got past creating it: the restarts of a failed
\* or finished bootstrap do not run kubeadm init over a living cluster.
ApprovalRuleNeverReturns ==
    [][\A n \in Nodes :
          /\ serving[n] /\ serving'[n]
          /\ "kubic-init-config-seeder" \in objs[n]
          /\ ApprovalRule \notin objs[n]
          => ApprovalRule \notin objs'[n]]_vars

\* With "autoApprove: false" no node is ever approved automatically
\* (config/kubic-init.yaml, docs/design-bootstrap.md).
ManualApprovalOnly ==
    \A n \in Nodes :
        csr[n] = "auto" => cfg[SeederOf(n)].autoApprove

Quiet == faults = MaxFaults /\ resets = MaxResets

SeederConfigOK(n) ==
    /\ cfg[n].valid /\ IsSeeder(n) /\ InitConfigOK(n)
    /\ cfg[n].deployCNI => cfg[n].driver \in Registry
    /\ cfg[n].loadAssets => cfg[n].kubeconfig

\* A process with a call to come that fails if there is no cluster.
NoticesReset(n) ==
    /\ pc[n] \notin Ready \cup {"manifests"}
    /\ pc[n] = "assets" => FirstAsset(n) # "manifests"

\* Once faults and resets are over, a seeder on a clean host completes its
\* bootstrap: systemd's restarts are enough after failures before kubeadm
\* touched the host, and a reset makes them enough again after later ones.
\* (Not so if the reset came under a process that had no call left that
\* notices: it goes on to "ready" and stays there.)
CleanSeederBecomesReady ==
    \A n \in Nodes :
        /\ Quiet /\ host[n] = "clean" /\ SeederConfigOK(n) /\ NoticesReset(n)
        ~> pc[n] \in Ready /\ serving[n]

\* Likewise a node that can reach its seeder joins it, also when it was
\* started before the seeder and its first attempts failed.
CleanMinionJoins ==
    \A n \in Nodes :
        /\ Quiet /\ host[n] = "clean" /\ cfg[n].valid /\ JoinConfigOK(n)
        /\ pc[n] \notin Ready
        /\ Reachable(n) /\ cfg[SeederOf(n)].autoApprove
        ~> pc[n] \in Ready /\ csr[n] \in {"auto", "manual"}

\* With autoApprove off, automatic approval comes to an end: a seeder that got
\* ready has asked for the deletion of the rule, and once the garbage collector
\* is done the rule is gone.
ApprovalRuleGoes ==
    \A n \in Nodes :
        pc[n] \in Ready /\ IsSeeder(n) /\ ~cfg[n].autoApprove
        ~> ApprovalRule \notin objs[n]

\* The hash of the CA certificate can be used to verify the seeder
\* (config/kubic-init.yaml): a node that is given one still joins.
HashedMinionJoins ==
    \A n \in Nodes :
        /\ Quiet /\ host[n] = "clean" /\ cfg[n].valid
        /\ cfg[n].caHash /\ cfg[n].token \in Tokens
        /\ pc[n] \notin Ready
        /\ Reachable(n) /\ cfg[SeederOf(n)].autoApprove
        ~> pc[n] \in Ready /\ csr[n] \in {"auto", "manual"}
=============================================================================
