--------------------------- MODULE BootstrapProofs ---------------------------
(***************************************************************************)
(* Proofs about Bootstrap, for any number of nodes, any configurations and *)
(* any number of faults and resets.                                        *)
(***************************************************************************)
EXTENDS Bootstrap, TLAPS

SeederStages == {"init", "cni", "assets", "manifests"} \cup KubeadmInit \cup ApiCalls

\* After the CNI and asset stages; before them the approval rule is as
\* kubeadm left it.
PastApproval == (SeederStages \ ({"init", "upload", "unapprove"} \cup KubeadmInit))
                    \cup Ready

ConfigUploaded == {ClusterInfo, "kubic-init-config-seeder"}

CNIDone(n) ==
    ConfigUploaded \cup (IF cfg[n].deployCNI THEN FlannelObjects(n) ELSE {})

\* What the cluster of seeder n holds for certain when its process is about
\* to make the call pc[n].
Installed(n) ==
    CASE pc[n] = "upload" -> {ClusterInfo}
      [] pc[n] \in {"unapprove", "cni", "sa"} -> ConfigUploaded
      [] pc[n] = "cm" -> ConfigUploaded \cup {"flannel-sa"}
      [] pc[n] = "ds" -> ConfigUploaded \cup {"flannel-sa", "flannel-cm"}
      [] pc[n] = "role" ->
            ConfigUploaded \cup {"flannel-sa", "flannel-cm", "flannel-ds"}
      [] pc[n] = "binding" ->
            ConfigUploaded \cup {"flannel-sa", "flannel-cm", "flannel-ds",
                                 "flannel-role"}
      [] pc[n] = "pspbinding" ->
            ConfigUploaded \cup {"flannel-sa", "flannel-cm", "flannel-ds",
                                 "flannel-role", "flannel-binding"}
      [] pc[n] \in {"assets", "rbac"} -> CNIDone(n)
      [] pc[n] = "crds" -> CNIDone(n) \cup (cfg[n].files \cap {"rbac"})
      [] pc[n] = "manifests" -> CNIDone(n) \cup (cfg[n].files \ {"manifests"})
      [] pc[n] \in Ready -> Required(n)
      [] OTHER -> {}

\* A process is only ever in the branch of its role.
RoleInv(n) ==
    /\ pc[n] \in SeederStages => IsSeeder(n)
    /\ pc[n] \in {"join", "tlsbootstrap"} => ~IsSeeder(n)
    /\ pc[n] = "unapprove" => ~cfg[n].autoApprove

\* A clean host runs nothing; kubeadm init starts from an empty cluster.
HostInv(n) ==
    /\ host[n] = "clean" => ~serving[n] /\ objs[n] = {}
    /\ pc[n] \in KubeadmInit => host[n] = "dirty"
    /\ pc[n] \in {"controlplane", "tokens"} => objs[n] = {}
    /\ pc[n] = "addons" => objs[n] = {ApprovalRule, ClusterInfo}

\* The approval rule is there, and nobody has asked for its deletion.
RuleStands(n) == ApprovalRule \in objs[n] /\ DeletionMark \notin objs[n]

StageInv(n) ==
    IsSeeder(n) /\ serving[n] =>
        /\ Installed(n) \subseteq objs[n]
        /\ pc[n] \in {"upload", "unapprove"} => RuleStands(n)
        /\ pc[n] \in PastApproval => (cfg[n].autoApprove <=> RuleStands(n))

References(n) ==
    /\ "flannel-ds" \in objs[n] => {"flannel-sa", "flannel-cm"} \subseteq objs[n]
    /\ "flannel-binding" \in objs[n] => {"flannel-sa", "flannel-role"} \subseteq objs[n]
    /\ "flannel-psp-binding" \in objs[n] => "flannel-sa" \in objs[n]

NodeInv(n) == RoleInv(n) /\ HostInv(n) /\ StageInv(n) /\ References(n)

IInv == TypeOK /\ \A n \in Nodes : NodeInv(n)

-----------------------------------------------------------------------------
(***************************************************************************)
(* Types.                                                                  *)
(***************************************************************************)

\* The next call is always one of the process's stages.
LEMMA NextStages ==
    ASSUME NEW n \in Nodes
    PROVE  /\ AtEnd(n) \in Stages /\ AfterCNI(n) \in Stages
           /\ AfterApproval(n) \in Stages /\ AfterUpload(n) \in Stages
           /\ AfterRBAC(n) \in Stages /\ FirstAsset(n) \in Stages
BY DEF AtEnd, AfterCNI, AfterApproval, AfterUpload, AfterRBAC, FirstAsset,
       Stages, Running, KubeadmRuns, KubeadmInit, ApiCalls

\* There are three kinds of asset files.
LEMMA FileKinds ==
    ASSUME TypeOK, NEW n \in Nodes
    PROVE  cfg[n].files \subseteq {"rbac", "crds", "manifests"}
BY DEF TypeOK, Config

\* A call to the API server preserves the types.
LEMMA ApiCallType ==
    ASSUME TypeOK, NEW n \in Nodes, NEW stage, NEW after \in SUBSET Objects,
           NEW next \in Stages, ApiCall(n, stage, after, next)
    PROVE  TypeOK'
<1>1. "failed" \in Stages
  BY DEF Stages
<1> QED
  BY <1>1, BoundsAssumption DEF TypeOK, ApiCall, Goto, Fault

\* So does one that creates an object.
LEMMA CreateType ==
    ASSUME TypeOK, NEW n \in Nodes, NEW stage, NEW obj \in Objects,
           NEW next \in Stages, CreateOrUpdate(n, stage, obj, next)
    PROVE  TypeOK'
<1>1. objs[n] \cup {obj} \in SUBSET Objects
  BY DEF TypeOK
<1> QED
  BY <1>1, ApiCallType DEF CreateOrUpdate

\* Every step of the bootstrap command preserves the types.
LEMMA TypeStep ==
    ASSUME TypeOK, [Next]_vars
    PROVE  TypeOK'
<1> USE BoundsAssumption, NextStages
<1>s. /\ {"load", "init", "join", "failed", "controlplane", "tokens", "addons",
           "upload", "sa", "cm", "ds", "role", "binding", "pspbinding", "rbac",
           "crds", "manifests", "tlsbootstrap"} \subseteq Stages
  BY DEF Stages, Running, KubeadmRuns, KubeadmInit, ApiCalls
<1>o. \A n \in Nodes : objs[n] \in SUBSET Objects
  BY DEF TypeOK
<1>1. CASE UNCHANGED vars
  BY <1>1 DEF TypeOK, vars
<1>2. ASSUME NEW n \in Nodes,
             Start(n) \/ Restart(n) \/ Rerun(n) \/ Crash(n) \/ LoadConfig(n)
      PROVE  TypeOK'
  BY <1>2, <1>s DEF TypeOK, Start, Restart, Rerun, Crash, LoadConfig, Goto, Fault
<1>3. ASSUME NEW n \in Nodes,
             \/ NewInit(n) \/ NewInitFails(n) \/ ControlPlaneUp(n)
             \/ BootstrapTokens(n) \/ KubeadmInitReturns(n) \/ KubeadmInitFails(n)
      PROVE  TypeOK'
  <2>1. CASE NewInit(n) \/ ControlPlaneUp(n) \/ KubeadmInitReturns(n)
    BY <2>1, <1>s DEF TypeOK, NewInit, ControlPlaneUp, KubeadmInitReturns, Goto
  <2>2. CASE NewInitFails(n) \/ KubeadmInitFails(n)
    BY <2>2, <1>s DEF TypeOK, NewInitFails, KubeadmInitFails, Goto, Fault
  <2>3. CASE BootstrapTokens(n)
    <3>1. objs[n] \cup {ApprovalRule, ClusterInfo} \in SUBSET Objects
      BY <1>o DEF Objects
    <3> QED
      BY <2>3, <1>s, <3>1 DEF TypeOK, BootstrapTokens, Goto
  <2> QED
    BY <1>3, <2>1, <2>2, <2>3
<1>4. ASSUME NEW n \in Nodes, RegistryLoad(n) \/ GetConfig(n) \/ InstallManifests(n)
      PROVE  TypeOK'
  <2>1. "manifests" \in Objects
    BY DEF Objects
  <2> QED
    BY <1>4, <1>s, <2>1 DEF TypeOK, RegistryLoad, GetConfig, InstallManifests,
       Goto, Fault
<1>5. ASSUME NEW n \in Nodes,
             \/ ToConfigMap(n) \/ CreateServiceAccount(n)
             \/ CreateFlannelConfigMap(n) \/ CreateFlannelDaemonSet(n)
             \/ CreateClusterRole(n) \/ CreateClusterRoleBinding(n)
             \/ CreatePSPBinding(n) \/ InstallRBAC(n) \/ InstallCRDs(n)
      PROVE  TypeOK'
  <2>1. /\ {"kubic-init-config-seeder", "flannel-sa", "flannel-cm", "flannel-ds",
             "flannel-role", "flannel-binding", "flannel-psp-binding", "rbac",
             "crds"} \subseteq Objects
    BY DEF Objects
  <2>2. CASE ToConfigMap(n)
    BY <2>1, <2>2, CreateType DEF ToConfigMap
  <2>3. CASE CreateServiceAccount(n)
    BY <1>s, <2>1, <2>3, CreateType DEF CreateServiceAccount
  <2>4. CASE CreateFlannelConfigMap(n)
    BY <1>s, <2>1, <2>4, CreateType DEF CreateFlannelConfigMap
  <2>5. CASE CreateFlannelDaemonSet(n)
    BY <1>s, <2>1, <2>5, CreateType DEF CreateFlannelDaemonSet
  <2>6. CASE CreateClusterRole(n)
    BY <1>s, <2>1, <2>6, CreateType DEF CreateClusterRole
  <2>7. CASE CreateClusterRoleBinding(n)
    BY <1>s, <2>1, <2>7, CreateType DEF CreateClusterRoleBinding
  <2>8. CASE CreatePSPBinding(n)
    BY <1>s, <2>1, <2>8, CreateType DEF CreatePSPBinding
  <2>9. CASE InstallRBAC(n)
    BY <1>s, <2>1, <2>9, CreateType DEF InstallRBAC
  <2>10. CASE InstallCRDs(n)
    BY <1>s, <2>1, <2>10, CreateType DEF InstallCRDs
  <2> QED
    BY <1>5, <2>2, <2>3, <2>4, <2>5, <2>6, <2>7, <2>8, <2>9, <2>10
<1>6. ASSUME NEW n \in Nodes, RemoveAutoApprovalRBAC(n)
      PROVE  TypeOK'
  <2>1. objs[n] \in SUBSET Objects /\ objs[n] \cup {DeletionMark} \in SUBSET Objects
    BY <1>o DEF Objects
  <2> QED
    BY <1>6, <1>s, <2>1, ApiCallType DEF RemoveAutoApprovalRBAC
<1>7. ASSUME NEW n \in Nodes, JoinStep(n) \/ AutoApprove(n) \/ ManualApprove(n)
      PROVE  TypeOK'
  <2>1. CASE NewJoin(n) \/ KubeadmJoinReturns(n)
    BY <2>1, <1>s DEF TypeOK, NewJoin, KubeadmJoinReturns, Goto
  <2>2. CASE NewJoinFails(n)
    BY <2>2, <1>s DEF TypeOK, NewJoinFails, Goto, Fault
  <2>3. CASE KubeadmJoinTimeout(n)
    BY <2>3, <1>s DEF TypeOK, KubeadmJoinTimeout, Goto, Fault
  <2>4. CASE AutoApprove(n) \/ ManualApprove(n)
    BY <2>4 DEF TypeOK, AutoApprove, ManualApprove
  <2> QED
    BY <1>7, <2>1, <2>2, <2>3, <2>4 DEF JoinStep
<1>8. ASSUME NEW n \in Nodes, NewReset(n) \/ Block(n) \/ CollectRule(n)
      PROVE  TypeOK'
  <2>1. CASE NewReset(n)
    <3>1. csr' \in [Nodes -> {"none", "pending", "auto", "manual"}]
      BY <2>1 DEF TypeOK, NewReset
    <3>2. objs' \in [Nodes -> SUBSET Objects]
      BY <2>1 DEF TypeOK, NewReset
    <3> QED
      BY <2>1, <3>1, <3>2 DEF TypeOK, NewReset
  <2>2. CASE Block(n)
    BY <2>2 DEF TypeOK, Block, vars
  <2>3. CASE CollectRule(n)
    <3>1. objs[n] \ {ApprovalRule, DeletionMark} \in SUBSET Objects
      BY <1>o
    <3> QED
      BY <2>3, <3>1 DEF TypeOK, CollectRule
  <2> QED
    BY <1>8, <2>1, <2>2, <2>3
<1> QED
  BY <1>1, <1>2, <1>3, <1>4, <1>5, <1>6, <1>7, <1>8 DEF Next, Step, SeederStep

-----------------------------------------------------------------------------
(***************************************************************************)
(* The inductive invariant, one node at a time.                            *)
(***************************************************************************)

\* A step that leaves a node alone preserves its part of the invariant.
LEMMA Frame ==
    ASSUME NEW n \in Nodes, NodeInv(n), cfg' = cfg, pc'[n] = pc[n],
           host'[n] = host[n], serving'[n] = serving[n], objs'[n] = objs[n]
    PROVE  NodeInv(n)'
BY DEF NodeInv, RoleInv, HostInv, StageInv, RuleStands, References, Installed, IsSeeder,
       CNIDone, FlannelObjects, Required

\* A process that fails, starts or begins anew claims nothing.
LEMMA Claimless ==
    ASSUME NEW n \in Nodes, NodeInv(n), cfg' = cfg,
           pc'[n] \in {"failed", "load"},
           host'[n] = host[n], serving'[n] = serving[n], objs'[n] = objs[n]
    PROVE  NodeInv(n)'
BY DEF NodeInv, RoleInv, HostInv, StageInv, References, Installed,
       SeederStages, KubeadmInit, ApiCalls, PastApproval, Ready

\* Creating an object: the answer is lost or refused and the process fails,
\* or it goes on; either way the object's references must be there.
LEMMA CreateStep ==
    ASSUME TypeOK, NEW n \in Nodes, NodeInv(n),
           \/ ToConfigMap(n) \/ CreateServiceAccount(n)
           \/ CreateFlannelConfigMap(n) \/ CreateFlannelDaemonSet(n)
           \/ CreateClusterRole(n) \/ CreateClusterRoleBinding(n)
           \/ CreatePSPBinding(n) \/ InstallRBAC(n) \/ InstallCRDs(n)
    PROVE  NodeInv(n)'
<1> USE DEF CreateOrUpdate, ApiCall, Goto, TypeOK, NodeInv, RoleInv, HostInv,
        StageInv, RuleStands, References, Installed, IsSeeder, SeederStages, PastApproval,
        KubeadmInit, ApiCalls, Ready, ConfigUploaded, CNIDone, FlannelObjects,
        Required, ApprovalRule, DeletionMark, ClusterInfo
<1>1. CASE ToConfigMap(n)
  BY <1>1 DEF ToConfigMap, AfterUpload, AfterApproval, AfterCNI, AtEnd
<1>2. CASE CreateServiceAccount(n)
  BY <1>2 DEF CreateServiceAccount
<1>3. CASE CreateFlannelConfigMap(n)
  BY <1>3 DEF CreateFlannelConfigMap
<1>4. CASE CreateFlannelDaemonSet(n)
  BY <1>4 DEF CreateFlannelDaemonSet
<1>5. CASE CreateClusterRole(n)
  BY <1>5 DEF CreateClusterRole
<1>6. CASE CreateClusterRoleBinding(n)
  BY <1>6 DEF CreateClusterRoleBinding, AfterCNI, AtEnd
<1>7. CASE CreatePSPBinding(n)
  BY <1>7 DEF CreatePSPBinding, AfterCNI, AtEnd
<1>8. CASE InstallRBAC(n)
  BY <1>8, FileKinds DEF InstallRBAC, AfterRBAC
<1>9. CASE InstallCRDs(n)
  BY <1>9, FileKinds DEF InstallCRDs
<1> QED
  BY <1>1, <1>2, <1>3, <1>4, <1>5, <1>6, <1>7, <1>8, <1>9

\* The other steps of the process of node n.
LEMMA ProcessStep ==
    ASSUME TypeOK, NEW n \in Nodes, NodeInv(n),
           \/ Start(n) \/ Restart(n) \/ Rerun(n) \/ Crash(n) \/ LoadConfig(n)
           \/ NewInit(n) \/ NewInitFails(n) \/ ControlPlaneUp(n)
           \/ BootstrapTokens(n) \/ KubeadmInitReturns(n) \/ KubeadmInitFails(n)
           \/ RemoveAutoApprovalRBAC(n) \/ RegistryLoad(n) \/ GetConfig(n)
           \/ InstallManifests(n) \/ JoinStep(n) \/ CollectRule(n) \/ NewReset(n)
    PROVE  NodeInv(n)'
<1> USE DEF Goto, TypeOK
<1>1. CASE \/ Start(n) \/ Restart(n) \/ Rerun(n) \/ Crash(n)
           \/ NewInitFails(n) \/ KubeadmInitFails(n)
           \/ NewJoinFails(n) \/ KubeadmJoinTimeout(n)
  <2>1. /\ cfg' = cfg /\ pc'[n] \in {"failed", "load"}
        /\ host' = host /\ serving' = serving /\ objs' = objs
    BY <1>1 DEF Start, Restart, Rerun, Crash, NewInitFails, KubeadmInitFails,
       NewJoinFails, KubeadmJoinTimeout
  <2> QED
    BY <2>1, Claimless
<1> USE DEF NodeInv, RoleInv, HostInv, StageInv, RuleStands, References, Installed,
        IsSeeder, SeederStages, PastApproval, KubeadmInit, ApiCalls, Ready,
        ConfigUploaded, CNIDone, FlannelObjects, Required, ApprovalRule, DeletionMark,
        ClusterInfo
<1>2. CASE LoadConfig(n)
  BY <1>2 DEF LoadConfig
<1>3. CASE NewInit(n)
  BY <1>3 DEF NewInit, Preflight
<1>4. CASE ControlPlaneUp(n)
  BY <1>4 DEF ControlPlaneUp
<1>5. CASE BootstrapTokens(n)
  BY <1>5 DEF BootstrapTokens
<1>6. CASE KubeadmInitReturns(n)
  BY <1>6 DEF KubeadmInitReturns
<1>7. CASE RemoveAutoApprovalRBAC(n)
  BY <1>7 DEF RemoveAutoApprovalRBAC, ApiCall, AfterApproval, AfterCNI, AtEnd
<1>8. CASE RegistryLoad(n)
  BY <1>8 DEF RegistryLoad
<1>9. CASE GetConfig(n)
  BY <1>9, FileKinds DEF GetConfig, FirstAsset, AfterRBAC
<1>10. CASE InstallManifests(n)
  BY <1>10 DEF InstallManifests, AtEnd
<1>11. CASE NewJoin(n)
  BY <1>11 DEF NewJoin
<1>12. CASE KubeadmJoinReturns(n)
  BY <1>12 DEF KubeadmJoinReturns, AtEnd
<1>13. CASE NewReset(n)
  BY <1>13 DEF NewReset, KubeadmRuns
<1>14. CASE CollectRule(n)
  <2>1. objs'[n] = objs[n] \ {ApprovalRule, DeletionMark}
    BY <1>14 DEF CollectRule
  <2>2. Installed(n) \cap {ApprovalRule, DeletionMark} = {}
    BY FileKinds
  <2> QED
    BY <1>14, <2>1, <2>2 DEF CollectRule
<1> QED
  BY <1>1, <1>2, <1>3, <1>4, <1>5, <1>6, <1>7, <1>8, <1>9, <1>10, <1>11, <1>12,
     <1>13, <1>14 DEF JoinStep

\* The process of one node does not touch the state of another.
LEMMA Locality ==
    ASSUME TypeOK, NEW n \in Nodes, NEW m \in Nodes, m # n,
           \/ Start(n) \/ Restart(n) \/ Rerun(n) \/ Crash(n) \/ Step(n)
           \/ CollectRule(n) \/ NewReset(n)
    PROVE  /\ cfg' = cfg /\ pc'[m] = pc[m] /\ host'[m] = host[m]
           /\ serving'[m] = serving[m] /\ objs'[m] = objs[m]
<1> USE DEF TypeOK, Goto
<1>1. CASE \/ Start(n) \/ Restart(n) \/ Rerun(n) \/ Crash(n) \/ LoadConfig(n)
           \/ CollectRule(n) \/ NewReset(n)
  BY <1>1 DEF Start, Restart, Rerun, Crash, LoadConfig, CollectRule, NewReset
<1>2. CASE SeederStep(n)
  BY <1>2 DEF SeederStep, NewInit, NewInitFails, ControlPlaneUp, BootstrapTokens,
     KubeadmInitReturns, KubeadmInitFails, RemoveAutoApprovalRBAC, RegistryLoad,
     GetConfig, InstallManifests, ToConfigMap, CreateServiceAccount,
     CreateFlannelConfigMap, CreateFlannelDaemonSet, CreateClusterRole,
     CreateClusterRoleBinding, CreatePSPBinding, InstallRBAC, InstallCRDs,
     CreateOrUpdate, ApiCall
<1>3. CASE JoinStep(n)
  BY <1>3 DEF JoinStep, NewJoin, NewJoinFails, KubeadmJoinReturns, KubeadmJoinTimeout
<1> QED
  BY <1>1, <1>2, <1>3 DEF Step

\* Every step preserves the invariant.
LEMMA Inductive ==
    ASSUME IInv, [Next]_vars
    PROVE  IInv'
<1>1. TypeOK'
  BY TypeStep DEF IInv
<1>2. ASSUME NEW m \in Nodes PROVE NodeInv(m)'
  <2>0. TypeOK /\ NodeInv(m)
    BY DEF IInv
  <2>1. CASE UNCHANGED vars
    BY <2>0, <2>1, Frame DEF vars
  <2>2. ASSUME NEW n \in Nodes, AutoApprove(n) \/ ManualApprove(n) \/ Block(n)
        PROVE  NodeInv(m)'
    BY <2>0, <2>2, Frame DEF AutoApprove, ManualApprove, Block, vars
  <2>3. ASSUME NEW n \in Nodes,
               \/ Start(n) \/ Restart(n) \/ Rerun(n) \/ Crash(n) \/ Step(n)
               \/ CollectRule(n) \/ NewReset(n)
        PROVE  NodeInv(m)'
    <3>1. CASE m # n
      BY <2>0, <2>3, <3>1, Locality, Frame
    <3>2. CASE m = n
      BY <2>0, <2>3, <3>2, ProcessStep, CreateStep DEF Step, SeederStep
    <3> QED
      BY <3>1, <3>2
  <2> QED
    BY <2>1, <2>2, <2>3 DEF Next
<1> QED
  BY <1>1, <1>2 DEF IInv

\* The invariant holds before any node was started.
LEMMA Initially ==
    ASSUME Init
    PROVE  IInv
<1>1. cfg \in [Nodes -> Config]
  BY ConfigsAssumption DEF Init
<1>2. TypeOK
  BY <1>1, BoundsAssumption DEF Init, TypeOK, Stages
<1>3. ASSUME NEW n \in Nodes PROVE NodeInv(n)
  BY DEF Init, NodeInv, RoleInv, HostInv, StageInv, References, SeederStages,
     KubeadmInit, ApiCalls
<1> QED
  BY <1>2, <1>3 DEF IInv

-----------------------------------------------------------------------------
(***************************************************************************)
(* The theorems.                                                           *)
(***************************************************************************)

\* The invariant holds in every state, whatever fails, crashes or is reset.
THEOREM Invariance == Spec => []IInv
<1>1. Init => IInv
  BY Initially
<1>2. IInv /\ [Next]_vars => IInv'
  BY Inductive
<1> QED
  BY <1>1, <1>2, PTL DEF Spec

\* The variables keep their types.
THEOREM TypeCorrect == Spec => []TypeOK
<1>1. IInv => TypeOK
  BY DEF IInv
<1> QED
  BY <1>1, Invariance, PTL

\* newCmdBootstrap: a seeder that reports ready has installed everything its
\* configuration asks for, and has had the approval rule marked for deletion if
\* autoApprove is off.
THEOREM ReadyIsComplete == Spec => []ReadyMeansComplete
<1>1. IInv => ReadyMeansComplete
  <2> SUFFICES ASSUME IInv, NEW n \in Nodes,
                      pc[n] \in Ready, IsSeeder(n), serving[n]
               PROVE  /\ Required(n) \subseteq objs[n]
                      /\ cfg[n].autoApprove <=>
                             ApprovalRule \in objs[n] /\ DeletionMark \notin objs[n]
    BY DEF ReadyMeansComplete
  <2>1. StageInv(n)
    BY DEF IInv, NodeInv
  <2>2. Installed(n) = Required(n)
    BY DEF Installed, Ready
  <2>3. pc[n] \in PastApproval
    BY DEF PastApproval
  <2> QED
    BY <2>1, <2>2, <2>3 DEF StageInv, RuleStands
<1> QED
  BY <1>1, Invariance, PTL

\* EnsureFlannelAddon: no object is ever there without what it refers to.
THEOREM FlannelIsConsistent == Spec => []FlannelReferences
<1>1. IInv => FlannelReferences
  BY DEF IInv, NodeInv, References, FlannelReferences
<1> QED
  BY <1>1, Invariance, PTL

\* Only kubeadm's bootstrap-token phase creates the approval rule.
LEMMA OnlyKubeadmCreatesRule ==
    ASSUME TypeOK, [Next]_vars, NEW n \in Nodes,
           ApprovalRule \notin objs[n], ApprovalRule \in objs'[n]
    PROVE  BootstrapTokens(n)
<1> USE DEF TypeOK, ApprovalRule, DeletionMark, ClusterInfo
<1>1. CASE UNCHANGED vars
  BY <1>1 DEF vars
<1>2. ASSUME NEW m \in Nodes, AutoApprove(m) \/ ManualApprove(m) \/ Block(m)
      PROVE  FALSE
  BY <1>2 DEF AutoApprove, ManualApprove, Block, vars
<1>3. ASSUME NEW m \in Nodes, m # n,
             \/ Start(m) \/ Restart(m) \/ Rerun(m) \/ Crash(m) \/ Step(m)
             \/ CollectRule(m) \/ NewReset(m)
      PROVE  FALSE
  BY <1>3, Locality
<1>4. CASE \/ Start(n) \/ Restart(n) \/ Rerun(n) \/ Crash(n) \/ LoadConfig(n)
           \/ CollectRule(n) \/ NewReset(n) \/ JoinStep(n)
  BY <1>4 DEF Start, Restart, Rerun, Crash, LoadConfig, CollectRule, NewReset, JoinStep, NewJoin,
     NewJoinFails, KubeadmJoinReturns, KubeadmJoinTimeout
<1>5. CASE SeederStep(n) /\ ~BootstrapTokens(n)
  BY <1>5 DEF SeederStep, NewInit, NewInitFails, ControlPlaneUp,
     KubeadmInitReturns, KubeadmInitFails, RemoveAutoApprovalRBAC, RegistryLoad,
     GetConfig, InstallManifests, ToConfigMap, CreateServiceAccount,
     CreateFlannelConfigMap, CreateFlannelDaemonSet, CreateClusterRole,
     CreateClusterRoleBinding, CreatePSPBinding, InstallRBAC, InstallCRDs,
     CreateOrUpdate, ApiCall
<1> QED
  BY <1>1, <1>2, <1>3, <1>4, <1>5 DEF Next, Step

\* Restarts do not bring the approval rule of a living cluster back: kubeadm
\* init only runs over an empty cluster.
THEOREM ApprovalRuleStaysRemoved == Spec => ApprovalRuleNeverReturns
<1> DEFINE Kept(n) ==
        /\ serving[n] /\ serving'[n]
        /\ "kubic-init-config-seeder" \in objs[n]
        /\ ApprovalRule \notin objs[n]
        => ApprovalRule \notin objs'[n]
<1>1. IInv /\ [Next]_vars => [\A n \in Nodes : Kept(n)]_vars
  <2> SUFFICES ASSUME IInv, [Next]_vars, NEW n \in Nodes,
                      "kubic-init-config-seeder" \in objs[n],
                      ApprovalRule \notin objs[n], ApprovalRule \in objs'[n]
               PROVE  FALSE
    OBVIOUS
  <2>1. BootstrapTokens(n)
    BY OnlyKubeadmCreatesRule DEF IInv
  <2>2. objs[n] = {}
    BY <2>1 DEF IInv, NodeInv, HostInv, BootstrapTokens
  <2> QED
    BY <2>2
<1> QED
  BY <1>1, Invariance, PTL DEF Spec, ApprovalRuleNeverReturns
=============================================================================
