----------------------------- MODULE MCBootstrap -----------------------------
(***************************************************************************)
(* One seeder and one minion for TLC, with configurations that take every  *)
(* branch of the bootstrap command.                                        *)
(***************************************************************************)
EXTENDS Bootstrap

MCNodes  == {"seeder", "minion"}
MCTokens == {"t1", "t2"}

Default ==
    [ seeder |-> "-", token |-> "t1", autoApprove |-> TRUE, caHash |-> FALSE,
      driver |-> "flannel", psp |-> TRUE, valid |-> TRUE, deployCNI |-> TRUE,
      loadAssets |-> TRUE, files |-> {"rbac", "crds", "manifests"},
      kubeconfig |-> TRUE, block |-> TRUE ]

Joining == [Default EXCEPT !.seeder = "seeder"]

\* Every combination of the switches that tell what to install, both ends of the
\* command, and each way a configuration can be bad.
SeederConfigs ==
    { [Default EXCEPT !.autoApprove = a, !.psp = p, !.deployCNI = d, !.loadAssets = l] :
          a, p, d, l \in BOOLEAN }
    \cup { [Default EXCEPT !.autoApprove = a, !.block = FALSE] : a \in BOOLEAN }
    \cup { [Default EXCEPT !.files = f] : f \in SUBSET Default.files }
    \cup { [Default EXCEPT !.valid = FALSE],
           [Default EXCEPT !.token = MalformedToken],
           [Default EXCEPT !.token = NoToken],
           [Default EXCEPT !.driver = "cilium"],
           [Default EXCEPT !.kubeconfig = FALSE] }

MinionConfigs ==
    { Joining,
      [Joining EXCEPT !.block = FALSE],
      [Joining EXCEPT !.token = "t2"],
      [Joining EXCEPT !.caHash = TRUE] }

MCNodeConfigs ==
    [n \in MCNodes |-> IF n = "seeder" THEN SeederConfigs ELSE MinionConfigs]

\* A seeder with autoApprove off.
ManualNodeConfigs ==
    [n \in MCNodes |->
        IF n = "seeder" THEN {[Default EXCEPT !.autoApprove = FALSE]} ELSE {Joining}]

HashNodeConfigs ==
    [n \in MCNodes |->
        IF n = "seeder" THEN {Default} ELSE {[Joining EXCEPT !.caHash = TRUE]}]
=============================================================================
