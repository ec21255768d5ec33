# kubic-init: specifications, model checking and proofs

`kubic-init` turns a machine into a member of a Kubernetes cluster.  It is a
wrapper around `kubeadm`: on the *seeder* it runs `kubeadm init` and then
installs what a Kubic cluster needs through the API server; on every other node
it runs `kubeadm join`.  A systemd unit starts it at boot and restarts it when
it fails.  This directory holds TLA+ modules that model it, the TLC
configurations that check them, and TLAPS proofs.

    tlc -workers 2 -config MCBootstrap.cfg MCBootstrap     # a run
    tlapm BootstrapProofs.tla                              # the proofs of a module

`PROJECT.json` lists the runs, the source lines each definition models, the
hazards, the findings, the theorems, and for each checked property a mutation of
the model that breaks it.  (The mutated definitions stand next to the
originals, under a comment that begins "Mutant:".  No run uses them.)

## 1. Inventory

| Part | Source | State it keeps | Operations |
|---|---|---|---|
| bootstrap command | `cmd/kubic-init/main.go` | position in the command; everything else is on the host and in the API server | load the configuration, init or join, upload the configuration, remove the approval rule, deploy CNI, load assets, block |
| reset command | `cmd/kubic-init/main.go`, `pkg/kubeadm/reset.go` | - | `kubeadm reset` |
| version command | `cmd/kubic-init/main.go` | - | prints constants |
| systemd unit | `init/kubic-init.systemd.conf` | the process | start at boot, `Restart=on-failure` |
| kubeadm wrapper | `pkg/kubeadm/*.go` | a temporary file, a pipe | build the kubeadm configuration, run kubeadm, log its stderr |
| auto-approval removal | `pkg/cluster/bootstrap.go` | ClusterRoleBinding `node-autoapprove-bootstrap` | delete it |
| CNI registry | `pkg/cni/plugins.go` | name -> function, filled before `main` | Register, Has, Load |
| flannel addon | `pkg/cni/flannel/*.go` | six objects in the API server | create or update each in turn |
| configuration | `pkg/config/config.go`, `defaults.go` | one struct | defaults, file, environment, reformatting of the seeder, `--var`, upload |
| service certificates | `pkg/crypto/service_cert.go` | cached Secret; CSR and Secret in the API server | GetOrRequest, Refresh, Delete, Request |
| shared passwords | `pkg/crypto/password.go` | password in memory; Secret in the API server | Rand, Get, Create, CreateOrUpdate, Delete; the same for sets |
| asset loader | `pkg/loader/*.go` | objects in the API server | RBACs, CRDs (with a wait), manifests (best effort) |
| API client helpers | `pkg/client/utils.go` | objects in the API server | GetConfig, create-or-update, WaitForURL |
| utilities | `pkg/util/*.go` | - | names, base64, templates |
| deployments, build | `deployments/`, `Dockerfile`, `build/` | - | not part of the program |

**How the parts interact.**  The unit runs *bootstrap*, which loads a
*configuration*, gives it to the *kubeadm wrapper*, and then calls, in this
order, the configuration's upload, the *auto-approval removal*, the *CNI
registry* (which calls the *flannel addon*) and the *loader*.  Each call is
followed by `CheckErr`, which ends the process.  All of them act on the API
server of the cluster that `kubeadm init` has just created, which at that time
already serves nodes that join.  Nodes share no memory: they meet in the API
server of the seeder.  *Service certificates* and *shared passwords* are library
code for components that run in the cluster; several processes may use them at
once, and they meet in the API server too.

**What is hard.**

* A failure between any two calls leaves a cluster with a part of its objects,
  and the restarted process begins from the start, over what is there.
* The cluster is open to joining nodes while the seeder still sets it up; in
  particular the rule that approves them exists for a while even if the
  configuration says it should not.  Its deletion is in the foreground: the call
  returns when the API server has marked the rule, and the rule counts until the
  garbage collector has removed it.
* An API call whose answer is lost has taken effect although bootstrap fails.
* Start order: nodes may come up before their seeder and rely on restarts.
* Timeouts: `kubeadm join` gives up on a request that may be approved later, and
  leaves a host on which it refuses to run again.
* Certificate requests use a name derived from the Secret's name, without its
  namespace, and a new key each time, so a repeated or concurrent request finds
  another one's CSR.
* Two processes that find no password each make up one, and both publish theirs.
* Create-or-update is two or three API calls, and another writer may come
  between any two of them.
* The loader reads several directories that override each other, waits for CRDs
  against a timeout, and ignores some errors but not others.
* kubeadm writes to a pipe of limited size that a scanner of limited size reads.
* Four sources write the configuration, through a YAML library that reads only
  some of the struct tags and leaves out what is empty, whole structs included.

**What makes the parts correct.**

* bootstrap: *ready* means complete; nothing that was removed comes back, and
  what is being removed goes;
  objects never refer to objects that are not there; a cluster forms eventually
  on clean hosts.
* configuration: the strongest source wins; the seeder ends up as `host:port`;
  what is uploaded loads to the same configuration; documented keys count.
* service certificates: key and certificate belong together; requests return;
  nothing is left behind; what is returned is a certificate.
* client helpers: create-or-update and delete act like one atomic step, or fail;
  no change by another client is lost, and success is not reported for nothing.
* shared passwords: once the users of a name agree, they stay in agreement.
* loader: roles and CRDs are all there, and served, before any manifest is
  applied; a manifest that fails spoils no other; it comes to an end; and what
  bootstrap assumes of it holds.
* kubeadm wrapper: nothing is left behind, no output is lost, it returns.

## 2. Modules

| Module | Content |
|---|---|
| `Bootstrap` | cluster formation: the unit, the bootstrap and reset commands, the kubeadm wrapper, approval removal and the garbage collector, CNI, loader at the grain of one step per kind of asset |
| `MCBootstrap` | a seeder and a minion with configurations that take every branch |
| `BootstrapProofs` | theorems about `Bootstrap` |
| `AutoCert` | service certificates, for any set of AutoCert objects and Secrets |
| `MCAutoCert` | one AutoCert with its own Secret, two that share a CSR name, and one made from a reference |
| `AutoCertProofs` | theorems about `AutoCert` |
| `KubicConfig` | loading, overriding and uploading the configuration |
| `MCKubicConfig` | files, environments and `--var` lists |
| `KubicConfigProofs` | theorems about `KubicConfig` |
| `ObjectStore` | abstract specification of the client helpers: a call is one atomic step on the objects, or an error |
| `ClientUtils` | the client helpers, call by call, for any set of clients |
| `SharedPasswords` | extends `ClientUtils` with processes that load, make up and publish sets of passwords |
| `MCSharedPasswords` | two clients on one object; three users of two passwords |
| `SharedPasswordsProofs` | theorems about `ClientUtils` and `SharedPasswords` |
| `Loader` | installation of roles, CRDs and manifests, file by file; refines `Bootstrap` |
| `MCLoader` | three paths, two of them the same, with assets that override each other |
| `LoaderProofs` | theorems about `Loader` |
| `KubeadmCmd` | one run of kubeadm: temporary file, child process, pipe, scanner |
| `MCKubeadmCmd` | all outputs of at most six blocks |
| `KubeadmCmdProofs` | theorems about `KubeadmCmd` |

### Bootstrap

`pc[n]` is the call the process of node `n` makes next; `"off"`, `"failed"` and
`"exit"` stand for no process, one that ended with an error, and one that ended
without.  `cfg[n]` is what the process reads of its configuration, flags and
environment; `host[n]` tells whether kubeadm has written to the host;
`serving[n]` and `objs[n]` are the API server on `n` and what is in it; `csr[n]`
is the client certificate request `n` has in its seeder's cluster.

One action is one call.  The functions `AfterUpload`, `AfterApproval`,
`AfterCNI` and `AtEnd` are the `if` statements of `newCmdBootstrap` between the
calls.  `ApiCall` is what all calls to the API server have in common: it
succeeds; it is refused, or its answer is lost, and `CheckErr` ends the process;
or there is no API server.  `RemoveAutoApprovalRBAC` asks for deletion in the
foreground: it leaves the rule with a deletion timestamp (`DeletionMark`), and
some time later the garbage collector (`CollectRule`) removes both; until then
the rule approves.  It also fails if the rule is not there, `RegistryLoad` if the
driver is not registered (the nil function it calls panics), `GetConfig` if no
kubeconfig is found.  `InstallManifests` alone goes on whatever the API server
answers.  RBACs, CRDs and manifests are one step
each, which is skipped if there are no files of that kind (`FirstAsset`,
`AfterRBAC`): the image ships manifests only.

kubeadm is outside the repository, and modelled by what kubic-init relies on:

* its preflight checks refuse a host with the files of an earlier run.  The
  errors kubic-init ignores (`DefaultIgnoredPreflightErrors`) do not include the
  ones about files, directories and ports;
* `kubeadm init` brings up the control plane, then creates the approval rule
  and `cluster-info`, then its addons, and may fail at each of these;
* `kubeadm join` leaves the host clean when its configuration is rejected or
  discovery fails, and dirty once it asked for a certificate;
* `kubeadm reset` empties the host and with it the cluster it seeds.  A reset
  while a kubeadm runs on the same host is left out.

### AutoCert

`pc[r]` is the API call AutoCert `r` makes next.  A key is named by its owner
and a number and a certificate by the key it certifies, so "certificate and key
belong together" is an equality.  A Secret is a namespace and a name, a CSR
(`CSROf`) only a name made of the latter, so requesters for different Secrets
may share a CSR.  An AutoCert made from a reference (`References`) has no names;
if it has to request a certificate, the process panics (`NoNames`).  `fresh[r]`
says that the CSR `r` holds has still the current resourceVersion: without it
the approval update is a conflict. A call that fails ends the method; a process
that dies is replaced by one with an empty cache; a lost answer is the same as a
failure of the next call.  After a failed `Get` the cache is what client-go
returned, an empty Secret.  The poll loop is its last iteration: every other
answer is followed by another poll. Denial of a CSR is left out: nothing in the
repository denies one, and the loop would not end.

### KubicConfig

A behaviour is one load: the file, then the environment, then the reformatting
of the seeder, then one step for each `--var`.  Ten fields stand for all of
them: the whole of `ClusterFormation` and all of `Cni`, whose fields have only json
tags, and fields of the other structs, all with omitempty, with and without a zero
default.  `YamlKey` is the key yaml.v2 uses (the json tags do not count).
`Omitted` is what yaml.v2 leaves out of a document: an empty field with omitempty
in its yaml tag, and every field of a struct with omitempty all of whose fields
are empty.  An address is a record of scheme, host, brackets and port;
`Endpoint` is what `url.Parse`, `Hostname`, `Port` and `Sprintf("%s:%s")` make
of it.  The host names that matter are classes: a plain one, one that begins
with `http`, an IPv6 address, one that `url.Parse` rejects.  `--var` sets only
string fields here; how swalker converts other types is the library's.

### ObjectStore and ClientUtils

`pc[c]` is the API call the helper of client `c` makes next, `request[c]` what
was asked of it, `copy[c]` the specification it read, `fresh[c]` that the object
has not been written since (its resourceVersion is current).  The helpers fall
into five classes by the calls they make: those for Pods and Jobs (`"pod"`) and
for Services (`"service"`) get the object and then create or update it; those
for NetworkPolicies and Secrets and those of kubeadm (`"policy"`) create it and
update it if it exists; `"delete"` is deletion in the foreground, after which
the garbage collector (`Collect`) removes the object; `"remove"` is the plain
deletion of a Secret, for which NotFound is no error.  A specification is two
parts, the one every helper writes and the one that the helper for Services
leaves as it is.  `CallFails` is a call that is refused as well as one whose
answer is lost after it took effect.

In `ObjectStore` a call begins, takes effect in one step, and returns the object
as that step left it; or it fails, before or after its effect.  The effect of a
deletion in the foreground is the mark that the API server sets; that the helper
does not wait for the end of it, as its comment says, is finding 6.  `ClientUtils`
implements it with `store <- object` and no further mapping: `result` is set in
the step that decides the call.

### SharedPasswords

`names[u]` is what `NewSharedPasswordsSet` is given; `stage[u]` and `next[u]`
are the positions of its loop and of the loop of `CreateOrUpdateToSecrets`,
which goes over a map, so in any order.  A password that is made up is named by
its maker, so two processes that make one up never agree by chance.  A password
is stored through the `"policy"` helper, whose steps interleave with everything
else.  The clients that are no users remove Secrets.

### Loader

`todo` holds the assets not yet dealt with and `waiting` the resources not yet
found in discovery; `Stage` follows from them.  The order of assets is that of
the paths (a path that occurs twice counts once, where it first occurs), of the
globs, of the files and of the documents in a file.  Several documents count
only in manifests: of any other file the first one is decoded and the rest is ignored
without an error (`Decoded`).  CRDs are read into a map first: of two with one
name the later one replaces the earlier, and they are created in any order.  The
spec of a CRD is its version, its validation schema (`val`) and the remainder
(`rest`: short names, subresources, columns). `CreateCRD` stands for the
creation or, if it is there, the read and the update with nothing but the
validation schema, as one step: no one else writes CRDs at that time.  `before`
remembers what was in the cluster at the start.  `Establish` is the API server,
which serves the resource of a CRD some time after its creation.  `WaitTimesOut`
ends the wait without a cause (a fault), because the server is gone, or because
a CRD of another version is in the way (`Conflict`).  `WaitForObject` gets an
object without a self link and so only finds out whether the server answers.
Damaged files are faults (roles, CRDs, unreadable manifests) or refusals
(documents in manifests), since the code treats them like failing calls.  An
update without a resourceVersion, as the one of manifests is, is accepted for
built-in kinds and rejected for custom resources.

The scope is stated as assumptions on the constants.  A document holds one asset
(`DocumentAssumption`).  A name stands for kind, namespace and name of an object,
so assets of one name are all roles or bindings, or all CRDs, or all manifests of
one resource (`NamesAssumption`); a manifest that describes a role or a CRD is
left out.  What is in the cluster before does not include objects of the
manifests (`OlderNamesAssumption`): they belong to a CRD or to nobody.  A CRD
that was there before has the kind and the scope of the one in the file, since
the resource waited for is told by name and version.
Directories are finite (`FilesAssumption`).

### KubeadmCmd

Output is counted in blocks of bytes, of which some end a line; `PipeSize` and
`MaxToken` are the pipe's and the scanner's capacity in blocks.  `pc` is the
position in `kubeadmCmd`; each of `TempFile`, `Configer` and `Start` may
fail, and then the deferred `Remove` runs; `Write` may leave a part of the file
out, which the code does not notice.  A scanner whose buffer is full
stops, and `kubeadmCmd` goes on to `Wait`.  kubic-init itself may be killed, and
then no deferred function runs.

## 3. Runs

| Run | Checks | Distinct states |
|---|---|---|
| `bootstrap` | `TypeOK`, `ReadyMeansComplete`, `FlannelReferences`, `ApprovalRuleNeverReturns`, `ApprovalRuleGoes`, `CleanSeederBecomesReady`, `CleanMinionJoins` | 181 000 |
| `bootstrap_approval` | `ManualApprovalOnly` - violated | |
| `bootstrap_hash` | `HashedMinionJoins` - violated | |
| `autocert` | `TypeOK`, `CertMatchesKey`, `NoCSRLeftBehind`, `PollIsAnswered`, `RequestReturns` | 260 000 |
| `autocert_retry` | `StoredPairMatches` - violated | |
| `autocert_cache` | `ReturnsCertificate` - violated | |
| `config` | `TypeOK`, `Precedence`, `SeederIsEndpoint`, `UploadReloads` | 672 000 |
| `config_keys` | `DocumentedKeysCount` - violated | |
| `clients` | `PasswordTypeOK`, `ImplementsStore`, `SettledPasswordStays` | 206 000 |
| `clients_delete` | `DeleteBlocks` - violated | |
| `loader` | `TypeOK`, `AssetsInstalled`, `BestEffort`, `InstallsEventually`, `ImplementsBootstrap` | 168 000 |
| `kubeadm` | `TypeOK`, `NothingLeftBehind`, `OutputPrinted`, `NoDeadlock`, `CommandReturns` | 39 000 |

**bootstrap.**  A seeder in every combination of autoApprove, PSP, CNI, assets
and block, with every set of asset files and every kind of bad configuration,
and a minion.  With a fault and a reset at any point, a seeder that is ready and
whose cluster was not reset has everything in it that its configuration asks
for, and the approval rule is gone or marked for deletion exactly if autoApprove
is off; flannel's objects never dangle; and the rule never returns to a living
cluster.  The argument behind the first and the last is that a restarted
bootstrap never gets past the preflight checks on a dirty host: so a ready seeder
got there in one go.  What holds of the rule when the seeder is ready is no more
than that it is on its way out: nodes may still be approved then.  With fairness
of the garbage collector `ApprovalRuleGoes` says that this comes to an end.

Once the fault and the reset are used up, a seeder on a clean host becomes ready,
and a minion on a clean host that can reach an approving seeder joins.  The
hypothesis "clean host" is essential: after a failure behind the preflight checks
only a reset helps, however often systemd restarts the unit.  The other
hypotheses name what the code does not recover from: a reset that happens when
the process has no call left that would notice (`NoticesReset`), a driver that is
not registered, no kubeconfig.

**autocert.**  `alone` has a Secret and a CSR name of its own and may fail
anywhere but between
the creation and the deletion of its CSR (it is *undisturbed*); `one` and
`other` have Secrets of one name in two namespaces, so one CSR, and may fail
anywhere; `reference` has no names.  The undisturbed one only ever has matching
pairs, leaves no CSR behind, polls for no CSR that is gone or not approved, and
all its calls return.  Both conditions of *undisturbed* are needed, as
`autocert_retry` shows for the second.

**config.**  All combinations of keys in the file, all forms of the seeder
address, `SEEDER` and `TOKEN` unset, empty and set, and all lists of at most two
`--var` arguments, malformed and unknown ones included.  `SeederIsEndpoint` and
`UploadReloads` name the exceptions the code has: a seeder from `--var` is not
reformatted; an address without a host, as `http://`, stays without one; a name
that begins with `http` is taken for a URL and loses its
host; an IPv6 address loses its brackets; an empty value of a field with
omitempty and a default is not uploaded, and loads as the default; and neither
is a `clusterFormation` or `cni` without any value, so that autoApprove `false`
without seeder and token loads as `true`.

**clients.**  Two clients make any two calls each on one object, or three
processes share passwords, one of which may be removed in between; one call
fails.  Every helper acts like one step of `ObjectStore`: the update of a Service
never takes back what another client wrote to the rest of it, because an object
that was read is written back with its resourceVersion.  A password that is
published, and that no process is about to overwrite, stays until its Secret is
removed, whoever loads and publishes it in the meantime.  The hypothesis is what
the code does not give: between the `Get` that finds nothing and the last
publication, the password changes under the processes that published first.
`clients_delete` shows that a deletion in the foreground is not over when the
helper returns.

**loader.**  Two directories, the first given twice, where the second overrides
a role, a CRD, a ConfigMap and a custom resource; all subsets of the CRDs and
manifests; a role and a CRD that are the second document of their file; a CRD
that was there before in the same or another version, with another rest of its
spec; a fault and a reset anywhere, and two refused manifests.  Before the first
manifest the roles and CRDs of the last directory are there and served, the ones
in second documents excepted; a CRD that was there before has the validation
schema of the file and its old rest, whatever the file says.  At the end, so is
what the manifests that were not refused describe; of a custom resource in two
directories the first one counts, of everything else the last.  Without faults
it comes to an end.  `ImplementsBootstrap` justifies the coarse steps of
`Bootstrap`: a stage that fails half way is one that did not happen, and each
stage of the loader is one step there.  Bootstrap has no CRDs from elsewhere, so
one step is excepted: the time-out while a CRD of another version is in the way.

**kubeadm.**  All outputs of up to six blocks through a pipe of two blocks and a
scanner of three.  However kubeadm ends, the temporary file, which holds the
token, is gone when `kubeadmCmd` returns, and the error tells how kubeadm ended;
everything it wrote was printed unless a line was too long; and it returns,
unless there is more output after a line that is too long than the pipe holds:
then kubeadm blocks in its write, and `Wait` waits for it.  `NoDeadlock` is the
safety half of this: the two processes do not wait for each other.

**Bounds.**  No code loops over nodes, and nodes interact only with their
seeder, so one seeder and one minion show every interaction but that of two
minions, which do not meet.  One fault and one reset suffice for a fault, a
recovery by restarts or by the reset, and a reset under a process that goes on;
more repeat this from the same states, since a restart keeps nothing but the
host and the cluster.  (The safety theorems hold for any number.)  With
`AutoCert`, two requests are a request and its repetition, two sharing
requesters are what a shared name needs, and one fault is enough to leave
something behind; requests are counted because keys are.  Two `--var` arguments
are what "the last one wins" needs.  In `clients` two calls each show a call
that meets the traces of another and one that meets it half way; a third process
makes up a third password or removes one.  In `loader` two directories are what
overriding needs, and a third path what removing duplicates does.  In `kubeadm`
six blocks are a line that fills the buffer followed by more than fills the
pipe.

**Fairness.**  `Bootstrap`: weak fairness of `Start` and `Restart` (the unit is
wanted by `multi-user.target` and has `Restart=on-failure`), of the steps of a
process (nothing in it waits for another process except inside kubeadm, which
has timeouts), of the certificate controller and of the garbage collector.  None
for crashes, faults, `Rerun`, resets, or an operator's approval.  `AutoCert`:
weak fairness of the steps of a method once it was called, and of the signing
controller. `Loader`: weak fairness of the steps of the process and of the API
server's `Establish`.  `KubeadmCmd`: weak fairness of the steps of `kubeadmCmd`
and of those of kubeadm that write and exit.  `KubicConfig` and
`SharedPasswords` state no liveness.

**Deadlock** is checked in every run; `Block` is the loop at the end of
bootstrap, and `Finished` and `Terminated` are the end of a process.

## 4. Findings

1. *A window for automatic approval* (`bootstrap_approval`).  With autoApprove
   off, `kubeadm init` still creates the rule and bootstrap deletes it after
   uploading its configuration; a node that joins in between is approved, and so
   is one that joins before the garbage collector has ended the deletion.  If
   bootstrap fails in between, the restart is refused by kubeadm and the rule
   stays until somebody resets the host.
2. *The CA hash is not passed on* (`bootstrap_hash`).  `toJoinConfig` turns
   `UnsafeSkipCAVerification` off if there is a hash, but never sets
   `CACertHashes`; kubeadm rejects that, and the node never joins.
3. *A documented key has no effect* (`config_keys`).  yaml.v2 does not read json
   tags, so the key of AutoApprove is `autoapprove`; `autoApprove: false` in a
   file is ignored and the default `true` stays.
4. *A repeated request pairs a certificate with another key*
   (`autocert_retry`).  Every `Request` has a new key, but uses a CSR that is
   already there under its name.
5. *An empty Secret from the cache* (`autocert_cache`).  After a `Get` that
   failed, the next `GetOrRequest` returns the empty Secret and no error.
6. *Deletion in the foreground does not block* (`clients_delete`).  The comments
   on `DeleteServiceForeground` and `DeleteNetworkPolicyForeground` say that they
   block until everything is deleted; they return when the API server has
   accepted the request, and a helper called next finds the object still there.

Two disagreements need no run.  `CreateCRDs` updates only the validation schema of
a CRD that is there, where its comment speaks of the Spec: `AssetsInstalled` states
what is left as it was.  And a `clusterFormation` without values is not uploaded:
`UploadReloads` names it as an exception.

## 5. Proofs

`BootstrapProofs` proves for all nodes, tokens, configurations and bounds, from
`SeederAssumption` (the empty seeder is no node), `ConfigsAssumption` (the
configurations are configurations) and `BoundsAssumption` (the bounds are
numbers):

| Theorem | Statement |
|---|---|
| `TypeCorrect` | `Spec => []TypeOK` |
| `ReadyIsComplete` | `Spec => []ReadyMeansComplete` |
| `FlannelIsConsistent` | `Spec => []FlannelReferences` |
| `ApprovalRuleStaysRemoved` | `Spec => ApprovalRuleNeverReturns` |

`TypeOK` is inductive by itself, the others are not.  `Invariance` proves
`Spec => []IInv`, where `IInv` is `TypeOK` and for each node:

* `RoleInv`: a process is at a call of the seeder only if its configuration has
  no seeder, at a call of `kubeadm join` only if it has one, and at the removal
  of the approval rule only if autoApprove is off;
* `HostInv`: a clean host has no API server and no objects; while `kubeadm init`
  runs its host is dirty, and its cluster holds exactly what it has created;
* `StageInv`: if the cluster is still there, it has everything in it that the
  calls before the one at hand installed; the approval rule is there and not
  marked for deletion (`RuleStands`) when its removal is due, and after that
  exactly if autoApprove is set.
  `ReadyMeansComplete` is `StageInv` at the last stage;
* `References`: the flannel objects, as `FlannelReferences` has it.

The preflight checks are what a step of `kubeadm init` needs to keep `StageInv`:
they let it run only on a clean host, and there, by `HostInv`, are no objects.
`ApprovalRuleNeverReturns` follows from `IInv` and one step: `BootstrapTokens`, the
only step that adds the rule, happens before the upload.

`AutoCertProofs` proves for all requesters, names, sets of failing calls and
bounds, from `NamesAssumption`, `FaultyAssumption`, `BoundsAssumption` and
`NilAssumption` (nil and the empty Secret are not Secrets, CSRs or keys):

| Theorem | Statement |
|---|---|
| `TypeCorrect` | `Spec => []TypeOK` |
| `PairsBelongTogether` | `Spec => []CertMatchesKey` |
| `NoStaleCSR` | `Spec => []NoCSRLeftBehind` |
| `NeverPollsInVain` | `Spec => []PollIsAnswered` |

`IInv` says of an undisturbed requester that its CSR exists only while it is at
a call between creation and deletion, is for the key in use and does not change
before the approval, that it is there and approved while the requester polls
for it, and that the requester never comes to `GetExistingCSR`
(`OwnCSR`); that the certificate it found is for that key (`OwnCert`); and that
every pair it stores, caches or returns matches (`OwnPair`).  Of every requester
it says that a CSR it holds as fresh exists, and that it stores a certificate
only after it found one (`SharedInv`), which the types of Secrets rest on.

`SharedPasswordsProofs` proves for all clients, names, specifications, programs,
lists of names and numbers of faults:

| Theorem | Statement |
|---|---|
| `TypeCorrect` | `PSpec => []PasswordTypeOK` |
| `Refinement` | `PSpec => ImplementsStore` |
| `SettledStays` | `PSpec => SettledPasswordStays` |

from `SpecsAssumption` (a specification with its main part replaced is a
specification), `ProgramsAssumption`, `LoadsAssumption` and `RandAssumption`
(calls, name lists and passwords made up have their types), `NilAssumption`,
`BoundsAssumption`, and `OwnersAssumption` (only users write the Secrets of
passwords; others remove them).  The invariant `PInv` has two parts.  `CoreInv`
is about the helpers: a client is at an API call only within a helper that makes
it, and has no result before it returns (`CallInv`); a copy whose
resourceVersion is current equals the object (`FreshInv`).  The latter is why an
update that is accepted has the effect `ObjectStore` asks for.  `StoreStep`
shows that every step is a step of `ObjectStore` or leaves it alone, one lemma
for each API call. `UserInv` is about the users: every name that was loaded has
a password (`LoadInv`), a call in progress publishes what the user holds
(`PublishInv`), and the other clients do nothing but remove (`RemoveInv`).  A
write to a settled password is then one with the contents that are there
(`SettledWrite`), and who loads it gets them (`SettledContents`).

`KubeadmCmdProofs` proves for all outputs and sizes, from `OutputsAssumption`
and `SizesAssumption`:

| Theorem | Statement |
|---|---|
| `TypeCorrect` | `Spec => []TypeOK` |
| `ReturnsClean` | `Spec => []NothingLeftBehind` |
| `NothingLost` | `Spec => []OutputPrinted` |
| `NeverDeadlocked` | `Spec => []NoDeadlock` |

The invariant says when kubeadm exists (`ChildInv`), that the buffer of the
scanner holds the unfinished line that was read last (`BufInv`), and that the
lines printed are the line ends read, or, once the scan is over, all lines
unless the buffer got full (`PrintInv`).  It gives `NeverDeadlocked` too: when
`Wait` is called on a kubeadm that runs, the block read last filled the buffer.

`KubicConfigProofs` proves for all files, environments and lists of `--var`
arguments, from `FilesAssumption`, `SeedersAssumption` and `VarListsAssumption`
(what a source sets has the type of the field it is for; a list has a length):

| Theorem | Statement |
|---|---|
| `TypeCorrect` | `Spec => []TypeOK` |
| `StrongestSourceWins` | `Spec => []Precedence` |
| `EndpointIsUsable` | `Spec => []SeederIsEndpoint` |
| `UploadIsFaithful` | `Spec => []UploadReloads` |

The invariant (`SourcesInv`) is precedence among the sources read so far: after
the file, after the environment, after the reformatting, and after each of the
first `next - 1` arguments.  `UploadIsFaithful` rests on two lemmas: no two
fields have the same key, so a field that is written is read back, and one that
is left out, outside the exceptions, has the default (`MarshalUnmarshal`), and
reformatting twice is reformatting once, unless the name begins with `http`
(`ReformatAgain`).

`LoaderProofs` proves for all directories, assets, objects that are there before,
refusals, faults and resets, from the assumptions of section 2 and those on the
types of the constants:

| Theorem | Statement |
|---|---|
| `TypeCorrect` | `Spec => []TypeOK` |
| `AssetsAreInstalled` | `Spec => []AssetsInstalled` |
| `ManifestsAreInstalled` | `Spec => []BestEffort` |
| `OneCRDPerName` | of finitely many files, `readCRDFiles` has exactly one CRD for each name of a CRD |
| `Refinement` | `Spec => ImplementsBootstrap` |

The lemmas about the order come first.  Every directory has a rank, since a set of
numbers has a least one (`LeastNumber`), so `Earlier` is a strict order
(`EarlierOrder`) that is total on the assets of a kind (`EarlierTotal`).  A finite
set of assets has a last one (`LastExists`, because strict inclusion of finite
sets is well-founded).

`IInv` says what `todo` and `waiting` hold (`ProgressInv`), and of each stage that
what is in the cluster is what the assets dealt with so far describe: roles and
manifests were written in order, so the last one written counts (`RBACInv`), or
the first one of a custom resource (`ManifestsInv`); a CRD has the validation of
its file, and what is served is the version it was created with (`CRDInv`); the
rest of its spec is the one it had before, if it was there (`RestInv`).  `CRDInv`
is why `AssetsInstalled` holds of a CRD that was there before in another
version: its resource is never served, so the installation does not get past the
wait.  `ManifestsInv` needs that no manifest found its object there when none was
written: hence `OlderNamesAssumption`.

For the refinement `StageInv` adds that the stages do not overlap: while roles are
left all CRDs are, and while CRDs are left all resources are waited for.  With
`LastExists` a stage with files then never begins at its end.  Each step is mapped
by a lemma: one within a stage is a stutter; the one that ends the roles or the
CRDs is Bootstrap's call for them; `Finish` is `InstallManifests`; a fault is
a failed call or a crash; without a server the call fails there too; and
`Reset` is `NewReset`.  `WaitTimesOut` while there is a `Conflict`, which Bootstrap
does not have, is an alternative in the statement of `ImplementsBootstrap`.

All six invariants and `StageInv` also hold in TLC on the instances
above.

Every safety and action property that a passing run checks is stated by one of
these theorems, and so are both refinements.

**Only model-checked**: the liveness properties `ApprovalRuleGoes`,
`CleanSeederBecomesReady`, `CleanMinionJoins`, `RequestReturns`,
`InstallsEventually` and `CommandReturns` (fairness and ENABLED are out of the
prover's reach); the findings, which are counterexamples.

## 6. Not modelled

* Contents of manifests, templates, names, base64 and log output: data without
  influence on control.
* `GetBindIP` and `GetServiceDNSName`: nothing calls them.
* The generated deep copy; the version command; deployments and build files.
* `CniRegistry.Register`: it runs before `main`, so the registry is a constant.
* Two processes of bootstrap on one host: the unit runs one.
* Passwords that come out equal by chance: the generator is seeded with the
  time of the start of the process.

## 7. Plan

Done: all modules of section 2 with their runs, and the proofs of section 5.
Left, for `Bootstrap`: the safety half of `CleanSeederBecomesReady` and
`CleanMinionJoins`, as those of `CommandReturns` (`NoDeadlock`) and of
`RequestReturns` (`PollIsAnswered`) are theorems already: what the process of a
node that is on its way on a clean host still has to find in the API server is
there, unless a fault or a reset intervenes.
