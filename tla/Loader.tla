------------------------------- MODULE Loader -------------------------------
(***************************************************************************)
(* InstallAllAssets (pkg/loader), file by file: first the roles and role   *)
(* bindings, then the CRDs and the wait for them, then the manifests.      *)
(*                                                                         *)
(* An asset is one document in one file; of a file with a role, a binding  *)
(* or a CRD only the first document is read.  What remains to be done is   *)
(* the set "todo" of assets and the set "waiting" of CRDs not yet found in *)
(* discovery; the stage follows from them.  The API server may refuse a    *)
(* call or lose its answer, be slow to serve a CRD, and be taken away by   *)
(* "kubic-init reset".                                                     *)
(***************************************************************************)
EXTENDS Naturals, Sequences, FiniteSets

CONSTANTS
    Paths,        \* the default directories and the one of the flag, in order
    Names,        \* names of objects
    Values,       \* contents of objects
    Versions,     \* versions of CRDs
    NoVersion,    \* the version of any other object
    Assets,       \* the assets that may exist
    FileSets,     \* the sets of assets that the files of the directories hold
    OlderCRDs,    \* the CRDs that may be there before, of the same kind and scope
    MaxRefusals,  \* manifests that are refused or cannot be fetched
    MaxFaults,    \* failures that end the process, in a behaviour
    MaxResets,    \* resets in a behaviour
    Nil           \* no object

RBACKinds     == {"role", "binding"}
ManifestKinds == {"yaml", "url"}
Kinds         == RBACKinds \cup {"crd"} \cup ManifestKinds

\* The resource that a CRD makes the API server serve.
Resources == Names \X Versions

\* Of a CRD, val is the validation schema and rest the rest of its spec but for
\* the version, the kind and the scope: short names, subresources and columns.
Objects == [val : Values, rest : Values, version : Versions \cup {NoVersion}]

ASSUME AssetsAssumption ==
    /\ Assets \subseteq [ dir : {Paths[i] : i \in 1 .. Len(Paths)}, kind : Kinds,
                          file : Nat, doc : Nat, name : Names, val : Values,
                          rest : Values, version : Versions \cup {NoVersion},
                          needs : SUBSET Resources ]
    /\ \A a \in Assets : a.kind = "crd" <=> a.version # NoVersion
ASSUME PathsAssumption == Len(Paths) \in Nat
ASSUME VersionAssumption == NoVersion \notin Versions
ASSUME FilesAssumption ==
    FileSets \subseteq SUBSET Assets /\ \A found \in FileSets : IsFiniteSet(found)
ASSUME OlderAssumption == OlderCRDs \subseteq [Names -> Objects \cup {Nil}]
ASSUME BoundsAssumption ==
    MaxRefusals \in Nat /\ MaxFaults \in Nat /\ MaxResets \in Nat
ASSUME NilAssumption == Nil \notin Objects \cup Assets

VARIABLES
    files,    \* the assets read from the directories
    before,   \* the objects that were there before
    pc,       \* "run", "failed" (an error was returned), "done"
    todo,     \* assets that were not yet dealt with
    waiting,  \* resources of CRDs not yet found in discovery
    created,  \* the role or binding that was just written
    refused,  \* manifests that were refused or could not be fetched
    objects,  \* objects[n]: the object of that name in the API server
    served,   \* the custom resources the API server serves
    serving,  \* there is an API server
    faults,   \* faults so far
    resets    \* resets so far

inputs == <<files, before>>
vars   == <<inputs, pc, todo, waiting, created, refused, objects, served, serving,
            faults, resets>>

-----------------------------------------------------------------------------
(***************************************************************************)
(* The order in which assets are dealt with.                               *)
(***************************************************************************)

\* A directory counts where it first occurs (RemoveDuplicates).
Rank(dir) ==
    CHOOSE i \in 1 .. Len(Paths) :
        Paths[i] = dir /\ \A j \in 1 .. i - 1 : Paths[j] # dir

\* In a directory the files of one glob come before those of the other.
GlobRank(kind) == IF kind \in {"binding", "url"} THEN 2 ELSE 1

Key(a) == <<Rank(a.dir), GlobRank(a.kind), a.file, a.doc>>

Earlier(a, b) ==
    \E i \in 1 .. 4 : /\ Key(a)[i] < Key(b)[i]
                      /\ \A j \in 1 .. i - 1 : Key(a)[j] = Key(b)[j]

Of(assets, kinds) == {a \in assets : a.kind \in kinds}

(***************************************************************************)
(* A document holds one asset.  A name stands for the kind, the namespace  *)
(* and the name of an object, so assets of one name are either all roles   *)
(* or bindings, or all CRDs, or all manifests, and those are of one        *)
(* resource; manifests are neither roles nor CRDs that come from files of  *)
(* their own.                                                              *)
(***************************************************************************)
ASSUME DocumentAssumption ==
    \A a, b \in Assets :
        a.dir = b.dir /\ a.kind = b.kind /\ a.file = b.file /\ a.doc = b.doc => a = b
ASSUME NamesAssumption ==
    \A a, b \in Assets :
        a.name = b.name =>
            /\ a.kind \in RBACKinds <=> b.kind \in RBACKinds
            /\ a.kind = "crd" <=> b.kind = "crd"
            /\ a.kind \in ManifestKinds => a.needs = b.needs
ASSUME OlderNamesAssumption ==
    \A older \in OlderCRDs : \A a \in Of(Assets, ManifestKinds) : older[a.name] = Nil

\* yaml.Unmarshal and DecodeInto read one document and ignore what follows it;
\* only manifests are split into their documents.
Decoded(found) == {a \in found : a.kind \in ManifestKinds \/ a.doc = 1}

\* Mutant: the two parts in the wrong order.
ResourceSwapped(a) == <<a.version, a.name>>

Resource(a) == <<a.name, a.version>>

\* Mutant: a CRD that was already read is not replaced.
ReadCRDFilesOnce(found) ==
    {a \in Of(found, {"crd"}) :
        \A b \in Of(found, {"crd"}) : b.name = a.name => ~Earlier(b, a)}

\* readCRDFiles fills a map, so of two CRDs of one name the later one counts.
ReadCRDFiles(found) ==
    {a \in Of(found, {"crd"}) :
        \A b \in Of(found, {"crd"}) : b.name = a.name => ~Earlier(a, b)}

\* Mutant: InstallCRDs returns without waiting.
StageNoWait ==
    IF Of(todo, RBACKinds) # {} THEN "rbac"
    ELSE IF Of(todo, {"crd"}) # {} THEN "crds" ELSE "manifests"

Stage ==
    IF Of(todo, RBACKinds) # {} THEN "rbac"
    ELSE IF Of(todo, {"crd"}) # {} \/ waiting # {} THEN "crds" ELSE "manifests"

At(stage) == pc = "run" /\ Stage = stage

\* a is next in its stage.
IsNext(a, kinds) ==
    a \in Of(todo, kinds) /\ \A b \in Of(todo, kinds) : ~Earlier(b, a)

Fault == faults < MaxFaults /\ faults' = faults + 1

Init ==
    /\ \E found \in FileSets : files = Decoded(found)
    /\ before \in OlderCRDs
    /\ pc = "run"
    /\ todo = (files \ Of(files, {"crd"})) \cup ReadCRDFiles(files)
    /\ waiting = {Resource(a) : a \in ReadCRDFiles(files)}
    /\ created = Nil
    /\ refused = {}
    /\ objects = before
    /\ served = {}
    /\ serving = TRUE
    /\ faults = 0
    /\ resets = 0

-----------------------------------------------------------------------------
(***************************************************************************)
(* Roles, role bindings and CRDs.  Any failure ends the process, whether   *)
(* or not the call took effect; so does a file that cannot be read or      *)
(* decoded.                                                                *)
(***************************************************************************)
\* Mutant: the error of the call is dropped.
ApiCallUnchecked(a, obj, rest) ==
    /\ \/ serving /\ objects' = [objects EXCEPT ![a.name] = obj] /\ UNCHANGED faults
       \/ serving /\ Fault /\ UNCHANGED objects
       \/ ~serving /\ UNCHANGED <<objects, faults>>
    /\ todo' = rest
    /\ UNCHANGED <<inputs, pc, waiting, refused, served, serving, resets>>

ApiCall(a, obj, rest) ==
    /\ \/ /\ serving
          /\ objects' = [objects EXCEPT ![a.name] = obj]
          /\ todo' = rest
          /\ UNCHANGED <<pc, faults>>
       \/ /\ serving
          /\ Fault
          /\ objects' \in {objects, [objects EXCEPT ![a.name] = obj]}
          /\ pc' = "failed"
          /\ UNCHANGED todo
       \/ /\ ~serving
          /\ pc' = "failed"
          /\ UNCHANGED <<objects, todo, faults>>
    /\ UNCHANGED <<inputs, waiting, refused, served, serving, resets>>

ObjectIn(a) == [val |-> a.val, rest |-> a.rest, version |-> a.version]

InstallRBAC(a) ==
    /\ At("rbac")
    /\ created = Nil
    /\ IsNext(a, RBACKinds)
    /\ ApiCall(a, ObjectIn(a), todo)
    /\ created' = a

\* WaitForObject asks for the self link of the object read from the file,
\* which is empty: it finds out no more than that the API server answers.
WaitForObject(a) ==
    /\ At("rbac")
    /\ created = a
    /\ \/ serving /\ todo' = todo \ {a} /\ UNCHANGED <<pc, faults>>
       \/ serving /\ Fault /\ pc' = "failed" /\ UNCHANGED todo
       \/ ~serving /\ pc' = "failed" /\ UNCHANGED <<todo, faults>>
    /\ created' = Nil
    /\ UNCHANGED <<inputs, waiting, refused, objects, served, serving, resets>>

\* Mutant: a CRD that is there already is an error.
CreateCRDOnce(a) ==
    /\ At("crds")
    /\ a \in Of(todo, {"crd"})
    /\ objects[a.name] = Nil => ApiCall(a, ObjectIn(a), todo \ {a})
    /\ objects[a.name] # Nil => /\ pc' = "failed"
                                /\ UNCHANGED <<inputs, todo, waiting, refused, objects>>
                                /\ UNCHANGED <<served, serving, faults, resets>>
    /\ UNCHANGED created

\* CRDs come in the order of a map.  Of one that is there already nothing but
\* the validation schema is updated, although the comment in the code speaks of
\* the whole spec.
CreateCRD(a) ==
    /\ At("crds")
    /\ a \in Of(todo, {"crd"})
    /\ ApiCall(a, IF objects[a.name] = Nil THEN ObjectIn(a)
                  ELSE [objects[a.name] EXCEPT !.val = a.val], todo \ {a})
    /\ UNCHANGED created

\* The wait begins when every CRD is created.
WaitsForCRDs == At("crds") /\ Of(todo, {"crd"}) = {}

\* A poll finds a resource in discovery.
Poll(r) ==
    /\ WaitsForCRDs
    /\ serving
    /\ r \in waiting \cap served
    /\ waiting' = waiting \ {r}
    /\ UNCHANGED <<inputs, pc, todo, created, refused, objects, served, serving, faults, resets>>

\* A CRD was there before in another version: its new version is not served.
Conflict == \E r \in waiting : objects[r[1]] # Nil /\ objects[r[1]].version # r[2]

\* The ten seconds are over.
WaitTimesOut ==
    /\ WaitsForCRDs
    /\ Fault \/ ((~serving \/ Conflict) /\ UNCHANGED faults)
    /\ pc' = "failed"
    /\ UNCHANGED <<inputs, todo, waiting, created, refused, objects, served, serving, resets>>

\* The API server gets to serve the resource of a CRD.
Establish(n) ==
    LET r == <<n, objects[n].version>>
    IN  /\ serving
        /\ objects[n] # Nil
        /\ objects[n].version # NoVersion
        /\ r \notin served
        /\ served' = served \cup {r}
        /\ UNCHANGED <<inputs, pc, todo, waiting, created, refused, objects, serving, faults, resets>>

-----------------------------------------------------------------------------
(***************************************************************************)
(* Manifests, on a best-effort basis: only a file that cannot be read      *)
(* ends the process.                                                       *)
(***************************************************************************)

\* The kind of a manifest must be found in discovery.  The update of what is
\* there has no resourceVersion, which custom resources need.
Acceptable(a) ==
    /\ serving
    /\ a.needs \subseteq served
    /\ objects[a.name] = Nil \/ a.needs = {}

ApplyManifest(a) ==
    /\ At("manifests")
    /\ IsNext(a, ManifestKinds)
    /\ Acceptable(a)
    /\ objects' = [objects EXCEPT ![a.name] = ObjectIn(a)]
    /\ todo' = todo \ {a}
    /\ UNCHANGED <<inputs, pc, waiting, created, refused, served, serving, faults, resets>>

\* Errors are logged and ignored.
SkipManifest(a) ==
    /\ At("manifests")
    /\ IsNext(a, ManifestKinds)
    /\ ~Acceptable(a)
    /\ todo' = todo \ {a}
    /\ UNCHANGED <<inputs, pc, waiting, created, refused, objects, served, serving, faults, resets>>

SameFile(a, b) == a.dir = b.dir /\ a.kind = b.kind /\ a.file = b.file

Skip(lost) ==
    /\ Cardinality(refused) < MaxRefusals
    /\ todo' = todo \ lost
    /\ refused' = refused \cup lost
    /\ UNCHANGED <<inputs, pc, waiting, created, objects, served, serving, faults, resets>>

\* A damaged document, a call that is refused ...
Refused(a) ==
    /\ At("manifests")
    /\ IsNext(a, ManifestKinds)
    /\ Skip({a})

\* ... or an URL from which nothing is got.
FetchFails(a) ==
    /\ At("manifests")
    /\ IsNext(a, {"url"}) /\ IsNext(a, ManifestKinds)
    /\ {b \in files : SameFile(a, b)} \subseteq todo
    /\ Skip({b \in files : SameFile(a, b)})

\* The files of a directory that match a glob are all read before the first of
\* them is used.
LoadFilesFails(a) ==
    /\ At("manifests")
    /\ IsNext(a, ManifestKinds)
    /\ {b \in files : b.dir = a.dir /\ b.kind = a.kind} \subseteq todo
    /\ Fault
    /\ pc' = "failed"
    /\ UNCHANGED <<inputs, todo, waiting, created, refused, objects, served, serving, resets>>

Finish ==
    /\ At("manifests")
    /\ todo = {}
    /\ pc' = "done"
    /\ UNCHANGED <<inputs, todo, waiting, created, refused, objects, served, serving, faults, resets>>

-----------------------------------------------------------------------------
Crash ==
    /\ pc = "run"
    /\ Fault
    /\ pc' = "failed"
    /\ UNCHANGED <<inputs, todo, waiting, created, refused, objects, served, serving, resets>>

\* "kubic-init reset" on the same host: the cluster is gone.
Reset ==
    /\ serving
    /\ resets < MaxResets
    /\ resets' = resets + 1
    /\ objects' = [n \in Names |-> Nil]
    /\ served' = {}
    /\ serving' = FALSE
    /\ UNCHANGED <<inputs, pc, todo, waiting, created, refused, faults>>

Terminated == pc # "run" /\ UNCHANGED vars

Step ==
    \/ \E a \in Assets :
          \/ InstallRBAC(a) \/ WaitForObject(a) \/ CreateCRD(a)
          \/ ApplyManifest(a) \/ SkipManifest(a) \/ Refused(a) \/ FetchFails(a)
          \/ LoadFilesFails(a)
    \/ \E r \in Resources : Poll(r)
    \/ WaitTimesOut
    \/ Finish

Next ==
    \/ Step \/ Crash \/ Reset \/ Terminated
    \/ \E n \in Names : Establish(n)

Spec == Init /\ [][Next]_vars

\* The process goes on, and the API server serves every CRD in time.
Fairness == WF_vars(Step) /\ \A n \in Names : WF_vars(Establish(n))

FairSpec == Spec /\ Fairness

-----------------------------------------------------------------------------
(***************************************************************************)
(* Properties.                                                             *)
(***************************************************************************)

\* Every variable has the type its declaration suggests.
TypeOK ==
    /\ files \subseteq Assets
    /\ before \in [Names -> Objects \cup {Nil}]
    /\ pc \in {"run", "failed", "done"}
    /\ todo \subseteq files
    /\ waiting \subseteq Resources
    /\ created \in todo \cup {Nil}
    /\ refused \subseteq files
    /\ objects \in [Names -> Objects \cup {Nil}]
    /\ served \subseteq Resources
    /\ serving \in BOOLEAN
    /\ faults \in 0 .. MaxFaults
    /\ resets \in 0 .. MaxResets

\* a is the last of its kinds and name in the order of the directories.
IsLast(a, among) == \A b \in among : b.name = a.name => ~Earlier(a, b)

\* The rest of the spec of a CRD is that of the file only if it is a new CRD.
RestOf(a) ==
    IF a.kind = "crd" /\ before[a.name] # Nil THEN before[a.name].rest ELSE a.rest

\* From the first manifest on, and in particular when InstallAllAssets returns
\* without error, the roles, bindings and CRDs of the last directory that has
\* them are in the cluster, and the CRDs are served in the version of the file:
\* also if a CRD of another version was there before.  A CRD that was there
\* before has the validation schema of the file and keeps the rest of its spec.
AssetsInstalled ==
    (At("manifests") \/ pc = "done") /\ serving =>
        \A kinds \in {RBACKinds, {"crd"}} :
            \A a \in Of(files, kinds) :
                IsLast(a, Of(files, kinds)) =>
                    /\ objects[a.name] = [ObjectIn(a) EXCEPT !.rest = RestOf(a)]
                    /\ a.kind = "crd" => Resource(a) \in served

\* The manifest that decides on the contents of the object of its name: the
\* last one, but of a custom resource, which is never updated, the first one.
Decides(a, among) ==
    \A b \in among : b.name = a.name =>
        IF a.needs = {} THEN ~Earlier(a, b) ELSE ~Earlier(b, a)

\* Best effort: at the end the cluster has everything from the manifests that
\* were not refused themselves, whatever happened to the others.  Custom
\* resources of the CRDs just installed are no exception, since their CRDs were
\* waited for.
BestEffort ==
    pc = "done" /\ serving =>
        LET usable == {a \in Of(files, ManifestKinds) \ refused :
                          a.needs \subseteq {Resource(b) : b \in ReadCRDFiles(files)}}
        IN  \A a \in usable : Decides(a, usable) => objects[a.name] = ObjectIn(a)

\* Unless a failure ends the process, the cluster is reset or a CRD of another
\* version is in the way, everything is installed sooner or later: CRDs that are
\* there already do not stop it, nor do manifests that are refused, and the wait
\* for the CRDs ends.
InstallsEventually ==
    pc = "run" /\ serving /\ ~Conflict ~> pc = "done" \/ faults > 0 \/ ~serving

(***************************************************************************)
(* Bootstrap has one step for each kind of assets: the one that ends it.   *)
(***************************************************************************)
AssetKinds == {"rbac", "crds", "manifests"}

KindsOf(k) ==
    IF k = "rbac" THEN RBACKinds ELSE IF k = "crds" THEN {"crd"} ELSE ManifestKinds

KindsFound == {k \in AssetKinds : Of(files, KindsOf(k)) # {}}

KindsDone ==
    {k \in KindsFound : \/ k = "rbac" /\ Stage # "rbac"
                        \/ k = "crds" /\ Stage = "manifests"
                        \/ k = "manifests" /\ pc = "done"}

SeederConfig(found) ==
    [ seeder |-> "-", token |-> "no token", autoApprove |-> TRUE, caHash |-> FALSE,
      driver |-> "flannel", psp |-> TRUE, valid |-> TRUE, deployCNI |-> FALSE,
      loadAssets |-> TRUE, files |-> found, kubeconfig |-> TRUE, block |-> TRUE ]

BeforeAssets == {"node-autoapprove-bootstrap", "cluster-info", "kubic-init-config-seeder"}

OnSeeder(value) == [n \in {"seeder"} |-> value]

SeederPc == IF pc = "run" THEN Stage ELSE IF pc = "done" THEN "block" ELSE "failed"

SeederObjs == IF serving THEN BeforeAssets \cup KindsDone ELSE {}

SeederHost == IF serving THEN "dirty" ELSE "clean"

B == INSTANCE Bootstrap WITH
        Nodes <- {"seeder"}, NoSeeder <- "-", Tokens <- {},
        NodeConfigs <- OnSeeder({SeederConfig(found) : found \in SUBSET AssetKinds}),
        cfg <- OnSeeder(SeederConfig(KindsFound)),
        pc <- OnSeeder(SeederPc),
        host <- OnSeeder(SeederHost),
        serving <- OnSeeder(serving),
        objs <- OnSeeder(SeederObjs),
        csr <- OnSeeder("none")

\* Whatever the loader does is, seen from bootstrap, one of the three steps of
\* Bootstrap or nothing: a stage that fails half way has not happened, and a
\* reset in the middle is noticed unless only manifests are left.  (Bootstrap
\* knows no CRDs from elsewhere, so the time-out they lead to is excepted.)
ImplementsBootstrap == [][(WaitTimesOut /\ Conflict) \/ B!Next]_(B!vars)
=============================================================================
