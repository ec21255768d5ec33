---------------------------- MODULE LoaderProofs ----------------------------
(***************************************************************************)
(* Proofs about Loader, for any directories, assets and older CRDs and any *)
(* numbers of faults, refusals and resets.                                 *)
(***************************************************************************)
EXTENDS Loader, FiniteSetTheorems, WellFoundedInduction, TLAPS

USE DEF inputs

\* What todo and waiting hold at which time.
ProgressInv ==
    /\ created # Nil => created.kind \in RBACKinds
    /\ Of(todo, {"crd"}) \subseteq ReadCRDFiles(files)
    /\ refused \cap todo = {}
    /\ pc = "done" => todo = {} /\ waiting = {}

\* The roles and bindings that were written.  The one that is waited for is
\* still to be done.
WrittenRBAC == Of(files, RBACKinds) \ (todo \ {created})

\* They are written in the order of the files, so each object is that of the
\* last one written.
RBACInv ==
    pc # "failed" =>
        /\ \A a \in WrittenRBAC : \A b \in Of(todo, RBACKinds) \ {created} : ~Earlier(b, a)
        /\ serving =>
               \A a \in WrittenRBAC : IsLast(a, WrittenRBAC) => objects[a.name] = ObjectIn(a)

CRDNames == {a.name : a \in Of(Assets, {"crd"})}

\* A CRD that was created or updated has the validation of its file.  What is
\* served is the version the CRD has had from the beginning, and the wait ends
\* for no CRD that is not served.
CRDInv ==
    serving =>
        /\ \A a \in ReadCRDFiles(files) \ todo :
               objects[a.name] # Nil /\ objects[a.name].val = a.val
        /\ \A a \in ReadCRDFiles(files) : Resource(a) \in waiting \cup served
        /\ \A r \in served :
               r[1] \in CRDNames => objects[r[1]] # Nil /\ objects[r[1]].version = r[2]

\* The rest of the spec of a CRD is that of the object that was there before, or
\* else that of the file.
RestInv ==
    serving =>
        \A a \in ReadCRDFiles(files) :
            /\ objects[a.name] = Nil => before[a.name] = Nil
            /\ objects[a.name] # Nil => objects[a.name].rest = RestOf(a)

\* The manifests that were dealt with and not refused.
TriedManifests == Of(files, ManifestKinds) \ (todo \cup refused)

Usable(a) == a.needs \subseteq {Resource(b) : b \in ReadCRDFiles(files)}

\* Manifests are tried in the order of the files.  What a custom resource looks
\* like is decided by the first one, of anything else by the last one, and there
\* is no object of a manifest that none of them has written.
ManifestsInv ==
    /\ \A a \in TriedManifests : \A b \in Of(todo, ManifestKinds) : ~Earlier(b, a)
    /\ serving =>
           /\ \A a \in TriedManifests :
                  Usable(a) /\ Decides(a, TriedManifests) => objects[a.name] = ObjectIn(a)
           /\ \A a \in Of(Assets, ManifestKinds) :
                  objects[a.name] # Nil => \E b \in TriedManifests : b.name = a.name

IInv == TypeOK /\ ProgressInv /\ RBACInv /\ CRDInv /\ RestInv /\ ManifestsInv

-----------------------------------------------------------------------------
(***************************************************************************)
(* The order of the assets.                                                *)
(***************************************************************************)

\* A nonempty set of numbers has a least one.
LEMMA LeastNumber ==
    ASSUME NEW S \in SUBSET Nat, S # {}
    PROVE  \E i \in S : \A j \in S : i <= j
<1> DEFINE Less == {ss \in Nat \X Nat : ss[1] < ss[2]}
<1>1. IsWellFoundedOn(Less, Nat)
  BY NatLessThanWellFounded DEF OpToRel
<1>2. PICK i \in S : \A j \in S : <<j, i>> \notin Less
  <2> HIDE DEF Less
  <2> QED
    BY <1>1, WFMin
<1>3. \A j \in S : ~(j < i)
  BY <1>2
<1> QED
  BY <1>3

\* Every directory of Paths has a rank, the place where it first occurs, and no
\* two have the same.
LEMMA RankType ==
    ASSUME NEW a \in Assets
    PROVE  Rank(a.dir) \in 1 .. Len(Paths) /\ Paths[Rank(a.dir)] = a.dir
<1> DEFINE Places == {i \in 1 .. Len(Paths) : Paths[i] = a.dir}
<1>1. PICK i \in 1 .. Len(Paths) : a.dir = Paths[i]
  BY AssetsAssumption
<1>2. Places \in SUBSET Nat /\ Places # {}
  BY <1>1, PathsAssumption
<1>3. PICK least \in Places : \A j \in Places : least <= j
  <2> HIDE DEF Places
  <2> QED
    BY <1>2, LeastNumber
<1>4. /\ least \in 1 .. Len(Paths) /\ Paths[least] = a.dir
      /\ \A j \in 1 .. least - 1 : Paths[j] # a.dir
  BY <1>3, PathsAssumption
<1> QED
  BY <1>4 DEF Rank

\* Two assets of one group (roles and bindings, CRDs, or manifests) come one
\* before the other.
LEMMA EarlierTotal ==
    ASSUME NEW kinds \in {RBACKinds, {"crd"}, ManifestKinds},
           NEW a \in Of(Assets, kinds), NEW b \in Of(Assets, kinds), a # b
    PROVE  Earlier(a, b) \/ Earlier(b, a)
<1>1. /\ Rank(a.dir) \in Nat /\ Rank(b.dir) \in Nat
      /\ Rank(a.dir) = Rank(b.dir) => a.dir = b.dir
  BY RankType, PathsAssumption DEF Of
<1>2. a.file \in Nat /\ b.file \in Nat /\ a.doc \in Nat /\ b.doc \in Nat
  BY AssetsAssumption DEF Of
<1>3. /\ GlobRank(a.kind) \in Nat /\ GlobRank(b.kind) \in Nat
      /\ GlobRank(a.kind) = GlobRank(b.kind) => a.kind = b.kind
  BY DEF GlobRank, Of, RBACKinds, ManifestKinds
<1>4. \/ Rank(a.dir) # Rank(b.dir) \/ GlobRank(a.kind) # GlobRank(b.kind)
      \/ a.file # b.file \/ a.doc # b.doc
  BY <1>1, <1>3, DocumentAssumption DEF Of
<1>5. /\ Key(a)[1] = Rank(a.dir) /\ Key(a)[2] = GlobRank(a.kind)
      /\ Key(a)[3] = a.file /\ Key(a)[4] = a.doc
      /\ Key(b)[1] = Rank(b.dir) /\ Key(b)[2] = GlobRank(b.kind)
      /\ Key(b)[3] = b.file /\ Key(b)[4] = b.doc
  BY DEF Key
<1>6. ASSUME NEW i \in 1 .. 4, Key(a)[i] # Key(b)[i], Key(a)[i] \in Nat, Key(b)[i] \in Nat,
             \A j \in 1 .. i - 1 : Key(a)[j] = Key(b)[j]
      PROVE  Earlier(a, b) \/ Earlier(b, a)
  BY <1>6 DEF Earlier
<1>7. \E i \in 1 .. 4 : Key(a)[i] # Key(b)[i] /\ \A j \in 1 .. i - 1 : Key(a)[j] = Key(b)[j]
  BY <1>4, <1>5
<1>8. \A i \in 1 .. 4 : Key(a)[i] \in Nat /\ Key(b)[i] \in Nat
  BY <1>1, <1>2, <1>3, <1>5
<1> QED
  BY <1>6, <1>7, <1>8

\* No two CRDs of readCRDFiles have one name.
LEMMA ReadCRDFilesUnique ==
    ASSUME NEW found \in SUBSET Assets, NEW a \in ReadCRDFiles(found),
           NEW b \in ReadCRDFiles(found), a.name = b.name
    PROVE  a = b
<1>1. a \in Of(Assets, {"crd"}) /\ b \in Of(Assets, {"crd"})
  BY DEF ReadCRDFiles, Of
<1>2. ~Earlier(a, b) /\ ~Earlier(b, a)
  BY DEF ReadCRDFiles
<1> QED
  BY <1>1, <1>2, EarlierTotal

-----------------------------------------------------------------------------
(***************************************************************************)
(* Initially.                                                              *)
(***************************************************************************)

\* The invariant holds initially.
LEMMA InitInv ==
    ASSUME Init
    PROVE  IInv
<1> USE DEF Init
<1>1. TypeOK
  <2>1. files \subseteq Assets /\ todo \subseteq files
    BY FilesAssumption DEF Decoded, ReadCRDFiles, Of
  <2>2. waiting \subseteq Resources
    <3>1. \A a \in ReadCRDFiles(files) : a.name \in Names /\ a.version \in Versions
      BY <2>1, AssetsAssumption DEF ReadCRDFiles, Of
    <3> QED
      BY <3>1 DEF Resources, Resource
  <2> QED
    BY <2>1, <2>2, OlderAssumption, BoundsAssumption DEF TypeOK
<1>2. ProgressInv
  BY DEF ProgressInv, Of
<1>3. WrittenRBAC = {}
  <2>1. Nil \notin files
    BY <1>1, NilAssumption DEF TypeOK
  <2> QED
    BY <2>1 DEF WrittenRBAC, Of, RBACKinds
<1>4. TriedManifests = {}
  BY DEF TriedManifests, Of, ManifestKinds
<1>5. RBACInv
  BY <1>3 DEF RBACInv
<1>6. CRDInv
  BY DEF CRDInv, Of
<1>7. ManifestsInv
  BY <1>4, OlderNamesAssumption DEF ManifestsInv
<1>8. RestInv
  BY DEF RestInv, RestOf, ReadCRDFiles, Of
<1> QED
  BY <1>1, <1>2, <1>5, <1>6, <1>7, <1>8 DEF IInv

-----------------------------------------------------------------------------
(***************************************************************************)
(* Every step preserves the types and what is known of todo and waiting.   *)
(***************************************************************************)

\* An asset is written as an object.
LEMMA ObjectInType ==
    ASSUME NEW a \in Assets
    PROVE  /\ ObjectIn(a) \in Objects /\ ObjectIn(a) # Nil
           /\ ObjectIn(a).val = a.val /\ ObjectIn(a).version = a.version
           /\ ObjectIn(a).rest = a.rest
           /\ a.name \in Names
<1>1. /\ a.val \in Values /\ a.rest \in Values /\ a.version \in Versions \cup {NoVersion}
      /\ a.name \in Names
  BY AssetsAssumption
<1>2. ObjectIn(a) \in Objects
  BY <1>1 DEF ObjectIn, Objects
<1> QED
  BY <1>1, <1>2, NilAssumption DEF ObjectIn

\* What CreateCRD writes has the validation of the file, and the version of the
\* file unless there was another before.
CRDObject(a) ==
    IF objects[a.name] = Nil THEN ObjectIn(a)
    ELSE [objects[a.name] EXCEPT !.val = a.val]

\* The object that CreateCRD writes is one.
LEMMA CRDObjectType ==
    ASSUME TypeOK, NEW a \in Assets
    PROVE  /\ CRDObject(a) \in Objects /\ CRDObject(a) # Nil
           /\ CRDObject(a).val = a.val
           /\ objects[a.name] # Nil => /\ CRDObject(a).version = objects[a.name].version
                                       /\ CRDObject(a).rest = objects[a.name].rest
           /\ objects[a.name] = Nil => CRDObject(a).rest = a.rest
<1>1. CASE objects[a.name] = Nil
  BY <1>1, ObjectInType DEF CRDObject
<1>2. CASE objects[a.name] # Nil
  <2>1. objects[a.name] \in Objects /\ a.val \in Values
    BY <1>2, ObjectInType, AssetsAssumption DEF TypeOK
  <2>2. CRDObject(a) = [objects[a.name] EXCEPT !.val = a.val]
    BY <1>2 DEF CRDObject
  <2>3. /\ CRDObject(a) \in Objects /\ CRDObject(a).val = a.val
        /\ CRDObject(a).version = objects[a.name].version
        /\ CRDObject(a).rest = objects[a.name].rest
    BY <2>1, <2>2 DEF Objects
  <2> QED
    BY <1>2, <2>3, NilAssumption
<1> QED
  BY <1>1, <1>2

\* What a call to the API server does to the variables.
LEMMA ApiCallType ==
    ASSUME TypeOK, NEW a \in Assets, NEW obj \in Objects, NEW rest, ApiCall(a, obj, rest)
    PROVE  /\ pc' \in {pc, "failed"} /\ todo' \in {todo, rest}
           /\ objects' \in {objects, [objects EXCEPT ![a.name] = obj]}
           /\ objects' \in [Names -> Objects \cup {Nil}]
           /\ faults' \in 0 .. MaxFaults
           /\ UNCHANGED <<inputs, waiting, refused, served, serving, resets>>
<1>1. objects' \in {objects, [objects EXCEPT ![a.name] = obj]}
  BY DEF ApiCall
<1>2. objects' \in [Names -> Objects \cup {Nil}]
  BY <1>1 DEF TypeOK
<1>3. faults' \in 0 .. MaxFaults
  BY BoundsAssumption DEF ApiCall, Fault, TypeOK
<1> QED
  BY <1>1, <1>2, <1>3 DEF ApiCall

\* Every step preserves the types.
LEMMA TypeStep ==
    ASSUME IInv, [Next]_vars
    PROVE  TypeOK'
<1> USE BoundsAssumption
<1>0. TypeOK /\ ProgressInv
  BY DEF IInv
<1>1. CASE UNCHANGED vars \/ Terminated
  BY <1>0, <1>1 DEF TypeOK, vars, Terminated
<1>2. ASSUME NEW a \in Assets, InstallRBAC(a)
      PROVE  TypeOK'
  <2>1. ApiCall(a, ObjectIn(a), todo) /\ created' = a /\ a \in todo
    BY <1>2 DEF InstallRBAC, IsNext, Of
  <2> QED
    BY <1>0, <2>1, ObjectInType, ApiCallType DEF TypeOK
<1>3. ASSUME NEW a \in Assets, WaitForObject(a)
      PROVE  TypeOK'
  BY <1>0, <1>3 DEF TypeOK, WaitForObject, Fault
<1>4. ASSUME NEW a \in Assets, CreateCRD(a)
      PROVE  TypeOK'
  <2>1. /\ ApiCall(a, CRDObject(a), todo \ {a}) /\ created' = created
        /\ a \in todo /\ a.kind = "crd"
    BY <1>4 DEF CreateCRD, CRDObject, Of
  <2>2. created # a
    BY <1>0, <2>1, NilAssumption DEF ProgressInv, RBACKinds
  <2> QED
    BY <1>0, <2>1, <2>2, CRDObjectType, ApiCallType DEF TypeOK
<1>5. ASSUME At("manifests")
      PROVE  created = Nil
  BY <1>0, <1>5 DEF TypeOK, ProgressInv, At, Stage, Of
<1>6. ASSUME NEW a \in Assets, ApplyManifest(a)
      PROVE  TypeOK'
  <2>1. objects' \in [Names -> Objects \cup {Nil}]
    BY <1>0, <1>6, ObjectInType DEF TypeOK, ApplyManifest
  <2> QED
    BY <1>0, <1>5, <1>6, <2>1 DEF TypeOK, ApplyManifest
<1>7. ASSUME NEW a \in Assets, SkipManifest(a) \/ Refused(a) \/ FetchFails(a)
      PROVE  TypeOK'
  BY <1>0, <1>5, <1>7 DEF TypeOK, SkipManifest, Refused, FetchFails, Skip, IsNext, Of
<1>8. ASSUME NEW a \in Assets, LoadFilesFails(a)
      PROVE  TypeOK'
  BY <1>0, <1>8 DEF TypeOK, LoadFilesFails, Fault
<1>9. ASSUME NEW r \in Resources, Poll(r)
      PROVE  TypeOK'
  BY <1>0, <1>9 DEF TypeOK, Poll
<1>10. CASE WaitTimesOut \/ Finish \/ Crash
  BY <1>0, <1>10 DEF TypeOK, WaitTimesOut, Finish, Crash, Fault
<1>11. CASE Reset
  <2>1. objects' \in [Names -> Objects \cup {Nil}]
    BY <1>11 DEF Reset
  <2>2. served' = {} /\ serving' \in BOOLEAN
    BY <1>11 DEF Reset
  <2>3. resets' \in 0 .. MaxResets
    <3>1. resets' = resets + 1 /\ resets < MaxResets
      BY <1>11 DEF Reset
    <3> QED
      BY <1>0, <3>1 DEF TypeOK
  <2>4. UNCHANGED <<inputs, pc, todo, waiting, created, refused, faults>>
    BY <1>11 DEF Reset
  <2> QED
    BY <1>0, <2>1, <2>2, <2>3, <2>4 DEF TypeOK
<1>12. ASSUME NEW n \in Names, Establish(n)
       PROVE  TypeOK'
  <2>1. <<n, objects[n].version>> \in Resources
    BY <1>0, <1>12 DEF TypeOK, Establish, Objects, Resources
  <2> QED
    BY <1>0, <1>12, <2>1 DEF TypeOK, Establish
<1> QED
  BY <1>1, <1>2, <1>3, <1>4, <1>6, <1>7, <1>8, <1>9, <1>10, <1>11, <1>12 DEF Next, Step

\* Every step preserves what is known of todo and waiting.
LEMMA ProgressStep ==
    ASSUME IInv, [Next]_vars
    PROVE  ProgressInv'
<1> USE DEF ProgressInv
<1>0. TypeOK /\ ProgressInv
  BY DEF IInv
<1>1. CASE UNCHANGED vars \/ Terminated \/ Reset
  BY <1>0, <1>1 DEF vars, Terminated, Reset, Of, ReadCRDFiles
<1>2. ASSUME NEW a \in Assets, InstallRBAC(a)
      PROVE  ProgressInv'
  <2>1. ApiCall(a, ObjectIn(a), todo) /\ created' = a /\ a.kind \in RBACKinds /\ pc = "run"
    BY <1>2 DEF InstallRBAC, IsNext, Of, At
  <2>2. pc' # "done" /\ todo' = todo /\ UNCHANGED <<files, refused>>
    BY <1>0, <2>1, ObjectInType, ApiCallType
  <2> QED
    BY <1>0, <2>1, <2>2 DEF Of, ReadCRDFiles
<1>3. ASSUME NEW a \in Assets, WaitForObject(a)
      PROVE  ProgressInv'
  BY <1>0, <1>3 DEF WaitForObject, At, Of, ReadCRDFiles
<1>4. ASSUME NEW a \in Assets, CreateCRD(a)
      PROVE  ProgressInv'
  <2>1. ApiCall(a, CRDObject(a), todo \ {a}) /\ created' = created /\ pc = "run"
    BY <1>4 DEF CreateCRD, CRDObject, At
  <2>2. pc' # "done" /\ todo' \subseteq todo /\ UNCHANGED <<files, refused>>
    BY <1>0, <2>1, CRDObjectType, ApiCallType
  <2> QED
    BY <1>0, <2>1, <2>2 DEF Of, ReadCRDFiles
<1>5. ASSUME NEW a \in Assets,
             \/ ApplyManifest(a) \/ SkipManifest(a) \/ Refused(a) \/ FetchFails(a)
             \/ LoadFilesFails(a)
      PROVE  ProgressInv'
  <2>1. pc' # "done" /\ todo' \subseteq todo /\ UNCHANGED <<files, created>>
    BY <1>5 DEF ApplyManifest, SkipManifest, Refused, FetchFails, Skip, LoadFilesFails, At
  <2>2. refused' = refused \/ \E lost : refused' = refused \cup lost /\ todo' = todo \ lost
    BY <1>5 DEF ApplyManifest, SkipManifest, Refused, FetchFails, Skip, LoadFilesFails, At
  <2> QED
    BY <1>0, <2>1, <2>2 DEF Of, ReadCRDFiles
<1>6. CASE WaitTimesOut \/ Crash \/ (\E r \in Resources : Poll(r))
           \/ (\E n \in Names : Establish(n))
  <2>1. /\ pc' = "done" => pc = "done" /\ waiting' = waiting
        /\ UNCHANGED <<files, created, todo, refused>>
    BY <1>6 DEF WaitTimesOut, WaitsForCRDs, Crash, Poll, Establish, At
  <2> QED
    BY <1>0, <2>1 DEF Of, ReadCRDFiles
<1>7. CASE Finish
  <2>1. todo' = {} /\ waiting' = {} /\ UNCHANGED <<files, created, todo, refused>>
    BY <1>7 DEF Finish, At, Stage
  <2> QED
    BY <1>0, <2>1 DEF Of, ReadCRDFiles
<1> QED
  BY <1>1, <1>2, <1>3, <1>4, <1>5, <1>6, <1>7 DEF Next, Step

-----------------------------------------------------------------------------
(***************************************************************************)
(* Every step preserves what is known of the roles and bindings.           *)
(***************************************************************************)

\* So does a step that does not touch them.
LEMMA RBACFrame ==
    ASSUME TypeOK, RBACInv, UNCHANGED <<files, created>>,
           Of(todo', RBACKinds) = Of(todo, RBACKinds),
           serving' => serving, pc' = "failed" \/ pc # "failed",
           serving' => \A a \in Of(Assets, RBACKinds) : objects'[a.name] = objects[a.name]
    PROVE  RBACInv'
<1>1. WrittenRBAC' = WrittenRBAC
  BY DEF WrittenRBAC, Of
<1>2. WrittenRBAC \subseteq Of(Assets, RBACKinds)
  BY DEF WrittenRBAC, Of, TypeOK
<1> QED
  BY <1>1, <1>2 DEF RBACInv, IsLast, ObjectIn, Earlier, Key

\* A call for an asset of one group does not touch the objects of another.
LEMMA OtherName ==
    ASSUME TypeOK, NEW a \in Assets, NEW b \in Assets, NEW obj,
           \/ a.kind \in RBACKinds <=> b.kind \notin RBACKinds
           \/ a.kind = "crd" <=> b.kind # "crd"
    PROVE  [objects EXCEPT ![a.name] = obj][b.name] = objects[b.name]
<1>1. a.name # b.name
  BY NamesAssumption
<1> QED
  BY <1>1, ObjectInType DEF TypeOK

\* Every step preserves what is known of the roles and bindings.
LEMMA RBACStep ==
    ASSUME IInv, [Next]_vars
    PROVE  RBACInv'
<1>0. TypeOK /\ ProgressInv /\ RBACInv
  BY DEF IInv
<1>1. CASE UNCHANGED vars \/ Terminated
  BY <1>0, <1>1, RBACFrame DEF vars, Terminated
<1>2. ASSUME NEW a \in Assets, InstallRBAC(a)
      PROVE  RBACInv'
  <2>1. /\ ApiCall(a, ObjectIn(a), todo) /\ created' = a /\ created = Nil
        /\ a \in Of(todo, RBACKinds) /\ \A b \in Of(todo, RBACKinds) : ~Earlier(b, a)
    BY <1>2 DEF InstallRBAC, IsNext
  <2>2. todo' = todo /\ UNCHANGED <<files, serving>>
    BY <1>0, <2>1, ObjectInType, ApiCallType
  <2>3. Nil \notin todo
    BY <1>0, NilAssumption DEF TypeOK
  <2>4. a \notin WrittenRBAC /\ WrittenRBAC' = WrittenRBAC \cup {a}
    BY <1>0, <2>1, <2>2, <2>3 DEF WrittenRBAC, Of, TypeOK
  <2>5. ASSUME pc # "failed",
               NEW c \in WrittenRBAC', NEW b \in Of(todo', RBACKinds) \ {created'}
        PROVE  ~Earlier(b, c)
    BY <1>0, <2>1, <2>2, <2>3, <2>4, <2>5 DEF RBACInv, Of
  <2>6. ASSUME serving', pc' # "failed", NEW c \in WrittenRBAC', IsLast(c, WrittenRBAC')
        PROVE  objects'[c.name] = ObjectIn(c)
    <3>1. /\ objects' = [objects EXCEPT ![a.name] = ObjectIn(a)] /\ serving /\ pc # "failed"
      BY <2>1, <2>2, <2>6 DEF ApiCall
    <3>2. CASE c = a
      BY <1>0, <3>1, <3>2, ObjectInType DEF TypeOK
    <3>3. CASE c # a
      <4>1. c \in WrittenRBAC /\ IsLast(c, WrittenRBAC) /\ c \in Assets
        BY <1>0, <2>4, <2>6, <3>3 DEF IsLast, WrittenRBAC, Of, TypeOK
      <4>2. objects[c.name] = ObjectIn(c)
        BY <1>0, <3>1, <4>1 DEF RBACInv
      <4>3. c \in Of(Assets, RBACKinds) /\ a \in Of(Assets, RBACKinds)
        BY <2>1, <4>1 DEF WrittenRBAC, Of
      <4>4. ~Earlier(a, c)
        BY <1>0, <2>1, <2>3, <3>1, <4>1 DEF RBACInv, Of
      <4>5. Earlier(c, a)
        BY <3>3, <4>3, <4>4, EarlierTotal
      <4>6. a.name # c.name
        BY <2>4, <2>6, <4>5 DEF IsLast
      <4> QED
        BY <1>0, <3>1, <4>1, <4>2, <4>6, ObjectInType DEF TypeOK
    <3> QED
      BY <3>2, <3>3
  <2>7. pc # "failed"
    BY <1>2 DEF InstallRBAC, At
  <2> QED
    BY <2>5, <2>6, <2>7 DEF RBACInv, IsLast, ObjectIn, Earlier, Key
<1>3. ASSUME NEW a \in Assets, WaitForObject(a)
      PROVE  RBACInv'
  <2>1. /\ created = a /\ created' = Nil /\ UNCHANGED <<files, objects, serving>>
        /\ pc # "failed" /\ (pc' = "failed" \/ todo' = todo \ {a})
        /\ todo' \in {todo, todo \ {a}}
    BY <1>3 DEF WaitForObject, At
  <2>2. Nil \notin todo /\ a \in todo
    BY <1>0, <2>1, NilAssumption DEF TypeOK
  <2>3. CASE todo' = todo \ {a}
    <3>1. WrittenRBAC' = WrittenRBAC
      BY <2>1, <2>2, <2>3 DEF WrittenRBAC, Of
    <3>2. Of(todo', RBACKinds) \ {created'} = Of(todo, RBACKinds) \ {created}
      BY <2>1, <2>2, <2>3 DEF Of
    <3> QED
      BY <1>0, <2>1, <3>1, <3>2 DEF RBACInv, IsLast, ObjectIn, Earlier, Key
  <2>4. CASE pc' = "failed"
    BY <2>4 DEF RBACInv
  <2> QED
    BY <2>1, <2>3, <2>4
<1>4. ASSUME NEW a \in Assets, CreateCRD(a)
      PROVE  RBACInv'
  <2>1. ApiCall(a, CRDObject(a), todo \ {a}) /\ a.kind = "crd" /\ created' = created /\ pc = "run"
    BY <1>4 DEF CreateCRD, CRDObject, Of, At
  <2>2. /\ objects' \in {objects, [objects EXCEPT ![a.name] = CRDObject(a)]}
        /\ todo' \in {todo, todo \ {a}} /\ UNCHANGED <<files, serving>>
    BY <1>0, <2>1, CRDObjectType, ApiCallType
  <2>3. ASSUME NEW b \in Of(Assets, RBACKinds)
        PROVE  objects'[b.name] = objects[b.name]
    <3>1. [objects EXCEPT ![a.name] = CRDObject(a)][b.name] = objects[b.name]
      BY <1>0, <2>1, OtherName DEF Of, RBACKinds
    <3> QED
      BY <2>2, <3>1
  <2>4. Of(todo', RBACKinds) = Of(todo, RBACKinds)
    BY <2>1, <2>2 DEF Of, RBACKinds
  <2> QED
    BY <1>0, <2>1, <2>2, <2>3, <2>4, RBACFrame
<1>5. ASSUME NEW a \in Assets, ApplyManifest(a)
      PROVE  RBACInv'
  <2>1. /\ objects' = [objects EXCEPT ![a.name] = ObjectIn(a)] /\ todo' = todo \ {a}
        /\ a.kind \in ManifestKinds /\ UNCHANGED <<files, pc, created, serving>>
    BY <1>5 DEF ApplyManifest, IsNext, Of
  <2>2. \A b \in Of(Assets, RBACKinds) : objects'[b.name] = objects[b.name]
    BY <1>0, <2>1, OtherName DEF Of, RBACKinds, ManifestKinds
  <2>3. Of(todo', RBACKinds) = Of(todo, RBACKinds)
    BY <2>1 DEF Of, RBACKinds, ManifestKinds
  <2>4. pc' = "failed" \/ pc # "failed"
    BY <1>5 DEF ApplyManifest, At
  <2> QED
    BY <1>0, <2>1, <2>2, <2>3, <2>4, RBACFrame
<1>6. ASSUME NEW a \in Assets,
             SkipManifest(a) \/ Refused(a) \/ FetchFails(a) \/ LoadFilesFails(a)
      PROVE  RBACInv'
  <2>1. /\ todo' \subseteq todo /\ UNCHANGED <<files, created, serving, objects>>
        /\ pc = "run" /\ Of(todo, RBACKinds) = {}
    BY <1>6 DEF SkipManifest, Refused, FetchFails, Skip, LoadFilesFails, At, Stage
  <2>2. Of(todo', RBACKinds) = Of(todo, RBACKinds)
    BY <2>1 DEF Of
  <2> QED
    BY <1>0, <2>1, <2>2, RBACFrame
<1>7. CASE WaitTimesOut \/ Finish \/ Crash \/ (\E r \in Resources : Poll(r))
           \/ (\E n \in Names : Establish(n))
  <2>1. /\ UNCHANGED <<files, created, todo, serving, objects>>
        /\ pc' = pc \/ pc = "run"
    BY <1>7 DEF WaitTimesOut, WaitsForCRDs, Finish, Crash, Poll, Establish, At
  <2> QED
    BY <1>0, <2>1, RBACFrame
<1>8. CASE Reset
  <2>1. UNCHANGED <<files, created, todo, pc>> /\ ~serving'
    BY <1>8 DEF Reset
  <2> QED
    BY <1>0, <2>1, RBACFrame
<1> QED
  BY <1>1, <1>2, <1>3, <1>4, <1>5, <1>6, <1>7, <1>8 DEF Next, Step

-----------------------------------------------------------------------------
(***************************************************************************)
(* Every step preserves what is known of the CRDs.                         *)
(***************************************************************************)

\* So does a step that does not touch them.
LEMMA CRDFrame ==
    ASSUME TypeOK, CRDInv, UNCHANGED <<files, waiting, served>>,
           Of(todo', {"crd"}) = Of(todo, {"crd"}), serving' => serving,
           serving' => \A a \in Of(Assets, {"crd"}) : objects'[a.name] = objects[a.name]
    PROVE  CRDInv'
<1> SUFFICES ASSUME serving'
             PROVE  CRDInv'
  BY DEF CRDInv
<1>1. ReadCRDFiles(files') = ReadCRDFiles(files)
  BY DEF ReadCRDFiles, Of, Earlier, Key
<1>2. ReadCRDFiles(files) \subseteq Of(Assets, {"crd"})
  BY DEF ReadCRDFiles, Of, TypeOK
<1>3. ReadCRDFiles(files) \ todo' = ReadCRDFiles(files) \ todo
  BY <1>2 DEF Of
<1>4. \A n \in CRDNames : objects'[n] = objects[n]
  BY DEF CRDNames
<1>5. \A a \in ReadCRDFiles(files) \ todo' : objects'[a.name] # Nil /\ objects'[a.name].val = a.val
  BY <1>2, <1>3 DEF CRDInv
<1>6. \A r \in served' : r[1] \in CRDNames => objects'[r[1]] # Nil /\ objects'[r[1]].version = r[2]
  BY <1>4 DEF CRDInv
<1>7. \A a \in ReadCRDFiles(files) : Resource(a) \in waiting' \cup served'
  BY DEF CRDInv
<1> QED
  BY <1>1, <1>5, <1>6, <1>7 DEF CRDInv, CRDNames, Of, Resource

\* Every step preserves what is known of the CRDs.
LEMMA CRDStep ==
    ASSUME IInv, [Next]_vars
    PROVE  CRDInv'
<1>0. TypeOK /\ ProgressInv /\ CRDInv
  BY DEF IInv
<1>1. CASE UNCHANGED vars \/ Terminated
  BY <1>0, <1>1, CRDFrame DEF vars, Terminated
<1>2. ASSUME NEW a \in Assets, InstallRBAC(a)
      PROVE  CRDInv'
  <2>1. ApiCall(a, ObjectIn(a), todo) /\ a.kind \in RBACKinds
    BY <1>2 DEF InstallRBAC, IsNext, Of
  <2>2. /\ objects' \in {objects, [objects EXCEPT ![a.name] = ObjectIn(a)]}
        /\ todo' = todo /\ UNCHANGED <<files, waiting, served, serving>>
    BY <1>0, <2>1, ObjectInType, ApiCallType
  <2>3. ASSUME NEW b \in Of(Assets, {"crd"})
        PROVE  objects'[b.name] = objects[b.name]
    <3>1. [objects EXCEPT ![a.name] = ObjectIn(a)][b.name] = objects[b.name]
      BY <1>0, <2>1, OtherName DEF Of, RBACKinds
    <3> QED
      BY <2>2, <3>1
  <2> QED
    BY <1>0, <2>2, <2>3, CRDFrame
<1>3. ASSUME NEW a \in Assets, WaitForObject(a)
      PROVE  CRDInv'
  <2>1. /\ created = a /\ todo' \in {todo, todo \ {a}}
        /\ UNCHANGED <<files, waiting, served, serving, objects>>
    BY <1>3 DEF WaitForObject
  <2>2. a.kind \in RBACKinds
    BY <1>0, <2>1, NilAssumption DEF ProgressInv
  <2>3. Of(todo', {"crd"}) = Of(todo, {"crd"})
    BY <2>1, <2>2 DEF Of, RBACKinds
  <2> QED
    BY <1>0, <2>1, <2>3, CRDFrame
<1>4. ASSUME NEW a \in Assets, CreateCRD(a), serving'
      PROVE  CRDInv'
  <2>1. /\ ApiCall(a, CRDObject(a), todo \ {a}) /\ a \in Of(todo, {"crd"})
        /\ a \in ReadCRDFiles(files)
    BY <1>0, <1>4 DEF CreateCRD, CRDObject, ProgressInv
  <2>2. /\ objects' \in {objects, [objects EXCEPT ![a.name] = CRDObject(a)]}
        /\ todo' \in {todo, todo \ {a}} /\ UNCHANGED <<files, waiting, served, serving>>
    BY <1>0, <2>1, CRDObjectType, ApiCallType
  <2>3. a \notin todo' => objects' = [objects EXCEPT ![a.name] = CRDObject(a)]
    BY <2>1 DEF ApiCall, Of
  <2>4. ReadCRDFiles(files') = ReadCRDFiles(files)
    BY <2>2 DEF ReadCRDFiles, Of, Earlier, Key
  <2>5. ASSUME NEW n \in Names, n # a.name
        PROVE  objects'[n] = objects[n]
    BY <1>0, <2>2, <2>5 DEF TypeOK
  <2>6. ASSUME NEW b \in ReadCRDFiles(files) \ todo'
        PROVE  objects'[b.name] # Nil /\ objects'[b.name].val = b.val
    <3>1. b \in Assets
      BY <1>0 DEF TypeOK, ReadCRDFiles, Of
    <3>2. CASE b = a
      <4>1. objects'[a.name] = CRDObject(a)
        BY <1>0, <2>3, <3>2, ObjectInType DEF TypeOK
      <4> QED
        BY <1>0, <3>2, <4>1, CRDObjectType
    <3>3. CASE b # a
      <4>1. b.name # a.name
        BY <1>0, <2>1, <3>3, ReadCRDFilesUnique DEF TypeOK
      <4>2. b \notin todo /\ serving
        BY <1>4, <2>2, <3>3
      <4> QED
        BY <1>0, <2>5, <3>1, <4>1, <4>2, ObjectInType DEF CRDInv
    <3> QED
      BY <3>2, <3>3
  <2>7. ASSUME NEW r \in served, r[1] \in CRDNames
        PROVE  objects'[r[1]] # Nil /\ objects'[r[1]].version = r[2]
    <3>1. r[1] \in Names /\ serving
      BY <1>0, <1>4, <2>2 DEF TypeOK, Resources
    <3>2. objects[r[1]] # Nil /\ objects[r[1]].version = r[2]
      BY <1>0, <2>7, <3>1 DEF CRDInv
    <3>3. CASE r[1] = a.name
      <4>1. objects'[a.name] \in {objects[a.name], CRDObject(a)}
        BY <1>0, <2>2, ObjectInType DEF TypeOK
      <4> QED
        BY <1>0, <3>2, <3>3, <4>1, CRDObjectType
    <3> QED
      BY <2>5, <3>1, <3>2, <3>3
  <2>8. \A b \in ReadCRDFiles(files) : Resource(b) \in waiting' \cup served'
    BY <1>0, <1>4, <2>2 DEF CRDInv
  <2> QED
    BY <2>2, <2>4, <2>6, <2>7, <2>8 DEF CRDInv, CRDNames, Of, Resource
<1>5. ASSUME NEW a \in Assets, ApplyManifest(a)
      PROVE  CRDInv'
  <2>1. /\ objects' = [objects EXCEPT ![a.name] = ObjectIn(a)] /\ todo' = todo \ {a}
        /\ a.kind \in ManifestKinds /\ UNCHANGED <<files, waiting, served, serving>>
    BY <1>5 DEF ApplyManifest, IsNext, Of
  <2>2. \A b \in Of(Assets, {"crd"}) : objects'[b.name] = objects[b.name]
    BY <1>0, <2>1, OtherName DEF Of, ManifestKinds
  <2>3. Of(todo', {"crd"}) = Of(todo, {"crd"})
    BY <2>1 DEF Of, ManifestKinds
  <2> QED
    BY <1>0, <2>1, <2>2, <2>3, CRDFrame
<1>6. ASSUME NEW a \in Assets,
             SkipManifest(a) \/ Refused(a) \/ FetchFails(a) \/ LoadFilesFails(a)
      PROVE  CRDInv'
  <2>1. /\ todo' \subseteq todo /\ UNCHANGED <<files, waiting, served, serving, objects>>
        /\ Of(todo, {"crd"}) = {}
    BY <1>6 DEF SkipManifest, Refused, FetchFails, Skip, LoadFilesFails, At, Stage
  <2>2. Of(todo', {"crd"}) = Of(todo, {"crd"})
    BY <2>1 DEF Of
  <2> QED
    BY <1>0, <2>1, <2>2, CRDFrame
<1>7. CASE WaitTimesOut \/ Finish \/ Crash
  <2>1. UNCHANGED <<files, todo, waiting, served, serving, objects>>
    BY <1>7 DEF WaitTimesOut, Finish, Crash
  <2> QED
    BY <1>0, <2>1, CRDFrame
<1>8. CASE Reset
  BY <1>8 DEF Reset, CRDInv
<1>9. ASSUME NEW r \in Resources, Poll(r)
      PROVE  CRDInv'
  <2>1. /\ waiting' = waiting \ {r} /\ r \in served /\ serving
        /\ UNCHANGED <<files, todo, served, serving, objects>>
    BY <1>9 DEF Poll
  <2> QED
    BY <1>0, <2>1 DEF CRDInv, ReadCRDFiles, CRDNames, Of, Resource, Earlier, Key
<1>10. ASSUME NEW n \in Names, Establish(n)
       PROVE  CRDInv'
  <2>1. /\ served' = served \cup {<<n, objects[n].version>>} /\ objects[n] # Nil /\ serving
        /\ UNCHANGED <<files, todo, waiting, serving, objects>>
    BY <1>10 DEF Establish
  <2> QED
    BY <1>0, <2>1 DEF CRDInv, ReadCRDFiles, CRDNames, Of, Resource, Earlier, Key
<1>11. CASE ~serving'
  BY <1>11 DEF CRDInv
<1> QED
  BY <1>1, <1>2, <1>3, <1>4, <1>5, <1>6, <1>7, <1>8, <1>9, <1>10, <1>11 DEF Next, Step

\* The specs of the CRDs are written by nothing but CreateCRD.
LEMMA RestStep ==
    ASSUME IInv, [Next]_vars
    PROVE  RestInv'
<1>0. TypeOK /\ ProgressInv /\ RestInv
  BY DEF IInv
<1> SUFFICES ASSUME serving'
             PROVE  RestInv'
  BY DEF RestInv
<1>a. UNCHANGED inputs /\ serving
  BY DEF Next, Step, InstallRBAC, WaitForObject, CreateCRD, ApiCall, ApplyManifest, SkipManifest,
         Refused, FetchFails, Skip, LoadFilesFails, Poll, WaitTimesOut, Finish, Crash, Reset,
         Terminated, Establish, vars
<1>b. /\ ReadCRDFiles(files)' = ReadCRDFiles(files)
      /\ ReadCRDFiles(files) \subseteq Of(Assets, {"crd"})
      /\ \A a \in ReadCRDFiles(files) : RestOf(a)' = RestOf(a)
  BY <1>0, <1>a DEF ReadCRDFiles, Of, Earlier, Key, TypeOK, RestOf
<1>1. ASSUME \A a \in Of(Assets, {"crd"}) : objects'[a.name] = objects[a.name]
      PROVE  RestInv'
  BY <1>0, <1>1, <1>a, <1>b DEF RestInv
<1>2. ASSUME NEW a \in Assets, a.kind # "crd", NEW obj,
             objects' \in {objects, [objects EXCEPT ![a.name] = obj]}
      PROVE  RestInv'
  <2>1. ASSUME NEW b \in Of(Assets, {"crd"})
        PROVE  objects'[b.name] = objects[b.name]
    <3>1. [objects EXCEPT ![a.name] = obj][b.name] = objects[b.name]
      BY <1>0, <1>2, OtherName DEF Of
    <3> QED
      BY <1>2, <3>1
  <2> QED
    BY <1>1, <2>1
<1>3. ASSUME NEW a \in Assets, InstallRBAC(a) \/ ApplyManifest(a)
      PROVE  RestInv'
  <2>1. /\ objects' \in {objects, [objects EXCEPT ![a.name] = ObjectIn(a)]}
        /\ a.kind # "crd"
    BY <1>3 DEF InstallRBAC, ApiCall, ApplyManifest, IsNext, Of, RBACKinds, ManifestKinds
  <2> QED
    BY <1>2, <2>1
<1>4. ASSUME NEW a \in Assets, CreateCRD(a)
      PROVE  RestInv'
  <2>1. /\ objects' \in {objects, [objects EXCEPT ![a.name] = CRDObject(a)]}
        /\ a \in ReadCRDFiles(files)
    BY <1>0, <1>4 DEF CreateCRD, ApiCall, CRDObject, ProgressInv
  <2>2. ASSUME NEW b \in ReadCRDFiles(files)
        PROVE  /\ objects'[b.name] = Nil => before[b.name] = Nil
               /\ objects'[b.name] # Nil => objects'[b.name].rest = RestOf(b)
    <3>0. /\ objects[b.name] = Nil => before[b.name] = Nil
          /\ objects[b.name] # Nil => objects[b.name].rest = RestOf(b)
          /\ b \in Of(Assets, {"crd"})
      BY <1>0, <1>a, <1>b DEF RestInv
    <3>1. CASE b = a
      <4>1. objects'[a.name] \in {objects[a.name], CRDObject(a)}
        BY <1>0, <2>1, ObjectInType DEF TypeOK
      <4>2. CRDObject(a) # Nil /\ CRDObject(a).rest = RestOf(a)
        BY <1>0, <3>0, <3>1, CRDObjectType DEF RestOf
      <4> QED
        BY <3>0, <3>1, <4>1, <4>2
    <3>2. CASE b # a
      <4>1. b.name # a.name
        BY <1>0, <2>1, <3>2, ReadCRDFilesUnique DEF TypeOK
      <4>2. objects'[b.name] = objects[b.name]
        BY <1>0, <2>1, <3>0, <4>1, ObjectInType DEF TypeOK, Of
      <4> QED
        BY <3>0, <4>2
    <3> QED
      BY <3>1, <3>2
  <2> QED
    BY <1>a, <1>b, <2>2 DEF RestInv
<1>5. CASE UNCHANGED objects
  BY <1>1, <1>5
<1> QED
  BY <1>3, <1>4, <1>5 DEF Next, Step, WaitForObject, SkipManifest, Refused, FetchFails, Skip,
     LoadFilesFails, Poll, WaitTimesOut, Finish, Crash, Reset, Terminated, Establish, vars

-----------------------------------------------------------------------------
(***************************************************************************)
(* Every step preserves what is known of the manifests.                    *)
(***************************************************************************)

\* So does a step that does not touch them.
LEMMA ManifestsFrame ==
    ASSUME TypeOK, ManifestsInv, files' = files, TriedManifests' = TriedManifests,
           todo' \subseteq todo, serving' => serving,
           serving' => \A a \in Of(Assets, ManifestKinds) : objects'[a.name] = objects[a.name]
    PROVE  ManifestsInv'
<1>1. TriedManifests \subseteq Of(Assets, ManifestKinds)
  BY DEF TriedManifests, Of, TypeOK
<1>2. \A a \in TriedManifests : \A b \in Of(todo', ManifestKinds) : ~Earlier(b, a)
  BY DEF ManifestsInv, Of
<1>3. ASSUME serving', NEW a \in TriedManifests, Usable(a)', Decides(a, TriedManifests)
      PROVE  objects'[a.name] = ObjectIn(a)
  <2>1. Usable(a)
    BY <1>3 DEF Usable, ReadCRDFiles, Of, Resource, Earlier, Key
  <2> QED
    BY <1>1, <1>3, <2>1 DEF ManifestsInv
<1>4. ASSUME serving', NEW a \in Of(Assets, ManifestKinds), objects'[a.name] # Nil
      PROVE  \E b \in TriedManifests' : b.name = a.name
  BY <1>4 DEF ManifestsInv
<1> QED
  BY <1>2, <1>3, <1>4 DEF ManifestsInv, Of, Decides, ObjectIn, Earlier, Key

\* While manifests are installed, every CRD of the files is served.
LEMMA ServedAtManifests ==
    ASSUME CRDInv, At("manifests"), serving, NEW a, Usable(a)
    PROVE  a.needs \subseteq served
<1>1. waiting = {}
  BY DEF At, Stage
<1> QED
  BY <1>1 DEF CRDInv, Usable

\* Every step preserves what is known of the manifests.
LEMMA ManifestsStep ==
    ASSUME IInv, [Next]_vars
    PROVE  ManifestsInv'
<1>0. TypeOK /\ ProgressInv /\ CRDInv /\ ManifestsInv
  BY DEF IInv
<1>1. CASE UNCHANGED vars \/ Terminated
  BY <1>0, <1>1, ManifestsFrame DEF vars, Terminated, TriedManifests
<1>2. ASSUME NEW a \in Assets, NEW obj \in Objects, NEW rest \in SUBSET todo,
             a.kind \notin ManifestKinds, todo \ rest \subseteq {a}, ApiCall(a, obj, rest)
      PROVE  ManifestsInv'
  <2>1. /\ objects' \in {objects, [objects EXCEPT ![a.name] = obj]}
        /\ todo' \in {todo, rest} /\ UNCHANGED <<files, refused, serving>>
    BY <1>0, <1>2, ApiCallType
  <2>2. ASSUME NEW b \in Of(Assets, ManifestKinds)
        PROVE  objects'[b.name] = objects[b.name]
    <3>1. a.kind \in RBACKinds \/ a.kind = "crd"
      BY <1>2, AssetsAssumption DEF Kinds
    <3>2. [objects EXCEPT ![a.name] = obj][b.name] = objects[b.name]
      BY <1>0, <1>2, <3>1, OtherName DEF Of, RBACKinds, ManifestKinds
    <3> QED
      BY <2>1, <3>2
  <2>3. TriedManifests' = TriedManifests
    BY <1>2, <2>1 DEF TriedManifests, Of
  <2> QED
    BY <1>0, <2>1, <2>2, <2>3, ManifestsFrame
<1>3. ASSUME NEW a \in Assets, InstallRBAC(a)
      PROVE  ManifestsInv'
  <2>1. ApiCall(a, ObjectIn(a), todo) /\ a.kind \notin ManifestKinds
    BY <1>3 DEF InstallRBAC, IsNext, Of, RBACKinds, ManifestKinds
  <2> QED
    BY <1>2, <2>1, ObjectInType
<1>4. ASSUME NEW a \in Assets, WaitForObject(a)
      PROVE  ManifestsInv'
  <2>1. /\ created = a /\ todo' \in {todo, todo \ {a}}
        /\ UNCHANGED <<files, refused, serving, objects>>
    BY <1>4 DEF WaitForObject
  <2>2. a.kind \notin ManifestKinds
    BY <1>0, <2>1, NilAssumption DEF ProgressInv, RBACKinds, ManifestKinds
  <2>3. TriedManifests' = TriedManifests
    BY <2>1, <2>2 DEF TriedManifests, Of
  <2> QED
    BY <1>0, <2>1, <2>3, ManifestsFrame
<1>5. ASSUME NEW a \in Assets, CreateCRD(a)
      PROVE  ManifestsInv'
  <2>1. ApiCall(a, CRDObject(a), todo \ {a}) /\ a.kind \notin ManifestKinds
    BY <1>5 DEF CreateCRD, CRDObject, Of, ManifestKinds
  <2> QED
    BY <1>0, <1>2, <2>1, CRDObjectType
<1>6. ASSUME NEW c \in Assets, ApplyManifest(c) \/ SkipManifest(c)
      PROVE  ManifestsInv'
  <2>1. /\ At("manifests") /\ c \in Of(todo, ManifestKinds)
        /\ \A b \in Of(todo, ManifestKinds) : ~Earlier(b, c)
        /\ todo' = todo \ {c} /\ UNCHANGED <<files, refused, serving, served>>
    BY <1>6 DEF ApplyManifest, SkipManifest, IsNext
  <2>2. /\ TriedManifests' = TriedManifests \cup {c} /\ c \notin TriedManifests
        /\ TriedManifests' \subseteq Of(Assets, ManifestKinds)
    BY <1>0, <2>1 DEF TriedManifests, Of, TypeOK, ProgressInv
  <2>3. \A a \in TriedManifests' : \A b \in Of(todo', ManifestKinds) : ~Earlier(b, a)
    BY <1>0, <2>1, <2>2 DEF ManifestsInv, Of
  <2>4. ASSUME NEW a \in TriedManifests, a.name = c.name
        PROVE  Earlier(a, c) /\ a.needs = c.needs /\ a \in Assets
    <3>1. a \in Of(Assets, ManifestKinds) /\ c \in Of(Assets, ManifestKinds) /\ a # c
      BY <2>1, <2>2 DEF Of
    <3>2. ~Earlier(c, a)
      BY <1>0, <2>1 DEF ManifestsInv
    <3>3. a.needs = c.needs
      BY <2>4, <3>1, NamesAssumption DEF Of
    <3> QED
      BY <3>1, <3>2, <3>3, EarlierTotal DEF Of
  <2>5. ASSUME NEW a, Usable(a)'
        PROVE  Usable(a)
    BY <2>1, <2>5 DEF Usable, ReadCRDFiles, Of, Resource, Earlier, Key
  <2>6. ASSUME serving, ApplyManifest(c)
        PROVE  ManifestsInv'
    <3>1. objects' = [objects EXCEPT ![c.name] = ObjectIn(c)] /\ Acceptable(c)
      BY <2>6 DEF ApplyManifest
    <3>2. objects'[c.name] = ObjectIn(c) /\ \A n \in Names \ {c.name} : objects'[n] = objects[n]
      BY <1>0, <3>1, ObjectInType DEF TypeOK
    <3>3. ASSUME NEW a \in TriedManifests', Usable(a)', Decides(a, TriedManifests')
          PROVE  objects'[a.name] = ObjectIn(a)
      <4>1. CASE a = c
        BY <3>2, <4>1
      <4>2. CASE a # c
        <5>1. a \in TriedManifests /\ Decides(a, TriedManifests) /\ a \in Assets
          BY <2>2, <3>3, <4>2 DEF Decides, Of
        <5>2. objects[a.name] = ObjectIn(a)
          BY <1>0, <2>5, <2>6, <3>3, <5>1 DEF ManifestsInv
        <5>3. CASE a.name = c.name
          <6>1. Earlier(a, c) /\ a.needs = c.needs
            BY <2>4, <5>1, <5>3
          <6>2. a.needs # {}
            BY <2>2, <3>3, <5>3, <6>1 DEF Decides
          <6>3. objects[c.name] = Nil
            BY <3>1, <6>1, <6>2 DEF Acceptable
          <6> QED
            BY <5>1, <5>2, <5>3, <6>3, ObjectInType
        <5>4. CASE a.name # c.name
          BY <3>2, <5>1, <5>2, <5>4, ObjectInType
        <5> QED
          BY <5>3, <5>4
      <4> QED
        BY <4>1, <4>2
    <3>4. ASSUME NEW a \in Of(Assets, ManifestKinds), objects'[a.name] # Nil
          PROVE  \E b \in TriedManifests' : b.name = a.name
      <4>1. CASE a.name = c.name
        BY <2>2, <4>1
      <4>2. CASE a.name # c.name
        <5>1. objects[a.name] # Nil
          BY <3>2, <3>4, <4>2, ObjectInType DEF Of
        <5> QED
          BY <1>0, <2>2, <2>6, <5>1 DEF ManifestsInv
      <4> QED
        BY <4>1, <4>2
    <3> QED
      BY <2>3, <3>3, <3>4 DEF ManifestsInv, Of, Decides, ObjectIn, Earlier, Key
  <2>7. ASSUME serving, SkipManifest(c)
        PROVE  ManifestsInv'
    <3>1. objects' = objects /\ ~Acceptable(c)
      BY <2>7 DEF SkipManifest
    <3>2. ASSUME NEW a \in TriedManifests', Usable(a)', Decides(a, TriedManifests')
          PROVE  objects'[a.name] = ObjectIn(a)
      <4>1. CASE a = c
        <5>1. c.needs \subseteq served
          BY <1>0, <2>1, <2>5, <2>7, <3>2, <4>1, ServedAtManifests
        <5>2. objects[c.name] # Nil /\ c.needs # {}
          BY <2>7, <3>1, <5>1 DEF Acceptable
        <5>3. PICK b \in TriedManifests : b.name = c.name
          BY <1>0, <2>1, <2>2, <2>7, <5>2 DEF ManifestsInv
        <5>4. Earlier(b, c)
          BY <2>4, <5>3
        <5> QED
          BY <2>2, <3>2, <4>1, <5>2, <5>3, <5>4 DEF Decides
      <4>2. CASE a # c
        <5>1. a \in TriedManifests /\ Decides(a, TriedManifests)
          BY <2>2, <3>2, <4>2 DEF Decides
        <5> QED
          BY <1>0, <2>5, <2>7, <3>1, <3>2, <5>1 DEF ManifestsInv
      <4> QED
        BY <4>1, <4>2
    <3>3. ASSUME NEW a \in Of(Assets, ManifestKinds), objects'[a.name] # Nil
          PROVE  \E b \in TriedManifests' : b.name = a.name
      BY <1>0, <2>2, <2>7, <3>1, <3>3 DEF ManifestsInv
    <3> QED
      BY <2>3, <3>2, <3>3 DEF ManifestsInv, Of, Decides, ObjectIn, Earlier, Key
  <2>8. CASE ~serving
    BY <2>1, <2>3, <2>8 DEF ManifestsInv, Of, Earlier, Key
  <2> QED
    BY <1>6, <2>6, <2>7, <2>8
<1>7. ASSUME NEW a \in Assets, Refused(a) \/ FetchFails(a)
      PROVE  ManifestsInv'
  <2>1. PICK lost \in SUBSET todo : Skip(lost)
    BY <1>7 DEF Refused, FetchFails, IsNext, Of
  <2>2. TriedManifests' = TriedManifests
    BY <2>1 DEF TriedManifests, Skip, Of
  <2> QED
    BY <1>0, <2>1, <2>2, ManifestsFrame DEF Skip
<1>8. CASE WaitTimesOut \/ Finish \/ Crash \/ (\E a \in Assets : LoadFilesFails(a))
           \/ (\E r \in Resources : Poll(r)) \/ (\E n \in Names : Establish(n))
  <2>1. UNCHANGED <<files, todo, refused, serving, objects>>
    BY <1>8 DEF WaitTimesOut, Finish, Crash, LoadFilesFails, Poll, Establish
  <2> QED
    BY <1>0, <2>1, ManifestsFrame DEF TriedManifests
<1>9. CASE Reset
  <2>1. UNCHANGED <<files, todo, refused>> /\ ~serving'
    BY <1>9 DEF Reset
  <2> QED
    BY <1>0, <2>1, ManifestsFrame DEF TriedManifests
<1> QED
  BY <1>1, <1>3, <1>4, <1>5, <1>6, <1>7, <1>8, <1>9 DEF Next, Step

-----------------------------------------------------------------------------
(***************************************************************************)
(* Theorems.                                                               *)
(***************************************************************************)

\* IInv is inductive.
THEOREM Invariance == Spec => []IInv
<1>1. Init => IInv
  BY InitInv
<1>2. IInv /\ [Next]_vars => IInv'
  BY TypeStep, ProgressStep, RBACStep, CRDStep, RestStep, ManifestsStep DEF IInv
<1> QED
  BY <1>1, <1>2, PTL DEF Spec

\* The variables of InstallAllAssets always have their types.
THEOREM TypeCorrect == Spec => []TypeOK
<1>1. IInv => TypeOK
  BY DEF IInv
<1> QED
  BY <1>1, Invariance, PTL

\* Whenever the installation gets to the manifests, the roles, bindings and CRDs
\* of the last directory that has them are in the cluster and the CRDs served,
\* for any directories and whatever failed, was slow or was there before; only
\* the spec of a CRD that was there before is, but for the validation, the old one.
THEOREM AssetsAreInstalled == Spec => []AssetsInstalled
<1>1. ASSUME IInv
      PROVE  AssetsInstalled
  <2> SUFFICES ASSUME At("manifests") \/ pc = "done", serving,
                      NEW kinds \in {RBACKinds, {"crd"}},
                      NEW a \in Of(files, kinds), IsLast(a, Of(files, kinds))
               PROVE  /\ objects[a.name] = [ObjectIn(a) EXCEPT !.rest = RestOf(a)]
                      /\ a.kind = "crd" => Resource(a) \in served
    BY DEF AssetsInstalled
  <2>1. /\ Of(todo, RBACKinds) = {} /\ Of(todo, {"crd"}) = {} /\ waiting = {}
        /\ pc # "failed"
    BY <1>1 DEF IInv, ProgressInv, At, Stage, Of
  <2>2. CASE kinds = RBACKinds
    <3>1. WrittenRBAC = Of(files, RBACKinds) /\ a.kind # "crd"
      BY <2>1, <2>2 DEF WrittenRBAC, Of, RBACKinds
    <3>2. objects[a.name] = ObjectIn(a)
      BY <1>1, <2>1, <2>2, <3>1 DEF IInv, RBACInv
    <3>3. ObjectIn(a) = [ObjectIn(a) EXCEPT !.rest = RestOf(a)]
      BY <3>1 DEF ObjectIn, RestOf
    <3> QED
      BY <3>1, <3>2, <3>3
  <2>3. CASE kinds = {"crd"}
    <3>1. a \in ReadCRDFiles(files) \ todo /\ a \in Assets /\ a.name \in CRDNames
      BY <1>1, <2>1, <2>3 DEF ReadCRDFiles, IsLast, Of, CRDNames, IInv, TypeOK
    <3>2. Resource(a) \in served /\ objects[a.name] # Nil /\ objects[a.name].val = a.val
      BY <1>1, <2>1, <3>1 DEF IInv, CRDInv
    <3>3. objects[a.name].version = a.version
      BY <1>1, <3>1, <3>2 DEF IInv, CRDInv, Resource
    <3>4. objects[a.name] \in Objects
      BY <1>1, <3>1, <3>2, ObjectInType DEF IInv, TypeOK
    <3>5. objects[a.name].rest = RestOf(a)
      BY <1>1, <3>1, <3>2 DEF IInv, RestInv
    <3>6. objects[a.name] = [ObjectIn(a) EXCEPT !.rest = RestOf(a)]
      BY <3>2, <3>3, <3>4, <3>5 DEF Objects, ObjectIn
    <3> QED
      BY <3>2, <3>6
  <2> QED
    BY <2>2, <2>3
<1> QED
  BY <1>1, Invariance, PTL

\* When InstallAllAssets returns, the cluster has everything from the manifests
\* that were not refused themselves, whatever happened to the others.
THEOREM ManifestsAreInstalled == Spec => []BestEffort
<1>1. ASSUME IInv
      PROVE  BestEffort
  <2> DEFINE usable == {a \in Of(files, ManifestKinds) \ refused :
                           a.needs \subseteq {Resource(b) : b \in ReadCRDFiles(files)}}
  <2>1. ASSUME pc = "done", serving, NEW a \in usable, Decides(a, usable)
        PROVE  objects[a.name] = ObjectIn(a)
    <3>1. TriedManifests = Of(files, ManifestKinds) \ refused
      BY <1>1, <2>1 DEF TriedManifests, IInv, ProgressInv
    <3>2. a \in TriedManifests /\ Usable(a)
      BY <3>1 DEF Usable
    <3>3. ASSUME NEW b \in TriedManifests, b.name = a.name
          PROVE  b \in usable
      <4>1. a \in Assets /\ b \in Assets /\ b.kind \in ManifestKinds
        BY <1>1, <3>1 DEF IInv, TypeOK, Of
      <4>2. a.needs = b.needs
        BY <3>3, <4>1, NamesAssumption
      <4> QED
        BY <3>1, <4>2
    <3>4. Decides(a, TriedManifests)
      <4> HIDE DEF usable
      <4> QED
        BY <2>1, <3>3 DEF Decides
    <3> QED
      BY <1>1, <2>1, <3>2, <3>4 DEF IInv, ManifestsInv
  <2> QED
    BY <2>1 DEF BestEffort
<1> QED
  BY <1>1, Invariance, PTL

-----------------------------------------------------------------------------
(***************************************************************************)
(* The refinement of Bootstrap.  A stage ends where Bootstrap says because *)
(* every kind that is found has something to do: for the CRDs this means   *)
(* that of the CRDs of one name there is a last one.                       *)
(***************************************************************************)
ReadResources == {Resource(a) : a \in ReadCRDFiles(files)}

StageInv ==
    /\ IsFiniteSet(files)
    /\ waiting \subseteq ReadResources
    /\ Of(todo, {"crd"}) # {} => waiting = ReadResources
    /\ Of(todo, RBACKinds) # {} => Of(todo, {"crd"}) = ReadCRDFiles(files)

\* Earlier is transitive and irreflexive.
LEMMA EarlierOrder ==
    ASSUME NEW a \in Assets, NEW b \in Assets, NEW c \in Assets
    PROVE  /\ ~Earlier(a, a)
           /\ Earlier(a, b) /\ Earlier(b, c) => Earlier(a, c)
<1>1. ASSUME NEW x \in Assets, NEW i \in 1 .. 4
      PROVE  Key(x)[i] \in Nat
  <2>1. /\ Key(x)[1] = Rank(x.dir) /\ Key(x)[2] = GlobRank(x.kind)
        /\ Key(x)[3] = x.file /\ Key(x)[4] = x.doc
    BY DEF Key
  <2>2. Rank(x.dir) \in Nat /\ GlobRank(x.kind) \in Nat
    BY RankType, PathsAssumption DEF GlobRank
  <2>3. x.file \in Nat /\ x.doc \in Nat
    BY AssetsAssumption
  <2> QED
    BY <2>1, <2>2, <2>3
<1>2. ~Earlier(a, a)
  BY <1>1 DEF Earlier
<1>3. ASSUME Earlier(a, b), Earlier(b, c)
      PROVE  Earlier(a, c)
  <2>1. PICK i \in 1 .. 4 : Key(a)[i] < Key(b)[i] /\ \A k \in 1 .. i - 1 : Key(a)[k] = Key(b)[k]
    BY <1>3 DEF Earlier
  <2>2. PICK j \in 1 .. 4 : Key(b)[j] < Key(c)[j] /\ \A k \in 1 .. j - 1 : Key(b)[k] = Key(c)[k]
    BY <1>3 DEF Earlier
  <2>3. CASE i <= j
    <3>1. Key(a)[i] < Key(c)[i] /\ \A k \in 1 .. i - 1 : Key(a)[k] = Key(c)[k]
      BY <1>1, <2>1, <2>2, <2>3
    <3> QED
      BY <3>1 DEF Earlier
  <2>4. CASE j < i
    <3>1. Key(a)[j] < Key(c)[j] /\ \A k \in 1 .. j - 1 : Key(a)[k] = Key(c)[k]
      BY <1>1, <2>1, <2>2, <2>4
    <3> QED
      BY <3>1 DEF Earlier
  <2> QED
    BY <2>3, <2>4
<1> QED
  BY <1>2, <1>3

\* Of finitely many assets there is a last one: one after which come the fewest.
LEMMA LastExists ==
    ASSUME NEW S \in SUBSET Assets, IsFiniteSet(S), S # {}
    PROVE  \E a \in S : \A b \in S : ~Earlier(a, b)
<1> DEFINE Later(a) == {b \in S : Earlier(a, b)}
           Laters   == {Later(a) : a \in S}
           Subsets  == FiniteSubsetsOf(S)
<1>1. IsWellFoundedOn(StrictSubsetOrdering(S), Subsets)
  BY FS_StrictSubsetOrderingWellFounded
<1>2. Laters \subseteq Subsets /\ Laters # {}
  <2>1. ASSUME NEW a \in S
        PROVE  Later(a) \in Subsets
    <3>1. IsFiniteSet(Later(a))
      BY FS_Subset
    <3> QED
      BY <3>1 DEF FiniteSubsetsOf
  <2> QED
    BY <2>1
<1>3. PICK T \in Laters : \A U \in Laters : <<U, T>> \notin StrictSubsetOrdering(S)
  <2> HIDE DEF Laters, Subsets
  <2> QED
    BY <1>1, <1>2, WFMin
<1>4. PICK a \in S : T = Later(a)
  OBVIOUS
<1>5. ASSUME NEW b \in S, Earlier(a, b)
      PROVE  FALSE
  <2>1. Later(b) \subseteq Later(a)
    BY <1>5, EarlierOrder
  <2>2. b \in Later(a) /\ b \notin Later(b)
    BY <1>5, EarlierOrder
  <2>3. <<Later(b), Later(a)>> \in StrictSubsetOrdering(S)
    <3>1. Later(b) \in SUBSET S /\ Later(a) \in SUBSET S /\ Later(b) # Later(a)
      BY <2>2
    <3> HIDE DEF Later
    <3> QED
      BY <2>1, <3>1 DEF StrictSubsetOrdering
  <2> QED
    BY <1>3, <1>4, <2>3
<1> QED
  BY <1>5

\* readCRDFiles fills a map: from any finitely many files it gets exactly one CRD
\* for every name of a CRD in them.
THEOREM OneCRDPerName ==
    ASSUME NEW found \in SUBSET Assets, IsFiniteSet(found), NEW c \in Of(found, {"crd"})
    PROVE  \E a \in ReadCRDFiles(found) :
               a.name = c.name /\ \A b \in ReadCRDFiles(found) : b.name = c.name => b = a
<1> DEFINE S == {b \in Of(found, {"crd"}) : b.name = c.name}
<1>1. S \in SUBSET Assets /\ S # {} /\ IsFiniteSet(S)
  <2>1. S \subseteq found /\ S # {}
    BY DEF Of
  <2> QED
    BY <2>1, FS_Subset
<1>2. PICK a \in S : \A b \in S : ~Earlier(a, b)
  <2> HIDE DEF S
  <2> QED
    BY <1>1, LastExists
<1>3. a \in ReadCRDFiles(found) /\ a.name = c.name
  BY <1>2 DEF ReadCRDFiles
<1> HIDE DEF S
<1>4. \A b \in ReadCRDFiles(found) : b.name = c.name => b = a
  BY <1>3, ReadCRDFilesUnique
<1> QED
  BY <1>3, <1>4

\* StageInv holds initially.
LEMMA StageInit ==
    ASSUME Init
    PROVE  StageInv
<1>1. Of(todo, {"crd"}) = ReadCRDFiles(files)
  BY DEF Init, Of, ReadCRDFiles
<1>2. IsFiniteSet(files)
  <2>1. PICK found \in FileSets : files = Decoded(found)
    BY DEF Init
  <2>2. files \subseteq found /\ IsFiniteSet(found)
    BY <2>1, FilesAssumption DEF Decoded
  <2> QED
    BY <2>2, FS_Subset
<1> QED
  BY <1>1, <1>2 DEF Init, StageInv, ReadResources

\* A step that goes on with the same roles, CRDs and resources preserves it.
LEMMA StageFrame ==
    ASSUME StageInv, UNCHANGED <<files, waiting>>, todo' \subseteq todo,
           Of(todo', RBACKinds) = {} \/ Of(todo', {"crd"}) = Of(todo, {"crd"})
    PROVE  StageInv'
<1>1. ReadCRDFiles(files') = ReadCRDFiles(files) /\ ReadResources' = ReadResources
  BY DEF ReadResources, ReadCRDFiles, Of, Resource, Earlier, Key
<1>2. /\ Of(todo', {"crd"}) \subseteq Of(todo, {"crd"})
      /\ Of(todo', RBACKinds) \subseteq Of(todo, RBACKinds)
  BY DEF Of
<1>3. Of(todo, {"crd"})' = Of(todo', {"crd"}) /\ Of(todo, RBACKinds)' = Of(todo', RBACKinds)
  BY DEF Of, RBACKinds
<1>4. ReadCRDFiles(files)' = ReadCRDFiles(files')
  BY DEF ReadCRDFiles, Of, Earlier, Key
<1> QED
  BY <1>1, <1>2, <1>3, <1>4 DEF StageInv

\* Every step preserves StageInv.
LEMMA StageStep ==
    ASSUME IInv, StageInv, [Next]_vars
    PROVE  StageInv'
<1>0. TypeOK /\ ProgressInv
  BY DEF IInv
<1>1. CASE UNCHANGED vars \/ Terminated
  BY <1>1, StageFrame DEF vars, Terminated
<1>2. ASSUME NEW a \in Assets, InstallRBAC(a)
      PROVE  StageInv'
  <2>1. ApiCall(a, ObjectIn(a), todo)
    BY <1>2 DEF InstallRBAC
  <2>2. todo' = todo /\ UNCHANGED <<files, waiting>>
    BY <1>0, <2>1, ObjectInType, ApiCallType
  <2> QED
    BY <2>2, StageFrame
<1>3. ASSUME NEW a \in Assets, WaitForObject(a)
      PROVE  StageInv'
  <2>1. created = a /\ todo' \in {todo, todo \ {a}} /\ UNCHANGED <<files, waiting>>
    BY <1>3 DEF WaitForObject
  <2>2. a.kind \in RBACKinds
    BY <1>0, <2>1, NilAssumption DEF ProgressInv
  <2>3. Of(todo', {"crd"}) = Of(todo, {"crd"})
    BY <2>1, <2>2 DEF Of, RBACKinds
  <2> QED
    BY <2>1, <2>3, StageFrame
<1>4. ASSUME NEW a \in Assets, CreateCRD(a)
      PROVE  StageInv'
  <2>1. ApiCall(a, CRDObject(a), todo \ {a}) /\ Of(todo, RBACKinds) = {}
    BY <1>4 DEF CreateCRD, CRDObject, At, Stage
  <2>2. todo' \subseteq todo /\ UNCHANGED <<files, waiting>>
    BY <1>0, <2>1, CRDObjectType, ApiCallType
  <2>3. Of(todo', RBACKinds) = {}
    BY <2>1, <2>2 DEF Of
  <2> QED
    BY <2>2, <2>3, StageFrame
<1>5. ASSUME NEW a \in Assets,
             \/ ApplyManifest(a) \/ SkipManifest(a) \/ Refused(a) \/ FetchFails(a)
             \/ LoadFilesFails(a)
      PROVE  StageInv'
  <2>1. todo' \subseteq todo /\ UNCHANGED <<files, waiting>> /\ Of(todo, RBACKinds) = {}
    BY <1>5 DEF ApplyManifest, SkipManifest, Refused, FetchFails, Skip, LoadFilesFails, At, Stage
  <2>2. Of(todo', RBACKinds) = {}
    BY <2>1 DEF Of
  <2> QED
    BY <2>1, <2>2, StageFrame
<1>6. CASE WaitTimesOut \/ Finish \/ Crash \/ Reset \/ (\E n \in Names : Establish(n))
  <2>1. UNCHANGED <<files, waiting, todo>>
    BY <1>6 DEF WaitTimesOut, Finish, Crash, Reset, Establish
  <2> QED
    BY <2>1, StageFrame
<1>7. ASSUME NEW r \in Resources, Poll(r)
      PROVE  StageInv'
  <2>1. /\ waiting' \subseteq waiting /\ UNCHANGED <<files, todo>>
        /\ Of(todo, {"crd"}) = {} /\ Of(todo, RBACKinds) = {}
    BY <1>7 DEF Poll, WaitsForCRDs, At, Stage
  <2> QED
    BY <2>1 DEF StageInv, ReadResources, ReadCRDFiles, Of, Resource, Earlier, Key
<1> QED
  BY <1>1, <1>2, <1>3, <1>4, <1>5, <1>6, <1>7 DEF Next, Step

-----------------------------------------------------------------------------
(***************************************************************************)
(* The steps of Bootstrap that steps of the loader are mapped to.          *)
(***************************************************************************)

\* The functions that B is given map the one node to a value.
LEMMA OnSeederFacts ==
    ASSUME NEW v, NEW w
    PROVE  OnSeeder(v)["seeder"] = v /\ [OnSeeder(v) EXCEPT !["seeder"] = w] = OnSeeder(w)
BY DEF OnSeeder

\* The mapping after a step is the mapping of what the step leads to.
LEMMA MappedNext ==
    /\ OnSeeder(SeederConfig(KindsFound))' = OnSeeder(SeederConfig(KindsFound'))
    /\ OnSeeder(SeederPc)' = OnSeeder(SeederPc')
    /\ OnSeeder(SeederHost)' = OnSeeder(SeederHost')
    /\ OnSeeder(serving)' = OnSeeder(serving')
    /\ OnSeeder(SeederObjs)' = OnSeeder(SeederObjs')
    /\ OnSeeder("none")' = OnSeeder("none")
BY DEF OnSeeder, SeederConfig

\* What Bootstrap reads of the configuration.
LEMMA ConfigFacts ==
    /\ OnSeeder(SeederConfig(KindsFound))["seeder"].files = KindsFound
    /\ OnSeeder(SeederConfig(KindsFound))["seeder"].valid
    /\ OnSeeder(SeederConfig(KindsFound))["seeder"].block
<1>1. OnSeeder(SeederConfig(KindsFound))["seeder"] = SeederConfig(KindsFound)
  BY OnSeederFacts
<1>2. SeederConfig(KindsFound).files = KindsFound
  BY DEF SeederConfig
<1>3. SeederConfig(KindsFound).valid
  BY DEF SeederConfig
<1>4. SeederConfig(KindsFound).block
  BY DEF SeederConfig
<1> QED
  BY <1>1, <1>2, <1>3, <1>4

\* A call of Bootstrap that succeeds.
LEMMA CallMaps ==
    ASSUME NEW after, NEW next, serving, SeederPc' = next, SeederObjs' = after,
           KindsFound' = KindsFound, SeederHost' = SeederHost,
           UNCHANGED <<serving, faults, resets>>
    PROVE  B!ApiCall("seeder", SeederPc, after, next)
<1>1. OnSeeder(serving)["seeder"] /\ OnSeeder(SeederPc)["seeder"] = SeederPc
  BY OnSeederFacts
<1>2. OnSeeder(SeederPc)' = [OnSeeder(SeederPc) EXCEPT !["seeder"] = next]
  BY OnSeederFacts, MappedNext
<1>3. OnSeeder(SeederObjs)' = [OnSeeder(SeederObjs) EXCEPT !["seeder"] = after]
  BY OnSeederFacts, MappedNext
<1>4. UNCHANGED <<OnSeeder(SeederConfig(KindsFound)), OnSeeder(SeederHost), OnSeeder(serving),
                  OnSeeder("none"), faults, resets>>
  BY MappedNext
<1> QED
  BY <1>1, <1>2, <1>3, <1>4 DEF B!ApiCall, B!Goto

\* Where the process is in Bootstrap.
LEMMA StageType ==
    /\ Stage \in {"rbac", "crds", "manifests"}
    /\ pc = "run" => SeederPc = Stage
    /\ pc = "done" => SeederPc = "block"
    /\ pc = "failed" => SeederPc = "failed"
    /\ pc' = "run" => SeederPc' = Stage'
    /\ pc' = "done" => SeederPc' = "block"
    /\ pc' = "failed" => SeederPc' = "failed"
BY DEF Stage, SeederPc

\* The assets that are there, and those that are done before the manifests, only
\* depend on the files and the stage.
LEMMA KindsUnchanged ==
    ASSUME files' = files
    PROVE  /\ KindsFound' = KindsFound
           /\ Stage' = Stage /\ (pc' = "done" <=> pc = "done") => KindsDone' = KindsDone
<1>1. KindsFound' = KindsFound
  BY DEF KindsFound, KindsOf, Of, RBACKinds, ManifestKinds
<1> QED
  BY <1>1 DEF KindsDone

\* A step within a stage is no step of Bootstrap.
LEMMA Stutters ==
    ASSUME UNCHANGED <<files, pc, serving, faults, resets>>, Stage' = Stage
    PROVE  UNCHANGED B!vars
<1>1. KindsFound' = KindsFound /\ KindsDone' = KindsDone
  BY KindsUnchanged
<1>2. SeederPc' = SeederPc /\ SeederHost' = SeederHost /\ SeederObjs' = SeederObjs
  BY <1>1 DEF SeederPc, SeederHost, SeederObjs, BeforeAssets
<1> QED
  BY <1>1, <1>2, MappedNext DEF B!vars

\* A fault that ends the process is a crash of Bootstrap: the stage that was
\* under way has not happened.
LEMMA FaultMaps ==
    ASSUME pc = "run", pc' = "failed", Fault, UNCHANGED <<files, serving, resets>>,
           Stage' = Stage
    PROVE  B!Next
<1>1. KindsFound' = KindsFound /\ KindsDone' = KindsDone
  BY KindsUnchanged
<1>2. SeederHost' = SeederHost /\ SeederObjs' = SeederObjs
  BY <1>1 DEF SeederHost, SeederObjs, BeforeAssets
<1>3. SeederPc \in B!Running /\ SeederPc' = "failed"
  BY StageType DEF B!Running, B!ApiCalls
<1>4. B!Crash("seeder")
  BY <1>1, <1>2, <1>3, OnSeederFacts, MappedNext DEF B!Crash, B!Fault, B!Goto, Fault
<1> QED
  BY <1>4 DEF B!Next

\* Without an API server a call for roles or CRDs fails, as it does in Bootstrap.
LEMMA NoServerMaps ==
    ASSUME pc = "run", Stage \in {"rbac", "crds"}, ~serving, pc' = "failed",
           UNCHANGED <<files, serving, faults, resets>>, Stage' = Stage
    PROVE  B!Next
<1>1. KindsFound' = KindsFound /\ KindsDone' = KindsDone
  BY KindsUnchanged
<1>2. SeederHost' = SeederHost /\ SeederObjs' = SeederObjs
  BY <1>1 DEF SeederHost, SeederObjs, BeforeAssets
<1>3. SeederPc = Stage /\ SeederPc' = "failed"
  BY StageType
<1>4. ASSUME NEW after, NEW next
      PROVE  B!ApiCall("seeder", Stage, after, next)
  BY <1>1, <1>2, <1>3, OnSeederFacts, MappedNext DEF B!ApiCall, B!Goto
<1>5. B!InstallRBAC("seeder") \/ B!InstallCRDs("seeder")
  BY <1>4 DEF B!InstallRBAC, B!InstallCRDs, B!CreateOrUpdate
<1> QED
  BY <1>5 DEF B!Next, B!Step, B!SeederStep

\* The last role or binding ends the step of Bootstrap for them.
LEMMA RBACEnds ==
    ASSUME TypeOK, StageInv, pc = "run", serving, Stage = "rbac", Stage' # "rbac",
           Of(todo', {"crd"}) = Of(todo, {"crd"}),
           UNCHANGED <<files, pc, waiting, serving, faults, resets>>
    PROVE  B!Next
<1>1. KindsFound' = KindsFound
  BY KindsUnchanged
<1>2. "crds" \in KindsFound <=> Of(files, {"crd"}) # {}
  BY DEF KindsFound, KindsOf, AssetKinds
<1>3. Of(todo, RBACKinds) # {}
  BY DEF Stage
<1>4. Of(todo, {"crd"}) = ReadCRDFiles(files) /\ waiting \subseteq ReadResources
  BY <1>3 DEF StageInv
<1>5. "rbac" \in KindsFound
  BY <1>3 DEF KindsFound, KindsOf, AssetKinds, Of, TypeOK
<1>6. Stage' = IF "crds" \in KindsFound THEN "crds" ELSE "manifests"
  <2>1. Stage' = IF Of(todo', {"crd"}) # {} \/ waiting' # {} THEN "crds" ELSE "manifests"
    BY DEF Stage, Of, RBACKinds
  <2>2. CASE Of(files, {"crd"}) # {}
    <3>1. ReadCRDFiles(files) # {}
      BY <2>2, OneCRDPerName DEF TypeOK, StageInv
    <3> QED
      BY <1>2, <1>4, <2>1, <2>2, <3>1
  <2>3. CASE Of(files, {"crd"}) = {}
    <3>1. ReadCRDFiles(files) = {} /\ ReadResources = {}
      BY <2>3 DEF ReadCRDFiles, ReadResources
    <3> QED
      BY <1>2, <1>4, <2>1, <2>3, <3>1
  <2> QED
    BY <2>2, <2>3
<1>7. KindsDone' = KindsDone \cup {"rbac"}
  <2>1. KindsDone = {}
    BY DEF KindsDone
  <2>2. KindsDone' = {"rbac"}
    BY <1>1, <1>5, <1>6 DEF KindsDone
  <2> QED
    BY <2>1, <2>2
<1>8. SeederHost' = SeederHost /\ SeederObjs' = SeederObjs \cup {"rbac"}
  BY <1>7 DEF SeederHost, SeederObjs, BeforeAssets
<1>9. SeederPc = "rbac" /\ SeederPc' = Stage'
  BY StageType
<1>10. B!AfterRBAC("seeder") = Stage'
  BY <1>6, ConfigFacts DEF B!AfterRBAC
<1>11. B!ApiCall("seeder", "rbac", SeederObjs \cup {"rbac"}, Stage')
  BY <1>1, <1>8, <1>9, CallMaps
<1>12. B!InstallRBAC("seeder")
  BY <1>10, <1>11, OnSeederFacts DEF B!InstallRBAC, B!CreateOrUpdate
<1> QED
  BY <1>12 DEF B!Next, B!Step, B!SeederStep

\* The end of the wait for the CRDs ends the step of Bootstrap for them.
LEMMA CRDsEnd ==
    ASSUME TypeOK, StageInv, pc = "run", serving, Stage = "crds", Stage' = "manifests",
           UNCHANGED <<files, pc, serving, faults, resets>>
    PROVE  B!Next
<1>1. KindsFound' = KindsFound
  BY KindsUnchanged
<1>2. "crds" \in KindsFound
  <2>1. Of(todo, {"crd"}) # {} \/ waiting # {}
    BY DEF Stage
  <2>2. Of(files, {"crd"}) # {}
    BY <2>1 DEF StageInv, ReadResources, ReadCRDFiles, Of, TypeOK
  <2> QED
    BY <2>2 DEF KindsFound, KindsOf, AssetKinds
<1>3. KindsDone' = KindsDone \cup {"crds"}
  BY <1>1, <1>2 DEF KindsDone
<1>4. SeederHost' = SeederHost /\ SeederObjs' = SeederObjs \cup {"crds"}
  BY <1>3 DEF SeederHost, SeederObjs, BeforeAssets
<1>5. SeederPc = "crds" /\ SeederPc' = "manifests"
  BY StageType
<1>6. B!ApiCall("seeder", "crds", SeederObjs \cup {"crds"}, "manifests")
  BY <1>1, <1>4, <1>5, CallMaps
<1>7. B!InstallCRDs("seeder")
  BY <1>6, OnSeederFacts DEF B!InstallCRDs, B!CreateOrUpdate
<1> QED
  BY <1>7 DEF B!Next, B!Step, B!SeederStep

\* The return of InstallAllAssets is Bootstrap's step for the manifests.
LEMMA FinishMaps ==
    ASSUME TypeOK, Finish
    PROVE  B!Next
<1>1. /\ pc = "run" /\ pc' = "done" /\ Stage = "manifests"
      /\ UNCHANGED <<files, todo, waiting, serving, faults, resets>>
  BY DEF Finish, At
<1>2. KindsFound' = KindsFound /\ Stage' = Stage
  BY <1>1, KindsUnchanged DEF Stage, Of, RBACKinds
<1>3. KindsDone' = IF "manifests" \in KindsFound THEN KindsDone \cup {"manifests"} ELSE KindsDone
  BY <1>1, <1>2 DEF KindsDone
<1>4. SeederHost' = SeederHost
  BY <1>1 DEF SeederHost
<1>5. SeederPc = "manifests" /\ SeederPc' = "block"
  BY <1>1, StageType
<1>6. B!AtEnd("seeder") = "block"
  BY ConfigFacts DEF B!AtEnd
<1>7. OnSeeder(SeederConfig(KindsFound))["seeder"].files = KindsFound
  BY ConfigFacts
<1>8. CASE serving /\ "manifests" \in KindsFound
  <2>1. SeederObjs' = SeederObjs \cup {"manifests"}
    BY <1>1, <1>3, <1>8 DEF SeederObjs, BeforeAssets
  <2>2. B!InstallManifests("seeder")
    BY <1>1, <1>2, <1>4, <1>5, <1>6, <1>7, <1>8, <2>1, OnSeederFacts, MappedNext
       DEF B!InstallManifests, B!Goto
  <2> QED
    BY <2>2 DEF B!Next, B!Step, B!SeederStep
<1>9. CASE ~(serving /\ "manifests" \in KindsFound)
  <2>1. SeederObjs' = SeederObjs
    BY <1>1, <1>3, <1>9 DEF SeederObjs, BeforeAssets
  <2>2. B!InstallManifests("seeder")
    BY <1>1, <1>2, <1>4, <1>5, <1>6, <2>1, OnSeederFacts, MappedNext
       DEF B!InstallManifests, B!Goto
  <2> QED
    BY <2>2 DEF B!Next, B!Step, B!SeederStep
<1> QED
  BY <1>8, <1>9

\* A reset of the host is one in Bootstrap.
LEMMA ResetMaps ==
    ASSUME TypeOK, Reset
    PROVE  B!Next
<1>1. /\ resets < MaxResets /\ resets' = resets + 1 /\ ~serving' /\ serving' = FALSE
      /\ UNCHANGED <<files, pc, todo, waiting, faults>>
  BY DEF Reset
<1>2. KindsFound' = KindsFound /\ Stage' = Stage
  BY <1>1, KindsUnchanged DEF Stage, Of, RBACKinds
<1>3. SeederHost' = "clean" /\ SeederObjs' = {} /\ SeederPc' = SeederPc
  BY <1>1, <1>2 DEF SeederHost, SeederObjs, SeederPc
<1>4. SeederPc \notin B!KubeadmRuns
  BY StageType DEF B!KubeadmRuns, B!KubeadmInit, SeederPc
<1>5. OnSeeder(SeederConfig(KindsFound))["seeder"].valid
  BY ConfigFacts
<1>6. OnSeeder("none") = [m \in {"seeder"} |-> IF B!SeederOf(m) = "seeder" THEN "none"
                                               ELSE OnSeeder("none")[m]]
  BY DEF OnSeeder
<1>7. B!NewReset("seeder")
  BY <1>1, <1>2, <1>3, <1>4, <1>5, <1>6, OnSeederFacts, MappedNext DEF B!NewReset
<1> QED
  BY <1>7 DEF B!Next

\* What the stage is after a step.
LEMMA StageNext ==
    /\ UNCHANGED <<todo, waiting>> => Stage' = Stage
    /\ Stage' = IF Of(todo', RBACKinds) # {} THEN "rbac"
                ELSE IF Of(todo', {"crd"}) # {} \/ waiting' # {} THEN "crds" ELSE "manifests"
BY DEF Stage, Of, RBACKinds

\* Every step of the loader is a step of Bootstrap, or none.
LEMMA BootstrapStep ==
    ASSUME IInv, StageInv, [Next]_vars
    PROVE  (WaitTimesOut /\ Conflict) \/ B!Next \/ UNCHANGED B!vars
<1>0. TypeOK /\ ProgressInv
  BY DEF IInv
<1>1. CASE UNCHANGED vars \/ Terminated
  BY <1>1, Stutters, StageNext DEF vars, Terminated
<1>2. ASSUME NEW a, NEW obj, NEW rest, ApiCall(a, obj, rest), pc = "run",
             Stage \in {"rbac", "crds"}, todo' = rest => Stage' = Stage
      PROVE  B!Next \/ UNCHANGED B!vars
  <2>1. CASE serving /\ todo' = rest /\ UNCHANGED <<pc, faults>>
    BY <1>2, <2>1, Stutters DEF ApiCall
  <2>2. CASE serving /\ Fault /\ pc' = "failed" /\ todo' = todo
    BY <1>2, <2>2, FaultMaps, StageNext DEF ApiCall
  <2>3. CASE ~serving /\ pc' = "failed" /\ UNCHANGED <<todo, faults>>
    BY <1>2, <2>3, NoServerMaps, StageNext DEF ApiCall
  <2> QED
    BY <1>2, <2>1, <2>2, <2>3 DEF ApiCall
<1>3. ASSUME NEW a \in Assets, InstallRBAC(a)
      PROVE  B!Next \/ UNCHANGED B!vars
  <2>1. ApiCall(a, ObjectIn(a), todo) /\ pc = "run" /\ Stage = "rbac"
    BY <1>3 DEF InstallRBAC, At
  <2>2. todo' = todo => Stage' = Stage
    BY <2>1, StageNext DEF ApiCall
  <2> QED
    BY <1>2, <2>1, <2>2
<1>4. ASSUME NEW a \in Assets, WaitForObject(a)
      PROVE  B!Next \/ UNCHANGED B!vars
  <2>1. /\ pc = "run" /\ Stage = "rbac" /\ created = a
        /\ UNCHANGED <<files, waiting, serving, resets>>
    BY <1>4 DEF WaitForObject, At
  <2>2. CASE serving /\ todo' = todo \ {a} /\ UNCHANGED <<pc, faults>>
    <3>1. a.kind \in RBACKinds
      BY <1>0, <2>1, NilAssumption DEF ProgressInv
    <3>2. Of(todo', {"crd"}) = Of(todo, {"crd"})
      BY <2>2, <3>1 DEF Of, RBACKinds
    <3> QED
      BY <1>0, <2>1, <2>2, <3>2, Stutters, RBACEnds
  <2>3. CASE serving /\ Fault /\ pc' = "failed" /\ todo' = todo
    BY <2>1, <2>3, FaultMaps, StageNext
  <2>4. CASE ~serving /\ pc' = "failed" /\ UNCHANGED <<todo, faults>>
    BY <2>1, <2>4, NoServerMaps, StageNext
  <2> QED
    BY <1>4, <2>2, <2>3, <2>4 DEF WaitForObject
<1>5. ASSUME NEW a \in Assets, CreateCRD(a)
      PROVE  B!Next \/ UNCHANGED B!vars
  <2>1. /\ ApiCall(a, CRDObject(a), todo \ {a}) /\ pc = "run" /\ Stage = "crds"
        /\ a \in Of(todo, {"crd"})
    BY <1>5 DEF CreateCRD, CRDObject, At
  <2>2. Of(todo, RBACKinds) = {}
    BY <2>1 DEF Stage
  <2>3. waiting # {}
    BY <1>0, <2>1 DEF StageInv, ReadResources, ProgressInv
  <2>4. todo' = todo \ {a} => Stage' = "crds"
    <3>1. waiting' = waiting
      BY <2>1 DEF ApiCall
    <3> QED
      BY <2>2, <2>3, <3>1, StageNext DEF Of
  <2> QED
    BY <1>2, <2>1, <2>4
<1>6. ASSUME NEW a \in Assets,
             ApplyManifest(a) \/ SkipManifest(a) \/ Refused(a) \/ FetchFails(a)
      PROVE  UNCHANGED B!vars
  <2>1. /\ Stage = "manifests" /\ todo' \subseteq todo
        /\ UNCHANGED <<files, pc, waiting, serving, faults, resets>>
    BY <1>6 DEF ApplyManifest, SkipManifest, Refused, FetchFails, Skip, At
  <2>2. Of(todo, RBACKinds) = {} /\ Of(todo, {"crd"}) = {} /\ waiting = {}
    BY <2>1 DEF Stage
  <2>3. Of(todo', RBACKinds) = {} /\ Of(todo', {"crd"}) = {}
    BY <2>1, <2>2 DEF Of
  <2> QED
    BY <2>1, <2>2, <2>3, StageNext, Stutters
<1>7. CASE Crash \/ (\E a \in Assets : LoadFilesFails(a))
  <2>1. /\ pc = "run" /\ Fault /\ pc' = "failed"
        /\ UNCHANGED <<files, todo, waiting, serving, resets>>
    BY <1>7 DEF Crash, LoadFilesFails, At
  <2> QED
    BY <2>1, FaultMaps, StageNext
<1>8. CASE WaitTimesOut
  <2>1. /\ pc = "run" /\ Stage = "crds" /\ pc' = "failed"
        /\ UNCHANGED <<files, todo, waiting, serving, resets>>
        /\ Fault \/ ((~serving \/ Conflict) /\ UNCHANGED faults)
    BY <1>8 DEF WaitTimesOut, WaitsForCRDs, At
  <2> QED
    BY <1>8, <2>1, FaultMaps, NoServerMaps, StageNext
<1>9. ASSUME NEW r \in Resources, Poll(r)
      PROVE  B!Next \/ UNCHANGED B!vars
  <2>1. /\ pc = "run" /\ Stage = "crds" /\ serving /\ Of(todo, {"crd"}) = {}
        /\ UNCHANGED <<files, pc, todo, serving, faults, resets>>
    BY <1>9 DEF Poll, WaitsForCRDs, At
  <2>2. Of(todo, RBACKinds) = {}
    BY <2>1 DEF Stage
  <2>3. Stage' \in {"crds", "manifests"}
    BY <2>1, <2>2, StageNext
  <2> QED
    BY <1>0, <2>1, <2>3, Stutters, CRDsEnd
<1>10. CASE \E n \in Names : Establish(n)
  <2>1. UNCHANGED <<files, pc, todo, waiting, serving, faults, resets>>
    BY <1>10 DEF Establish
  <2> QED
    BY <2>1, Stutters, StageNext
<1> QED
  BY <1>0, <1>1, <1>3, <1>4, <1>5, <1>6, <1>7, <1>8, <1>9, <1>10, FinishMaps, ResetMaps
     DEF Next, Step

\* InstallAllAssets, file by file, with lost answers, slow CRDs, refused manifests
\* and resets at any moment, does what Bootstrap says of it: each stage happens as
\* one call, at its end, or not at all.
THEOREM Refinement == Spec => ImplementsBootstrap
<1>1. Init => StageInv
  BY StageInit
<1>2. IInv /\ StageInv /\ [Next]_vars => StageInv'
  BY StageStep
<1>3. IInv /\ StageInv /\ [Next]_vars => [(WaitTimesOut /\ Conflict) \/ B!Next]_(B!vars)
  BY BootstrapStep
<1> QED
  BY <1>1, <1>2, <1>3, Invariance, PTL DEF Spec, ImplementsBootstrap
=============================================================================
