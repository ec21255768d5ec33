-------------------------- MODULE KubicConfigProofs --------------------------
(***************************************************************************)
(* Proofs about KubicConfig, for any files, environments and lists of      *)
(* --var arguments.                                                        *)
(***************************************************************************)
EXTENDS KubicConfig, TLAPS

InputInv ==
    /\ file \in Files
    /\ seederEnv \in Seeders
    /\ tokenEnv \in Strings \cup {"", Unset}
    /\ vars \in VarLists

\* What the file and the defaults say of a field.
InFile(f) ==
    IF file.kind = "yaml" /\ YamlKey[f] \in DOMAIN file.doc
    THEN file.doc[YamlKey[f]] ELSE defaultConfiguration[f]

\* Precedence among the sources and the first k arguments.
SetBy(f, k) == {i \in Setting(f) : i <= k}

Reformatted(f) == IF f = "seeder" THEN Reformat(Configured(f)) ELSE Configured(f)

PrecedenceUpTo(f, k) ==
    IF SetBy(f, k) # {}
    THEN \E i \in SetBy(f, k) : /\ \A j \in SetBy(f, k) : j <= i
                                /\ cfg[f] = vars[i].set[f]
    ELSE cfg[f] = Reformatted(f)

\* Each step of the load leaves every field as the sources read so far say.
SourcesInv ==
    /\ pc = "file" => cfg = defaultConfiguration
    /\ pc = "env" => \A f \in Fields : cfg[f] = InFile(f)
    /\ pc = "reformat" => \A f \in Fields : cfg[f] = Configured(f)
    /\ pc \in {"vars", "done"} =>
           /\ \A f \in Fields : PrecedenceUpTo(f, next - 1)
           /\ ~ParseFails(Configured("seeder"))
    /\ pc \in {"file", "env", "reformat"} => next = 1
    /\ pc = "done" => next = Len(vars) + 1

IInv == InputInv /\ TypeOK /\ SourcesInv

-----------------------------------------------------------------------------
\* The defaults are for the fields, and have their types.
LEMMA DefaultType ==
    /\ DOMAIN defaultConfiguration = Fields
    /\ \A f \in Fields : defaultConfiguration[f] \in FieldType(f)
<1>1. DOMAIN defaultConfiguration = Fields
  BY DEF defaultConfiguration, Fields, ClusterFormation, Cni
<1>3. /\ defaultConfiguration["seeder"] = EmptyAddress
      /\ defaultConfiguration["autoApprove"] \in BOOLEAN
      /\ defaultConfiguration["PSP"] \in BOOLEAN
  BY DEF defaultConfiguration
<1>4. EmptyAddress \in Addresses
  BY DEF EmptyAddress, Addresses
<1>5. \A f \in Fields : defaultConfiguration[f] \in FieldType(f)
  BY <1>3, <1>4 DEF FieldType
<1> QED
  BY <1>1, <1>5

\* Reformatting makes an address of an address.
LEMMA ReformatType ==
    ASSUME NEW a \in Addresses
    PROVE  Reformat(a) \in Addresses
BY DEF Addresses, Reformat, Endpoint, Hostname, Port

\* The parts of a reformatted address.
LEMMA EndpointParts ==
    ASSUME NEW a
    PROVE  /\ Endpoint(a).scheme = "" /\ Endpoint(a).host = Hostname(a)
           /\ Endpoint(a).port = IF Port(a) = NoPort THEN APIPort ELSE Port(a)
           /\ Endpoint(a).port # NoPort
<1>1. Endpoint(a).scheme = ""
  BY DEF Endpoint
<1>2. Endpoint(a).host = Hostname(a)
  BY DEF Endpoint
<1>3. Endpoint(a).port = IF Port(a) = NoPort THEN APIPort ELSE Port(a)
  BY DEF Endpoint
<1>4. APIPort # NoPort
  BY DEF APIPort, NoPort
<1> QED
  BY <1>1, <1>2, <1>3, <1>4

\* The environment comes before the file.
LEMMA ConfiguredCases ==
    \A f : Configured(f) = IF f = "seeder" /\ seederEnv.set THEN seederEnv.value
                           ELSE IF f = "token" /\ tokenEnv # Unset THEN tokenEnv
                           ELSE InFile(f)
BY DEF Configured, InFile

\* Initially.
LEMMA InitInv ==
    ASSUME Init
    PROVE  IInv
<1>1. InputInv
  BY DEF Init, InputInv
<1>2. Len(vars) \in Nat
  BY <1>1, VarListsAssumption DEF InputInv
<1>3. DOMAIN cfg = Fields
  BY DefaultType DEF Init
<1>4. next = 1 /\ pc = "file" /\ cfg = defaultConfiguration
  BY DEF Init
<1>5. next \in 1 .. Len(vars) + 1
  BY <1>2, <1>4
<1>6. TypeOK
  BY <1>3, <1>4, <1>5, DefaultType DEF TypeOK
<1> QED
  BY <1>1, <1>4, <1>6 DEF IInv, SourcesInv

\* The file overrides the defaults.
LEMMA ReadFileStep ==
    ASSUME IInv, ReadFile
    PROVE  IInv'
<1>1. InputInv'
  BY DEF IInv, InputInv, ReadFile, inputs
<1>2. CASE file.kind = "yaml"
  <2>1. /\ cfg' = Unmarshal(cfg, file.doc) /\ pc' = "env" /\ next' = next
        /\ UNCHANGED inputs /\ cfg = defaultConfiguration /\ next = 1
    BY <1>2 DEF IInv, SourcesInv, ReadFile
  <2>2. \A f \in Fields : cfg'[f] = InFile(f)
    BY <1>2, <2>1 DEF Unmarshal, InFile
  <2>3. \A f \in Fields : cfg'[f] \in FieldType(f)
    BY <1>2, <2>2, DefaultType, FilesAssumption DEF IInv, InputInv, InFile
  <2>4. DOMAIN cfg' = Fields
    BY <2>1 DEF Unmarshal
  <2>5. TypeOK'
    BY <2>1, <2>3, <2>4 DEF IInv, TypeOK, inputs
  <2>6. SourcesInv'
    BY <2>1, <2>2 DEF SourcesInv, InFile, inputs
  <2> QED
    BY <1>1, <2>5, <2>6 DEF IInv
<1>3. CASE file.kind # "yaml"
  <2>1. /\ cfg' = cfg /\ pc' \in {"env", "error"} /\ next' = next
        /\ UNCHANGED inputs /\ cfg = defaultConfiguration /\ next = 1
    BY <1>3 DEF IInv, SourcesInv, ReadFile
  <2>2. TypeOK'
    BY <2>1 DEF IInv, TypeOK, inputs
  <2>3. SourcesInv'
    BY <1>3, <2>1 DEF SourcesInv, InFile, inputs
  <2> QED
    BY <1>1, <2>2, <2>3 DEF IInv
<1> QED
  BY <1>2, <1>3

\* The environment overrides the file.
LEMMA ReadEnvStep ==
    ASSUME IInv, ReadEnv
    PROVE  IInv'
<1>0. /\ pc = "env" /\ pc' = "reformat" /\ next' = next /\ next = 1 /\ UNCHANGED inputs
      /\ \A f \in Fields : cfg[f] = InFile(f) /\ cfg[f] \in FieldType(f)
      /\ DOMAIN cfg = Fields
      /\ "seeder" \in Fields /\ "token" \in Fields
  BY DEF IInv, SourcesInv, TypeOK, ReadEnv, Fields, ClusterFormation
<1>1. InputInv'
  BY <1>0 DEF IInv, InputInv, inputs
<1>2. cfg' = [cfg EXCEPT !["seeder"] = IF seederEnv.set THEN seederEnv.value ELSE @,
                         !["token"] = IF tokenEnv # Unset THEN tokenEnv ELSE @]
  BY DEF ReadEnv
<1>3. DOMAIN cfg' = Fields
  BY <1>0, <1>2
<1>4. ASSUME NEW f \in Fields
      PROVE  cfg'[f] = Configured(f)
  BY <1>0, <1>2, ConfiguredCases
<1>5. ASSUME NEW f \in Fields
      PROVE  cfg'[f] \in FieldType(f)
  BY <1>0, <1>4, ConfiguredCases, SeedersAssumption DEF IInv, InputInv, FieldType
<1>6. TypeOK'
  BY <1>0, <1>3, <1>5 DEF IInv, TypeOK, inputs
<1>7. SourcesInv'
  BY <1>0, <1>4 DEF SourcesInv, Configured, inputs
<1> QED
  BY <1>1, <1>6, <1>7 DEF IInv

\* The seeder is brought into its form.
LEMMA ReformatStep ==
    ASSUME IInv, ReformatSeeder
    PROVE  IInv'
<1>0. /\ pc = "reformat" /\ next' = next /\ next = 1 /\ UNCHANGED inputs
      /\ \A f \in Fields : cfg[f] = Configured(f) /\ cfg[f] \in FieldType(f)
      /\ DOMAIN cfg = Fields /\ "seeder" \in Fields
  BY DEF IInv, SourcesInv, TypeOK, ReformatSeeder, Fields, ClusterFormation
<1>1. InputInv'
  BY <1>0 DEF IInv, InputInv, inputs
<1>2. CASE ParseFails(cfg.seeder)
  <2>1. pc' = "error" /\ cfg' = cfg
    BY <1>2 DEF ReformatSeeder
  <2>2. TypeOK'
    BY <1>0, <2>1 DEF IInv, TypeOK, inputs
  <2>3. SourcesInv'
    BY <2>1 DEF SourcesInv
  <2> QED
    BY <1>1, <2>2, <2>3 DEF IInv
<1>3. CASE ~ParseFails(cfg.seeder)
  <2>1. /\ pc' = "vars"
        /\ cfg' = [cfg EXCEPT !["seeder"] = Reformat(cfg["seeder"])]
    BY <1>3 DEF ReformatSeeder
  <2>2. DOMAIN cfg' = Fields
    BY <1>0, <2>1
  <2>3. \A f \in Fields : cfg'[f] = Reformatted(f)
    BY <1>0, <2>1 DEF Reformatted
  <2>4. Reformat(cfg["seeder"]) \in FieldType("seeder")
    BY <1>0, ReformatType DEF FieldType
  <2>5. TypeOK'
    BY <1>0, <2>1, <2>2, <2>4 DEF IInv, TypeOK, inputs
  <2>6. \A f \in Fields : SetBy(f, 0) = {}
    BY DEF SetBy, Setting
  <2>7. SourcesInv'
    <3>1. \A f \in Fields : PrecedenceUpTo(f, next - 1)'
      BY <1>0, <2>3, <2>6
         DEF PrecedenceUpTo, SetBy, Setting, Reformatted, Configured, inputs
    <3>2. ~ParseFails(Configured("seeder"))'
      BY <1>0, <1>3 DEF Configured, inputs
    <3> QED
      BY <2>1, <3>1, <3>2 DEF SourcesInv
  <2> QED
    BY <1>1, <2>5, <2>7 DEF IInv
<1> QED
  BY <1>2, <1>3

\* A --var overrides everything before it.
LEMMA SetVarStep ==
    ASSUME IInv, SetVar
    PROVE  IInv'
<1>a. Len(vars) \in Nat
  BY VarListsAssumption DEF IInv, InputInv
<1>b. next \in 1 .. Len(vars) + 1 /\ next <= Len(vars)
  BY DEF IInv, TypeOK, SetVar
<1>c. next \in 1 .. Len(vars)
  BY <1>a, <1>b
<1>0. /\ pc = "vars" /\ UNCHANGED inputs /\ vars \in VarLists
      /\ \A f \in Fields : PrecedenceUpTo(f, next - 1) /\ cfg[f] \in FieldType(f)
      /\ ~ParseFails(Configured("seeder"))
  BY DEF IInv, InputInv, SourcesInv, TypeOK, SetVar
<1>1. InputInv'
  BY <1>0 DEF IInv, InputInv, inputs
<1>2. CASE ~Assignment(vars[next])
  <2>1. pc' = "error" /\ cfg' = cfg /\ next' = next
    BY <1>2 DEF SetVar
  <2>2. TypeOK'
    BY <1>0, <1>a, <1>c, <2>1 DEF IInv, TypeOK, inputs
  <2>3. SourcesInv'
    BY <2>1 DEF SourcesInv
  <2> QED
    BY <1>1, <2>2, <2>3 DEF IInv
<1>3. CASE Assignment(vars[next])
  <2>1. pc' = pc /\ cfg' = Assign(vars[next]) /\ next' = next + 1
    BY <1>3 DEF SetVar
  <2>2. ASSUME NEW f \in Fields
        PROVE  cfg'[f] \in FieldType(f)
    BY <1>0, <1>a, <1>c, <2>1, VarListsAssumption DEF Assign
  <2>3. TypeOK'
    BY <1>0, <1>a, <1>c, <2>1, <2>2 DEF IInv, TypeOK, Assign, inputs
  <2>4. ASSUME NEW f \in Fields
        PROVE  PrecedenceUpTo(f, next - 1)'
    <3>1. CASE f \in DOMAIN vars[next].set
      <4>1. next \in SetBy(f, next) /\ \A j \in SetBy(f, next) : j <= next
        BY <1>0, <1>a, <1>c, <3>1 DEF SetBy, Setting
      <4>2. cfg'[f] = vars[next].set[f]
        BY <2>1, <3>1 DEF Assign
      <4> QED
        BY <1>0, <1>a, <1>c, <2>1, <4>1, <4>2
           DEF PrecedenceUpTo, SetBy, Setting, inputs
    <3>2. CASE f \notin DOMAIN vars[next].set
      <4>1. SetBy(f, next) = SetBy(f, next - 1)
        BY <1>0, <1>a, <1>c, <3>2 DEF SetBy, Setting
      <4>2. cfg'[f] = cfg[f]
        BY <2>1, <3>2 DEF Assign
      <4>3. next' - 1 = next
        BY <1>0, <1>a, <1>c, <2>1
      <4> QED
        BY <1>0, <1>a, <1>c, <4>1, <4>2, <4>3
           DEF PrecedenceUpTo, SetBy, Setting, Reformatted, Configured, inputs
    <3> QED
      BY <3>1, <3>2
  <2>5. ~ParseFails(Configured("seeder"))'
    BY <1>0 DEF Configured, inputs
  <2>6. SourcesInv'
    BY <1>0, <1>a, <1>c, <2>1, <2>4, <2>5 DEF SourcesInv
  <2> QED
    BY <1>1, <2>3, <2>6 DEF IInv
<1> QED
  BY <1>2, <1>3

\* The end of the load.
LEMMA DoneStep ==
    ASSUME IInv, VarsDone \/ UNCHANGED allvars
    PROVE  IInv'
<1>1. CASE VarsDone
  <2>a. Len(vars) \in Nat
    BY VarListsAssumption DEF IInv, InputInv
  <2>b. next \in 1 .. Len(vars) + 1 /\ next > Len(vars)
    BY <1>1 DEF IInv, TypeOK, VarsDone
  <2>c. next = Len(vars) + 1
    BY <2>a, <2>b
  <2>0. /\ pc = "vars" /\ pc' = "done" /\ UNCHANGED <<inputs, next, cfg>>
        /\ next = Len(vars) + 1
    BY <1>1, <2>c DEF VarsDone
  <2>1. InputInv' /\ TypeOK'
    BY <2>0 DEF IInv, InputInv, TypeOK, inputs
  <2>2. SourcesInv'
    BY <2>0 DEF IInv, SourcesInv, PrecedenceUpTo, SetBy, Setting, Reformatted, Configured,
                inputs
  <2> QED
    BY <2>1, <2>2 DEF IInv
<1>2. CASE UNCHANGED allvars
  BY <1>2 DEF IInv, InputInv, TypeOK, SourcesInv, PrecedenceUpTo, SetBy, Setting, Reformatted,
              Configured, InFile, allvars
<1> QED
  BY <1>1, <1>2

-----------------------------------------------------------------------------
\* The invariant holds in every state of every load.
THEOREM Invariance == Spec => []IInv
<1>1. Init => IInv
  BY InitInv
<1>2. IInv /\ [Next]_allvars => IInv'
  BY ReadFileStep, ReadEnvStep, ReformatStep, SetVarStep, DoneStep DEF Next, Finished
<1> QED
  BY <1>1, <1>2, PTL DEF Spec

\* Whatever ConfigFileAndDefaultsToKubicInitConfig and the --var arguments set, every
\* field keeps its type.
THEOREM TypeCorrect == Spec => []TypeOK
<1>1. IInv => TypeOK
  BY DEF IInv
<1> QED
  BY <1>1, Invariance, PTL

\* Every field of a loaded configuration comes from the strongest source that
\* sets it: the last --var, the environment, the file, the default.
THEOREM StrongestSourceWins == Spec => []Precedence
<1>1. IInv => Precedence
  <2> SUFFICES ASSUME IInv, pc = "done", NEW f \in Fields
               PROVE  IF Setting(f) # {}
                      THEN \E i \in Setting(f) : /\ \A j \in Setting(f) : j <= i
                                                 /\ cfg[f] = vars[i].set[f]
                      ELSE cfg[f] = Reformatted(f)
    BY DEF Precedence, Reformatted
  <2>a. Len(vars) \in Nat
    BY VarListsAssumption DEF IInv, InputInv
  <2>b. next = Len(vars) + 1 /\ PrecedenceUpTo(f, next - 1)
    BY DEF IInv, SourcesInv
  <2>1. Len(vars) \in Nat /\ next - 1 = Len(vars) /\ PrecedenceUpTo(f, next - 1)
    BY <2>a, <2>b
  <2>2. SetBy(f, next - 1) = Setting(f)
    BY <2>1 DEF SetBy, Setting
  <2> QED
    BY <2>1, <2>2 DEF PrecedenceUpTo
<1> QED
  BY <1>1, Invariance, PTL

\* The reformatting of the seeder in ConfigFileAndDefaultsToKubicInitConfig makes what
\* kubeadm join accepts of every address that has a host, but for the exceptions
\* that SeederIsEndpoint names.
THEOREM EndpointIsUsable == Spec => []SeederIsEndpoint
<1>1. IInv => SeederIsEndpoint
  <2> DEFINE given == Configured("seeder")
  <2> SUFFICES ASSUME IInv, pc = "done", ~IsSeeder(cfg), Setting("seeder") = {},
                      given.host \notin IPv6Hosts \cup {NoHost},
                      given.scheme # "" \/ given.host \notin HttpHosts
               PROVE  /\ IsEndpoint(cfg.seeder)
                      /\ cfg.seeder.host = given.host
                      /\ cfg.seeder.port = IF given.port = NoPort THEN APIPort ELSE given.port
    BY DEF SeederIsEndpoint
  <2>0. "seeder" \in Fields
    BY DEF Fields, ClusterFormation
  <2>1. given \in Addresses
    BY <2>0, ConfiguredCases, DefaultType, SeedersAssumption, FilesAssumption
       DEF IInv, InputInv, InFile, FieldType
  <2>2. cfg.seeder = Reformat(given)
    BY <2>0 DEF IInv, SourcesInv, PrecedenceUpTo, SetBy, Reformatted
  <2>3. cfg.seeder = Endpoint(given)
    BY <2>2 DEF Reformat, IsSeeder
  <2>4. given.host \in Hosts
    BY <2>1 DEF IInv, SourcesInv, ParseFails, Addresses
  <2>5. Hostname(given) = given.host /\ Port(given) = given.port
    BY DEF Hostname, Port, HasHttpPrefix
  <2> QED
    BY <2>3, <2>4, <2>5, EndpointParts DEF IsEndpoint
<1> QED
  BY <1>1, Invariance, PTL

-----------------------------------------------------------------------------
(***************************************************************************)
(* The document that is uploaded.                                          *)
(***************************************************************************)

\* The configuration is nothing but its fields.
ShapeInv == cfg = [f \in Fields |-> cfg[f]]

\* Every step builds a configuration from its fields.
THEOREM Shape == Spec => []ShapeInv
<1>1. Init => ShapeInv
  <2>1. defaultConfiguration = [f \in DOMAIN defaultConfiguration |-> defaultConfiguration[f]]
    BY DEF defaultConfiguration
  <2> QED
    BY <2>1, DefaultType DEF Init, ShapeInv
<1>2. IInv /\ ShapeInv /\ [Next]_allvars => ShapeInv'
  <2> SUFFICES ASSUME IInv, ShapeInv, [Next]_allvars
               PROVE  ShapeInv'
    OBVIOUS
  <2>0. DOMAIN cfg = Fields
    BY DEF IInv, TypeOK
  <2>1. CASE UNCHANGED cfg
    BY <2>1 DEF ShapeInv
  <2>2. CASE cfg' = Unmarshal(cfg, file.doc) \/ cfg' = Assign(vars[next])
    BY <2>2 DEF ShapeInv, Unmarshal, Assign
  <2>3. CASE ReadEnv
    BY <2>0, <2>3 DEF ReadEnv, ShapeInv
  <2>4. CASE ReformatSeeder /\ ~ParseFails(cfg.seeder)
    BY <2>0, <2>4 DEF ReformatSeeder, ShapeInv
  <2> QED
    BY <2>1, <2>2, <2>3, <2>4
       DEF Next, ReadFile, ReformatSeeder, SetVar, VarsDone, Finished, allvars
<1> QED
  BY <1>1, <1>2, Invariance, PTL DEF Spec

\* No two fields have the same key.
LEMMA KeysDiffer == \A f \in Fields, g \in Fields : YamlKey[f] = YamlKey[g] => f = g
BY DEF Fields, ClusterFormation, Cni, YamlKey

\* A field is read back as it was written, unless it, or the section it is in, is
\* left out for being empty and has a default that is not.
LEMMA MarshalUnmarshal ==
    ASSUME NEW config, NEW f \in Fields,
           \A g \in OmitEmpty : config[g] # Zero(g) \/ defaultConfiguration[g] = Zero(g),
           \A struct \in OmitEmptyStructs : \E g \in struct : config[g] # Zero(g)
    PROVE  Unmarshal(defaultConfiguration, Marshal(config))[f] = config[f]
<1> DEFINE written == {g \in Fields : ~Omitted(config, g)}
           doc == Marshal(config)
<1>1. /\ DOMAIN doc = {YamlKey[g] : g \in written}
      /\ \A k \in {YamlKey[g] : g \in written} :
             doc[k] = config[CHOOSE g \in written : YamlKey[g] = k]
  BY DEF Marshal
<1>2. Unmarshal(defaultConfiguration, doc)[f] =
          IF YamlKey[f] \in DOMAIN doc THEN doc[YamlKey[f]] ELSE defaultConfiguration[f]
  BY DEF Unmarshal
<1> HIDE DEF doc
<1>3. CASE f \in written
  <2>1. (CHOOSE g \in written : YamlKey[g] = YamlKey[f]) = f
    BY <1>3, KeysDiffer
  <2>2. YamlKey[f] \in {YamlKey[g] : g \in written}
    BY <1>3
  <2>3. doc[YamlKey[f]] = config[f]
    BY <1>1, <2>1, <2>2
  <2> QED
    BY <1>1, <1>2, <2>2, <2>3 DEF doc
<1>4. CASE f \notin written
  <2>1. YamlKey[f] \notin {YamlKey[g] : g \in written}
    BY <1>4, KeysDiffer
  <2>2. config[f] = Zero(f) /\ f \in OmitEmpty
    BY <1>4 DEF Omitted
  <2> QED
    BY <1>1, <1>2, <2>1, <2>2 DEF doc
<1> QED
  BY <1>3, <1>4

\* A reformatted address stays as it is when it is reformatted again.
LEMMA ReformatAgain ==
    ASSUME NEW a, Reformat(a).host \notin HttpHosts
    PROVE  Reformat(Reformat(a)) = Reformat(a)
<1>1. CASE a = EmptyAddress
  BY <1>1 DEF Reformat
<1>2. CASE a # EmptyAddress
  <2> DEFINE e == Endpoint(a)
  <2>1. Reformat(a) = e
    BY <1>2 DEF Reformat
  <2>2. e.scheme = "" /\ e.port # NoPort /\ e.host \notin HttpHosts
    BY <2>1, EndpointParts
  <2>3. Hostname(e) = e.host /\ Port(e) = e.port
    BY <2>2 DEF Hostname, Port, HasHttpPrefix
  <2>4. Endpoint(e) = [scheme |-> "", host |-> e.host, bracket |-> FALSE, port |-> e.port]
    BY <2>2, <2>3 DEF Endpoint
  <2>5. e = [scheme |-> "", host |-> e.host, bracket |-> FALSE, port |-> e.port]
    BY EndpointParts DEF Endpoint
  <2>6. e # EmptyAddress
    <3>1. EmptyAddress.port = NoPort
      BY DEF EmptyAddress
    <3> QED
      BY <2>2, <3>1
  <2> QED
    BY <2>1, <2>4, <2>5, <2>6 DEF Reformat
<1> QED
  BY <1>1, <1>2

\* What ToConfigMap uploads loads to the configuration it was made from, but for
\* the exceptions that UploadReloads names.
THEOREM UploadIsFaithful == Spec => []UploadReloads
<1>1. IInv /\ ShapeInv => UploadReloads
  <2> DEFINE reloaded == Unmarshal(defaultConfiguration, Marshal(cfg))
             again    == [reloaded EXCEPT !.seeder = Reformat(@)]
  <2> SUFFICES ASSUME IInv, ShapeInv, pc = "done", Setting("seeder") = {},
                      cfg.seeder.host \notin HttpHosts \cup IPv6Hosts,
                      \A f \in OmitEmpty : cfg[f] # Zero(f) \/ defaultConfiguration[f] = Zero(f),
                      \A struct \in OmitEmptyStructs : \E f \in struct : cfg[f] # Zero(f)
               PROVE  again = cfg
    BY DEF UploadReloads
  <2>0. "seeder" \in Fields
    BY DEF Fields, ClusterFormation
  <2>1. \A f \in Fields : reloaded[f] = cfg[f]
    BY MarshalUnmarshal
  <2>2. DOMAIN reloaded = Fields
    BY DEF Unmarshal
  <2>3. cfg["seeder"] = Reformat(Configured("seeder"))
    BY <2>0 DEF IInv, SourcesInv, PrecedenceUpTo, SetBy, Reformatted
  <2>4. Reformat(cfg["seeder"]) = cfg["seeder"]
    BY <2>3, ReformatAgain
  <2> HIDE DEF reloaded
  <2>5. again = [f \in Fields |-> cfg[f]]
    BY <2>0, <2>1, <2>2, <2>4
  <2> QED
    BY <2>5 DEF ShapeInv
<1> QED
  BY <1>1, Invariance, Shape, PTL
=============================================================================
