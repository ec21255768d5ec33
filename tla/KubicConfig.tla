----------------------------- MODULE KubicConfig -----------------------------
(***************************************************************************)
(* How kubic-init gets its configuration (pkg/config/config.go): defaults, *)
(* overridden by the configuration file, by the SEEDER and TOKEN           *)
(* environment variables, then (after the seeder was brought into the form *)
(* host:port) by the --var arguments in their order.  The result is what   *)
(* bootstrap and reset work with, and what the seeder uploads.             *)
(*                                                                         *)
(* One behaviour is one run.  The configuration is the function cfg of the *)
(* fields below, which stand for every kind of field there is: with a yaml *)
(* tag or without, omitted when empty or not, with a zero default or not.  *)
(***************************************************************************)
EXTENDS Naturals, Sequences

CONSTANTS
    Hosts,       \* host names and addresses that url.Parse accepts
    BadHosts,    \* ... and some it does not
    HttpHosts,   \* names that begin with "http"
    IPv6Hosts,   \* IPv6 addresses
    Ports,       \* port numbers in use
    Strings,     \* values of the string fields, other than their defaults
    Files,       \* the configuration files of the runs
    Seeders,     \* the values of SEEDER in the runs
    VarLists     \* the lists of --var arguments of the runs

NoPort  == 0
NoHost  == ""
Unset   == "unset"      \* an environment variable that is not there
APIPort == 6443         \* DefaultAPIServerPort

(***************************************************************************)
(* A seeder address is [scheme://]host[:port], an IPv6 host in brackets or *)
(* not.  The empty string is the address with all its parts empty.         *)
(***************************************************************************)
Addresses ==
    [ scheme  : {"", "http", "https"},
      host    : Hosts \cup BadHosts \cup {NoHost},
      bracket : BOOLEAN,
      port    : Ports \cup {NoPort, APIPort} ]

EmptyAddress == [scheme |-> "", host |-> NoHost, bracket |-> FALSE, port |-> NoPort]

-----------------------------------------------------------------------------
\* The two structs whose fields have no "omitempty" that yaml.v2 sees.
ClusterFormation == {"seeder", "token", "autoApprove"}
Cni              == {"driver", "binDir", "confDir", "image"}

Fields == ClusterFormation \cup Cni \cup {"PSP", "domain", "caHash"}

\* The key yaml.v2 uses: the one of a yaml tag, or else, whatever a json tag
\* says, the lower-cased name of the field.
YamlKey ==
    [ seeder |-> "seeder", token |-> "token", autoApprove |-> "autoapprove",
      driver |-> "driver", binDir |-> "bindir", confDir |-> "confdir", image |-> "image",
      PSP |-> "PSP", domain |-> "domain", caHash |-> "caCrtHash" ]

\* The fields with "omitempty" in a yaml tag, and the structs with one.
OmitEmpty        == {"PSP", "domain", "caHash"}
OmitEmptyStructs == {ClusterFormation, Cni}

Zero(f) == CASE f = "seeder" -> EmptyAddress
             [] f \in {"autoApprove", "PSP"} -> FALSE
             [] OTHER -> ""

defaultConfiguration ==
    [ seeder |-> EmptyAddress, token |-> "", autoApprove |-> TRUE,
      driver |-> "flannel", binDir |-> "/var/lib/kubelet/cni/bin",
      confDir |-> "/etc/cni/net.d", image |-> "flannel:0.9.1",
      PSP |-> TRUE, domain |-> "cluster.local", caHash |-> "" ]

\* yaml.Unmarshal into a configuration: fields whose key is in the document
\* are set, keys that belong to no field are ignored.
Unmarshal(config, doc) ==
    [f \in Fields |-> IF YamlKey[f] \in DOMAIN doc THEN doc[YamlKey[f]] ELSE config[f]]

\* Mutant: every empty field is left out.
MarshalNonEmpty(config) ==
    LET written == {f \in Fields : config[f] # Zero(f)}
    IN  [k \in {YamlKey[f] : f \in written} |->
            config[CHOOSE f \in written : YamlKey[f] = k]]

\* A struct whose fields are all empty is left out as a whole, the fields
\* without an "omitempty" of their own included.
Omitted(config, f) ==
    \/ f \in OmitEmpty /\ config[f] = Zero(f)
    \/ \E struct \in OmitEmptyStructs :
          f \in struct /\ \A g \in struct : config[g] = Zero(g)

\* yaml.Marshal: the document ToConfigMap uploads.
Marshal(config) ==
    LET written == {f \in Fields : ~Omitted(config, f)}
    IN  [k \in {YamlKey[f] : f \in written} |->
            config[CHOOSE f \in written : YamlKey[f] = k]]

\* Without the test for a scheme "http..." in the address is taken for one.
HasHttpPrefix(a) == a.scheme # "" \/ a.host \in HttpHosts

\* url.Parse of "name" or "name:port" without a scheme finds no host at all.
Hostname(a) == IF HasHttpPrefix(a) /\ a.scheme = "" THEN NoHost ELSE a.host
Port(a)     == IF HasHttpPrefix(a) /\ a.scheme = "" THEN NoPort ELSE a.port

ParseFails(a) == a.host \in BadHosts

\* Mutant: the port is always the default one.
EndpointDefaultPort(a) ==
    [scheme |-> "", host |-> Hostname(a), bracket |-> FALSE, port |-> APIPort]

\* Hostname() takes the brackets off and nothing puts them on again.
Endpoint(a) ==
    [ scheme  |-> "",
      host    |-> Hostname(a),
      bracket |-> FALSE,
      port    |-> IF Port(a) = NoPort THEN APIPort ELSE Port(a) ]

Reformat(a) == IF a = EmptyAddress THEN a ELSE Endpoint(a)

IsSeeder(config) == config.seeder = EmptyAddress

(***************************************************************************)
(* What the sources set has the type of the field it is for.               *)
(***************************************************************************)
FieldType(f) ==
    IF f = "seeder" THEN Addresses
    ELSE IF f \in {"autoApprove", "PSP"} THEN BOOLEAN
    ELSE Strings \cup {"", defaultConfiguration[f]}

ASSUME FilesAssumption ==
    \A src \in Files : src.kind = "yaml" =>
        \A f \in Fields : YamlKey[f] \in DOMAIN src.doc => src.doc[YamlKey[f]] \in FieldType(f)
ASSUME SeedersAssumption ==
    \A env \in Seeders : env.set \in BOOLEAN /\ env.value \in Addresses
ASSUME VarListsAssumption ==
    \A list \in VarLists :
        /\ Len(list) \in Nat
        /\ \A i \in 1 .. Len(list) : \A f \in Fields \cap DOMAIN list[i].set :
               list[i].set[f] \in FieldType(f)

-----------------------------------------------------------------------------
VARIABLES
    file,      \* the configuration file: "none", "bad", or "yaml" and its doc
    seederEnv, \* SEEDER: whether it is set, and its value
    tokenEnv,  \* TOKEN
    vars,      \* the --var arguments: number of "="-parts, and what they set
    next,      \* the one to process next
    cfg,       \* the configuration so far
    pc         \* the next step

allvars == <<file, seederEnv, tokenEnv, vars, next, cfg, pc>>
inputs  == <<file, seederEnv, tokenEnv, vars>>

Init ==
    /\ file \in Files
    /\ seederEnv \in Seeders
    /\ tokenEnv \in Strings \cup {"", Unset}
    /\ vars \in VarLists
    /\ next = 1
    /\ cfg = defaultConfiguration
    /\ pc = "file"

ReadFile ==
    /\ pc = "file"
    /\ \/ /\ file.kind = "none"
          /\ pc' = "env" /\ UNCHANGED cfg
       \/ /\ file.kind = "bad"
          /\ pc' = "error" /\ UNCHANGED cfg
       \/ /\ file.kind = "yaml"
          /\ cfg' = Unmarshal(cfg, file.doc)
          /\ pc' = "env"
    /\ UNCHANGED <<inputs, next>>

\* A variable that is set counts, also when it is empty.
ReadEnv ==
    /\ pc = "env"
    /\ cfg' = [cfg EXCEPT !.seeder = IF seederEnv.set THEN seederEnv.value ELSE @,
                          !.token = IF tokenEnv # Unset THEN tokenEnv ELSE @]
    /\ pc' = "reformat"
    /\ UNCHANGED <<inputs, next>>

ReformatSeeder ==
    /\ pc = "reformat"
    /\ \/ /\ ParseFails(cfg.seeder)
          /\ pc' = "error" /\ UNCHANGED cfg
       \/ /\ ~ParseFails(cfg.seeder)
          /\ cfg' = [cfg EXCEPT !.seeder = Reformat(@)]
          /\ pc' = "vars"
    /\ UNCHANGED <<inputs, next>>

\* "key=value" with one "=" and a key swalker finds in the configuration.
Assignment(v) == v.parts = 2 /\ DOMAIN v.set \subseteq Fields

\* swalker.Write
Assign(v) == [f \in Fields |-> IF f \in DOMAIN v.set THEN v.set[f] ELSE cfg[f]]

\* Mutant: the first assignment to a field wins.
SetVarOnce ==
    /\ pc = "vars" /\ next <= Len(vars)
    /\ cfg' = IF \E i \in 1 .. next - 1 : DOMAIN vars[i].set = DOMAIN vars[next].set
              THEN cfg ELSE Assign(vars[next])
    /\ next' = next + 1
    /\ UNCHANGED <<inputs, pc>>

\* Mutant: an index that is advanced twice.
SetVarSkipping ==
    /\ pc = "vars" /\ next <= Len(vars)
    /\ cfg' = Assign(vars[next])
    /\ next' = next + 2
    /\ UNCHANGED <<inputs, pc>>

SetVar ==
    /\ pc = "vars" /\ next <= Len(vars)
    /\ \/ /\ ~Assignment(vars[next])
          /\ pc' = "error" /\ UNCHANGED <<cfg, next>>
       \/ /\ Assignment(vars[next])
          /\ cfg' = Assign(vars[next])
          /\ next' = next + 1 /\ UNCHANGED pc
    /\ UNCHANGED inputs

VarsDone ==
    /\ pc = "vars" /\ next > Len(vars)
    /\ pc' = "done"
    /\ UNCHANGED <<inputs, next, cfg>>

\* CheckErr ends the process, or bootstrap goes on with the result.
Finished == pc \in {"done", "error"} /\ UNCHANGED allvars

Next == ReadFile \/ ReadEnv \/ ReformatSeeder \/ SetVar \/ VarsDone \/ Finished

Spec == Init /\ [][Next]_allvars

-----------------------------------------------------------------------------
(***************************************************************************)
(* Properties.                                                             *)
(***************************************************************************)

\* Every variable has the type its declaration suggests.
TypeOK ==
    /\ DOMAIN cfg = Fields
    /\ \A f \in Fields : cfg[f] \in FieldType(f)
    /\ next \in 1 .. Len(vars) + 1
    /\ pc \in {"file", "env", "reformat", "vars", "done", "error"}

Setting(f) == {i \in 1 .. Len(vars) : f \in DOMAIN vars[i].set}

\* What the file, the environment and the defaults together say of a field.
Configured(f) ==
    IF f = "seeder" /\ seederEnv.set THEN seederEnv.value
    ELSE IF f = "token" /\ tokenEnv # Unset THEN tokenEnv
    ELSE IF file.kind = "yaml" /\ YamlKey[f] \in DOMAIN file.doc THEN file.doc[YamlKey[f]]
    ELSE defaultConfiguration[f]

\* Every field of the result comes from the strongest source that sets it: the
\* last --var, the environment, the file, the default.  Only a seeder that is
\* not from a --var has been reformatted.
Precedence ==
    pc = "done" =>
        \A f \in Fields :
            IF Setting(f) # {}
            THEN \E i \in Setting(f) : /\ \A j \in Setting(f) : j <= i
                                       /\ cfg[f] = vars[i].set[f]
            ELSE cfg[f] = IF f = "seeder" THEN Reformat(Configured(f)) ELSE Configured(f)

\* What kubeadm join accepts as APIServerEndpoint.
IsEndpoint(a) ==
    /\ a.scheme = "" /\ a.host \in Hosts /\ a.port # NoPort
    /\ a.host \in IPv6Hosts => a.bracket

\* The seeder of a node that joins is host:port, for the host it was given and
\* the port it was given or the default one: however it was written, unless a
\* --var bypasses the reformatting, there is no name, it looks like a scheme, or
\* it is an IPv6 address.
SeederIsEndpoint ==
    LET given == Configured("seeder")
    IN  /\ pc = "done" /\ ~IsSeeder(cfg) /\ Setting("seeder") = {}
        /\ given.host \notin IPv6Hosts \cup {NoHost}
        /\ given.scheme # "" \/ given.host \notin HttpHosts
        => /\ IsEndpoint(cfg.seeder)
           /\ cfg.seeder.host = given.host
           /\ cfg.seeder.port = IF given.port = NoPort THEN APIPort ELSE given.port

\* What the seeder uploads is its configuration: a run with that document for
\* its file, and nothing else, ends with the same configuration.  (Not so for
\* an empty value of a field with omitempty and a default that is not empty:
\* it is left out, and the default is back.  Nor for a section that is empty as
\* a whole: of a seeder without a token that does not approve automatically the
\* uploaded configuration says that it does.  Nor for the seeders excluded
\* above.)
UploadReloads ==
    LET reloaded == Unmarshal(defaultConfiguration, Marshal(cfg))
        again    == [reloaded EXCEPT !.seeder = Reformat(@)]
    IN  /\ pc = "done" /\ Setting("seeder") = {}
        /\ cfg.seeder.host \notin HttpHosts \cup IPv6Hosts
        /\ \A f \in OmitEmpty : cfg[f] # Zero(f) \/ defaultConfiguration[f] = Zero(f)
        /\ \A struct \in OmitEmptyStructs : \E f \in struct : cfg[f] # Zero(f)
        => again = cfg

\* The keys of the sample configuration (config/kubic-init.yaml).
DocumentedKey ==
    [ seeder |-> "seeder", token |-> "token", autoApprove |-> "autoApprove",
      driver |-> "driver", PSP |-> "PSP", domain |-> "domain", caHash |-> "caCrtHash" ]

\* A value given under its documented key, and overridden nowhere, is the one
\* that is used.
DocumentedKeysCount ==
    (pc = "done" /\ file.kind = "yaml") =>
        \A f \in DOMAIN DocumentedKey \ {"seeder", "token"} :
            (DocumentedKey[f] \in DOMAIN file.doc /\ Setting(f) = {})
                => cfg[f] = file.doc[DocumentedKey[f]]
=============================================================================
