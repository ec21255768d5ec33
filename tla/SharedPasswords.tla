--------------------------- MODULE SharedPasswords ---------------------------
(***************************************************************************)
(* Sets of shared passwords (pkg/crypto/password.go), on top of the API    *)
(* helpers of ClientUtils.                                                 *)
(*                                                                         *)
(* A user is a client with a list of names.  It loads the password of each *)
(* name from its Secret, or makes one up, and then publishes all of them,  *)
(* with one create-or-update call each and in the order of a Go map, which *)
(* is any order.  Other clients may remove Secrets.                        *)
(***************************************************************************)
EXTENDS ClientUtils

CONSTANT Loads   \* the programs of the clients and the name lists of the users

VARIABLES
    names,      \* names[u]: the names u was given
    stage,      \* stage[u]: "load", "publish", and how that ended
    next,       \* next[u]: the name u loads next
    contents,   \* contents[u]: the passwords u holds
    published   \* published[u]: the names u has published

passwordVars == <<names, stage, next, contents, published>>
allVars      == <<vars, passwordVars>>

\* The random password that u makes up, named by its maker.
Rand(u) == [main |-> u, rest |-> Nil]

ASSUME RandAssumption == \A u \in Clients : Rand(u) \in Specs
ASSUME LoadsAssumption ==
    \A load \in Loads : /\ load.calls \in Programs
                        /\ load.names \in [Clients -> Seq(Names)]
\* The Secret of a password is written by its users; others only remove it.
ASSUME OwnersAssumption ==
    \A load \in Loads : \A c \in Clients, u \in Clients :
        \A i \in 1 .. Len(load.calls[c]), j \in 1 .. Len(load.names[u]) :
            load.calls[c][i].name = load.names[u][j] => load.calls[c][i].helper = "remove"

NamesOf(u) == {names[u][i] : i \in 1 .. Len(names[u])}

PInit ==
    /\ Init
    /\ \E load \in Loads : calls = load.calls /\ names = load.names
    /\ stage = [u \in Clients |-> IF names[u] = <<>> THEN "none" ELSE "load"]
    /\ next = [u \in Clients |-> 1]
    /\ contents = [u \in Clients |-> [n \in Names |-> Nil]]
    /\ published = [u \in Clients |-> {}]

\* Mutant: the result of the Get is not looked at.
GetFromSecretIgnored(u, n) == Rand(u)

\* Mutant: the Secret is taken for its contents.
GetFromSecretWhole(u, n) == IF object[n] # Nil THEN object[n] ELSE Rand(u)

\* The password in the Secret, or a new one if there is none.
GetFromSecret(u, n) == IF object[n] # Nil THEN object[n].spec ELSE Rand(u)

\* One iteration of NewSharedPasswordsSet.
LoadPassword(u) ==
    /\ stage[u] = "load"
    /\ LET n == names[u][next[u]]
       IN  contents' = [contents EXCEPT ![u] = [@ EXCEPT ![n] = GetFromSecret(u, n)]]
    /\ next' = [next EXCEPT ![u] = @ + 1]
    /\ stage' = [stage EXCEPT ![u] = IF next[u] = Len(names[u]) THEN "publish" ELSE "load"]
    /\ UNCHANGED <<vars, names, published>>

\* Any error but NotFound ends it, and with it the set.
LoadFails(u) ==
    /\ stage[u] = "load"
    /\ faults < MaxFaults
    /\ faults' = faults + 1
    /\ stage' = [stage EXCEPT ![u] = "failed"]
    /\ UNCHANGED <<object, calls, pc, request, copy, fresh, result, answer>>
    /\ UNCHANGED <<names, next, contents, published>>

\* One iteration of CreateOrUpdateToSecrets: the call ...
CreateOrUpdateToSecret(u, n) ==
    /\ stage[u] = "publish"
    /\ n \in NamesOf(u) \ published[u]
    /\ BeginCall(u, [helper |-> "policy", name |-> n, spec |-> contents[u][n]])
    /\ UNCHANGED <<calls, passwordVars>>

\* ... and its return, with which the loop goes on, ends, or fails.
Published(u) ==
    /\ stage[u] = "publish"
    /\ Return(u)
    /\ published' = [published EXCEPT ![u] = @ \cup {NameOf(u)}]
    /\ stage' = [stage EXCEPT ![u] = IF published'[u] = NamesOf(u) THEN "done" ELSE @]
    /\ UNCHANGED <<names, next, contents>>

PublishFails(u) ==
    /\ stage[u] = "publish"
    /\ ReturnError(u)
    /\ stage' = [stage EXCEPT ![u] = "failed"]
    /\ UNCHANGED <<names, next, contents, published>>

UserStep(u) ==
    \/ LoadPassword(u) \/ LoadFails(u)
    \/ \E n \in Names : CreateOrUpdateToSecret(u, n)
    \/ Published(u) \/ PublishFails(u)

ClientStep(c) ==
    /\ ApiStep(c) \/ (stage[c] = "none" /\ (Call(c) \/ Return(c) \/ ReturnError(c)))
    /\ UNCHANGED passwordVars

\* Nobody has anything left to do.
Finished ==
    /\ \A c \in Clients : /\ stage[c] \in {"none", "done", "failed"}
                          /\ pc[c] = "idle" /\ calls[c] = <<>>
    /\ UNCHANGED allVars

PNext ==
    \/ \E c \in Clients : UserStep(c) \/ ClientStep(c)
    \/ \E n \in Names : Collect(n) /\ UNCHANGED passwordVars
    \/ Finished

PSpec == PInit /\ [][PNext]_allVars

-----------------------------------------------------------------------------
(***************************************************************************)
(* Properties.                                                             *)
(***************************************************************************)

\* Every variable has the type its declaration suggests.
PasswordTypeOK ==
    /\ TypeOK
    /\ names \in [Clients -> Seq(Names)]
    /\ stage \in [Clients -> {"none", "load", "publish", "done", "failed"}]
    /\ \A u \in Clients : next[u] \in 1 .. Len(names[u]) + 1
    /\ contents \in [Clients -> [Names -> Specs \cup {Nil}]]
    /\ published \in [Clients -> SUBSET Names]

\* u may still write the Secret of n.
MayPublish(u, n) ==
    /\ stage[u] \in {"load", "publish"}
    /\ contents[u][n] # Nil /\ n \notin published[u]

\* The password of n is published, and nobody is about to publish another.
Settled(n) ==
    /\ object[n] # Nil
    /\ \A u \in Clients : MayPublish(u, n) => contents[u][n] = object[n].spec

\* Once settled, the password of a name is the one that everybody loads and
\* publishes from then on: it stays settled, with the same contents, until its
\* Secret is removed.  (Before that two users that find no Secret each make up
\* a password, and the one that publishes first is left with one that is no
\* longer there.)
SettledPasswordStays ==
    [][\A n \in UNION {NamesOf(u) : u \in Clients} :
          Settled(n) /\ object'[n] # Nil
              => Settled(n)' /\ object'[n].spec = object[n].spec]_allVars
=============================================================================
