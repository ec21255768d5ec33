----------------------------- MODULE ClientUtils -----------------------------
(***************************************************************************)
(* The helpers of pkg/client/utils.go that create, update and delete       *)
(* objects, called by several clients at once.                             *)
(*                                                                         *)
(* pc[c] is the API call the helper of client c makes next.  The helpers   *)
(* for Pods, Jobs and Services read the object first; the one for          *)
(* NetworkPolicies, the one for manifests and those of kubeadm try to      *)
(* create it first.  An object that was read is written back with its      *)
(* resourceVersion, so the write fails if the object changed in between;   *)
(* one that was not read is overwritten whatever it is.                    *)
(***************************************************************************)
EXTENDS Naturals, Sequences

CONSTANTS
    Clients,   \* whoever calls a helper
    Names,     \* names of objects
    Specs,     \* specifications of objects: records with "main" and "rest"
    Programs,  \* the calls the clients may make: functions from Clients
    MaxFaults, \* refused calls and lost answers in a behaviour
    Nil, Pending, Error

Helpers  == {"pod", "service", "policy", "delete", "remove"}
Requests == [helper : Helpers, name : Names, spec : Specs]
Objects  == [spec : Specs, dying : BOOLEAN]
Calls    == {"get", "create", "update", "delete"}

ASSUME SpecsAssumption ==
    /\ \A s \in Specs, t \in Specs : [s EXCEPT !.main = t.main] \in Specs
    /\ \A s \in Specs : [s EXCEPT !.main = s.main] = s
ASSUME ProgramsAssumption == Programs \subseteq [Clients -> Seq(Requests)]
ASSUME BoundsAssumption == MaxFaults \in Nat
ASSUME NilAssumption ==
    /\ Nil \notin Objects \cup Requests \cup Specs \cup {Pending, Error}
    /\ Pending \notin Objects /\ Error \notin Objects

VARIABLES
    object,   \* object[n]: the object of that name in the API server
    calls,    \* calls[c]: the calls c has still to make
    pc,       \* pc[c]: what its helper does next, "idle" between calls
    request,  \* request[c]: the call c is in
    copy,     \* copy[c]: the specification its helper read
    fresh,    \* fresh[c]: that the object has not changed since
    result,   \* result[c]: the object as the API server answered it
    answer,   \* answer[c]: what the last helper c called returned
    faults    \* faults so far

vars == <<object, calls, pc, request, copy, fresh, result, answer, faults>>

NameOf(c) == request[c].name
Goto(c, call) == pc' = [pc EXCEPT ![c] = call]

Init ==
    /\ object = [n \in Names |-> Nil]
    /\ calls \in Programs
    /\ pc = [c \in Clients |-> "idle"]
    /\ request = [c \in Clients |-> Nil]
    /\ copy = [c \in Clients |-> Nil]
    /\ fresh = [c \in Clients |-> FALSE]
    /\ result = [c \in Clients |-> Pending]
    /\ answer = [c \in Clients |-> Nil]
    /\ faults = 0

-----------------------------------------------------------------------------
FirstCall(helper) ==
    IF helper \in {"pod", "service"} THEN "get"
    ELSE IF helper = "policy" THEN "create" ELSE "delete"

BeginCall(c, req) ==
    /\ pc[c] = "idle"
    /\ request' = [request EXCEPT ![c] = req]
    /\ Goto(c, FirstCall(req.helper))
    /\ UNCHANGED <<object, copy, fresh, result, answer, faults>>

Call(c) ==
    /\ calls[c] # <<>>
    /\ BeginCall(c, Head(calls[c]))
    /\ calls' = [calls EXCEPT ![c] = Tail(@)]

\* An object is written: every copy of it has an old resourceVersion.
Write(n, obj) ==
    /\ object' = [object EXCEPT ![n] = obj]
    /\ fresh' = [c \in Clients |-> fresh[c] /\ NameOf(c) # n]

\* The API server did what c asked for and answers with the object.
Answered(c, obj) ==
    /\ result' = [result EXCEPT ![c] = obj]
    /\ Goto(c, "return")

WriteAnswered(c, obj) ==
    /\ Write(NameOf(c), obj)
    /\ Answered(c, obj)

Refused(c) == Goto(c, "error") /\ UNCHANGED <<object, fresh, result>>

\* A specification that is as it should be is not written.
Get(c) ==
    /\ pc[c] = "get"
    /\ LET obj == object[NameOf(c)]
       IN  \/ /\ obj = Nil
              /\ Goto(c, "create")
              /\ UNCHANGED <<copy, fresh, result>>
           \/ /\ obj # Nil /\ obj.spec = request[c].spec
              /\ Answered(c, obj)
              /\ UNCHANGED <<copy, fresh>>
           \/ /\ obj # Nil /\ obj.spec # request[c].spec
              /\ copy' = [copy EXCEPT ![c] = obj.spec]
              /\ fresh' = [fresh EXCEPT ![c] = TRUE]
              /\ Goto(c, "update")
              /\ UNCHANGED result
    /\ UNCHANGED <<object, calls, request, answer, faults>>

\* Only the helpers that did not read the object first go on if it exists.
Create(c) ==
    /\ pc[c] = "create"
    /\ \/ /\ object[NameOf(c)] = Nil
          /\ WriteAnswered(c, [spec |-> request[c].spec, dying |-> FALSE])
       \/ /\ object[NameOf(c)] # Nil /\ request[c].helper = "policy"
          /\ Goto(c, "update") /\ UNCHANGED <<object, fresh, result>>
       \/ /\ object[NameOf(c)] # Nil /\ request[c].helper # "policy"
          /\ Refused(c)
    /\ UNCHANGED <<calls, request, copy, answer, faults>>

\* Of a Service only the type and the ports are taken over.
Updated(c) ==
    IF request[c].helper = "service"
    THEN [copy[c] EXCEPT !.main = request[c].spec.main]
    ELSE request[c].spec

\* Mutant: an update that is not checked against the resourceVersion.
UpdateUnchecked(c) ==
    /\ pc[c] = "update"
    /\ \/ /\ object[NameOf(c)] # Nil
          /\ WriteAnswered(c, [object[NameOf(c)] EXCEPT !.spec = Updated(c)])
       \/ object[NameOf(c)] = Nil /\ Refused(c)
    /\ UNCHANGED <<calls, request, copy, answer, faults>>

Update(c) ==
    /\ pc[c] = "update"
    /\ LET accepted == IF request[c].helper = "policy"
                       THEN object[NameOf(c)] # Nil ELSE fresh[c]
       IN  \/ /\ accepted
              /\ WriteAnswered(c, [object[NameOf(c)] EXCEPT !.spec = Updated(c)])
           \/ ~accepted /\ Refused(c)
    /\ UNCHANGED <<calls, request, copy, answer, faults>>

\* Deletion in the foreground: the API server marks the object, answers, and
\* removes it later.
DeleteForeground(c) ==
    /\ pc[c] = "delete" /\ request[c].helper = "delete"
    /\ \/ /\ object[NameOf(c)] # Nil
          /\ WriteAnswered(c, [object[NameOf(c)] EXCEPT !.dying = TRUE])
       \/ object[NameOf(c)] = Nil /\ Refused(c)
    /\ UNCHANGED <<calls, request, copy, answer, faults>>

\* Deletion of a Secret; it is no error if it is not there.
Remove(c) ==
    /\ pc[c] = "delete" /\ request[c].helper = "remove"
    /\ WriteAnswered(c, Nil)
    /\ UNCHANGED <<calls, request, copy, answer, faults>>

Collect(n) ==
    /\ object[n] # Nil /\ object[n].dying
    /\ Write(n, Nil)
    /\ UNCHANGED <<calls, pc, request, copy, result, answer, faults>>

\* A call is refused, or its answer is lost after it took effect.
CallFails(c) ==
    /\ pc[c] \in Calls \cup {"return"}
    /\ faults < MaxFaults
    /\ faults' = faults + 1
    /\ Goto(c, "error")
    /\ UNCHANGED <<object, calls, request, copy, fresh, result, answer>>

End(c, with) ==
    /\ answer' = [answer EXCEPT ![c] = with]
    /\ request' = [request EXCEPT ![c] = Nil]
    /\ copy' = [copy EXCEPT ![c] = Nil]
    /\ fresh' = [fresh EXCEPT ![c] = FALSE]
    /\ result' = [result EXCEPT ![c] = Pending]
    /\ Goto(c, "idle")
    /\ UNCHANGED <<object, calls, faults>>

Return(c)      == pc[c] = "return" /\ End(c, result[c])
ReturnError(c) == pc[c] = "error" /\ End(c, Error)

ApiStep(c) ==
    \/ Get(c) \/ Create(c) \/ Update(c) \/ DeleteForeground(c) \/ Remove(c)
    \/ CallFails(c)

Next ==
    \/ \E c \in Clients : Call(c) \/ ApiStep(c) \/ Return(c) \/ ReturnError(c)
    \/ \E n \in Names : Collect(n)

Spec == Init /\ [][Next]_vars

-----------------------------------------------------------------------------
(***************************************************************************)
(* Properties.                                                             *)
(***************************************************************************)

\* Every variable has the type its declaration suggests.
TypeOK ==
    /\ object \in [Names -> Objects \cup {Nil}]
    /\ calls \in [Clients -> Seq(Requests)]
    /\ pc \in [Clients -> Calls \cup {"idle", "return", "error"}]
    /\ request \in [Clients -> Requests \cup {Nil}]
    /\ copy \in [Clients -> Specs \cup {Nil}]
    /\ fresh \in [Clients -> BOOLEAN]
    /\ result \in [Clients -> Objects \cup {Nil, Pending}]
    /\ answer \in [Clients -> Objects \cup {Nil, Error}]
    /\ faults \in 0 .. MaxFaults

Store == INSTANCE ObjectStore WITH store <- object

\* Whatever the other clients do between the calls it makes, a helper acts
\* like one atomic step: no change made by another client is lost in the part
\* of the object the helper does not write, none is applied twice, and success
\* is only reported for what was done.  Of a deletion, that is the mark the API
\* server sets, not the end of it: see DeleteBlocks.
ImplementsStore == Store!Spec

\* The helpers that delete in the foreground return when the object is gone, as
\* the comments on them say: none that is still marked for its deletion is there
\* when one of them returns without error.
DeleteBlocks ==
    [][\A c \in Clients :
          Return(c) /\ request[c].helper = "delete"
              => object[NameOf(c)] = Nil \/ ~object[NameOf(c)].dying]_vars
=============================================================================
