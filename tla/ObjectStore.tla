----------------------------- MODULE ObjectStore -----------------------------
(***************************************************************************)
(* What callers of the create-or-update and delete helpers of pkg/client   *)
(* can rely on: a call that succeeds has changed the object in one step,   *)
(* taken between its beginning and its end, and returns the object as that *)
(* step left it; a call that fails has changed it in one step or not at    *)
(* all.                                                                    *)
(*                                                                         *)
(* Deletion in the foreground is what the API server makes of it: it marks *)
(* the object, which is there until Collect.  The comments on the helpers  *)
(* promise more, that a call blocks until everything is deleted; that is   *)
(* ClientUtils!DeleteBlocks, and does not hold.                            *)
(*                                                                         *)
(* An object is its specification, "main" being the part every helper      *)
(* writes and "rest" the part the one for Services leaves alone, and       *)
(* whether its deletion is in progress.                                    *)
(***************************************************************************)
CONSTANTS
    Clients,   \* whoever calls a helper
    Names,     \* names of objects
    Requests,  \* what may be asked for: a helper, a name, a specification
    Nil,       \* no object, no request
    Pending,   \* the result of a request that has not taken effect
    Error      \* the answer to a request that failed

VARIABLES
    store,     \* store[n]: the object of that name
    request,   \* request[c]: the request c is waiting for
    result,    \* result[c]: Pending, or the object as the request left it
    answer     \* answer[c]: what the last call of c returned

vars == <<store, request, result, answer>>

\* Of a Service that is there only the main part is written.
Overwrite(req, spec) ==
    IF req.helper = "service" THEN [spec EXCEPT !.main = req.spec.main] ELSE req.spec

\* The object a request leaves: of a deletion in the foreground, one that is
\* marked and stays until its dependents are gone.
Apply(req, old) ==
    IF req.helper = "remove" THEN Nil
    ELSE IF req.helper = "delete" THEN [old EXCEPT !.dying = TRUE]
    ELSE IF old = Nil THEN [spec |-> req.spec, dying |-> FALSE]
    ELSE [old EXCEPT !.spec = Overwrite(req, old.spec)]

Init ==
    /\ store = [n \in Names |-> Nil]
    /\ request = [c \in Clients |-> Nil]
    /\ result = [c \in Clients |-> Pending]
    /\ answer = [c \in Clients |-> Nil]

Begin(c, req) ==
    /\ request[c] = Nil
    /\ request' = [request EXCEPT ![c] = req]
    /\ UNCHANGED <<store, result, answer>>

Effect(c) ==
    /\ request[c] # Nil /\ result[c] = Pending
    /\ LET req == request[c]
           new == Apply(req, store[req.name])
       IN  /\ req.helper = "delete" => store[req.name] # Nil
           /\ store' = [store EXCEPT ![req.name] = new]
           /\ result' = [result EXCEPT ![c] = new]
    /\ UNCHANGED <<request, answer>>

End(c, with) ==
    /\ request[c] # Nil
    /\ request' = [request EXCEPT ![c] = Nil]
    /\ result' = [result EXCEPT ![c] = Pending]
    /\ answer' = [answer EXCEPT ![c] = with]
    /\ UNCHANGED store

Succeed(c) == result[c] # Pending /\ End(c, result[c])

Fail(c) == End(c, Error)

\* The garbage collector finishes a deletion.
Collect(n) ==
    /\ store[n] # Nil /\ store[n].dying
    /\ store' = [store EXCEPT ![n] = Nil]
    /\ UNCHANGED <<request, result, answer>>

Next ==
    \/ \E c \in Clients, req \in Requests : Begin(c, req)
    \/ \E c \in Clients : Effect(c) \/ Succeed(c) \/ Fail(c)
    \/ \E n \in Names : Collect(n)

Spec == Init /\ [][Next]_vars
=============================================================================
