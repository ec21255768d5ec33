------------------------------- MODULE AutoCert -------------------------------
(***************************************************************************)
(* AutoCert (pkg/crypto/service_cert.go): a service certificate signed by  *)
(* the cluster's CA and kept, with its private key, in a Secret.           *)
(*                                                                         *)
(* A requester is one AutoCert object in some process.  Its methods run    *)
(* one at a time and make their API calls one by one: pc[r] is the call it *)
(* is about to make.  Two requesters may be for the same Secret, or for    *)
(* Secrets of one name in two namespaces: a certificate signing request    *)
(* (CSR) is in no namespace, so either way they use the same one.          *)
(*                                                                         *)
(* A key pair is named by who generated it and when; a certificate is the  *)
(* key it certifies, so a Secret's certificate and private key belong      *)
(* together exactly if they are equal.                                     *)
(***************************************************************************)
EXTENDS Naturals

CONSTANTS
    Requesters,   \* the AutoCert objects
    Names,        \* namespaces and names of Secrets
    NameOf,       \* NameOf[r]: the SecretNamespace and SecretName of r
    CSRNames,     \* names of CSRs
    CSRName,      \* CSRName[s]: the one made of the name of the Secret s
    References,   \* the AutoCerts made from a reference, which have no Names
    Faulty,       \* Faulty[r]: the calls at which r may fail or die
    MaxRequests,  \* MaxRequests[r]: how many keys r may generate
    MaxFaults,    \* faults in a behaviour
    Nil,          \* no object, and Go's nil
    Empty         \* the zero Secret client-go returns beside an error

Calls == {"get", "create", "getcsr", "approve", "poll", "delete", "store", "reget"}

ASSUME NamesAssumption ==
    /\ NameOf \in [Requesters -> Names]
    /\ CSRName \in [Names -> CSRNames]
    /\ References \subseteq Requesters
ASSUME FaultyAssumption == Faulty \in [Requesters -> SUBSET Calls]
ASSUME BoundsAssumption == MaxRequests \in [Requesters -> Nat] /\ MaxFaults \in Nat

Keys    == Requesters \X Nat
Secrets == [cert : Keys, key : Keys]
CSRs    == [pub : Keys, approved : BOOLEAN, cert : Keys \cup {Nil}]

ASSUME NilAssumption ==
    /\ Nil \notin Keys /\ Nil \notin Secrets /\ Nil \notin CSRs
    /\ Empty \notin Secrets /\ Empty # Nil

VARIABLES
    secret,    \* secret[s]: the Secret of that name in the API server
    csr,       \* csr[s]: the CSR of that name in the API server
    pc,        \* pc[r]: the call r makes next, "idle" between methods
    requests,  \* requests[r]: keys r generated; the last one is in use
    fresh,     \* fresh[r]: the CSR r read has not changed since
    cert,      \* cert[r]: the certificate r found in its CSR
    current,   \* current[r]: the AutoCert's cached Secret
    returned,  \* returned[r]: what GetOrRequest last returned without error
    faults     \* faults so far

vars == <<secret, csr, pc, requests, fresh, cert, current, returned, faults>>

CSROf(r) == CSRName[NameOf[r]]

Key(r) == <<r, requests[r]>>

Goto(r, call) == pc' = [pc EXCEPT ![r] = call]

\* An object is written: every other copy of it has an old resourceVersion.
Write(s, obj) ==
    /\ csr' = [csr EXCEPT ![s] = obj]
    /\ fresh' = [r \in Requesters |-> fresh[r] /\ CSROf(r) # s]

\* A method ends without error, or with one.
Return(r, val) ==
    /\ Goto(r, "idle")
    /\ current' = [current EXCEPT ![r] = val]
    /\ returned' = [returned EXCEPT ![r] = val]

ReturnError(r, val) ==
    /\ Goto(r, "idle")
    /\ current' = [current EXCEPT ![r] = val]
    /\ UNCHANGED returned

Init ==
    /\ secret = [s \in Names |-> Nil]
    /\ csr = [s \in CSRNames |-> Nil]
    /\ pc = [r \in Requesters |-> "idle"]
    /\ requests = [r \in Requesters |-> 0]
    /\ fresh = [r \in Requesters |-> FALSE]
    /\ cert = [r \in Requesters |-> Nil]
    /\ current = [r \in Requesters |-> Nil]
    /\ returned = [r \in Requesters |-> Nil]
    /\ faults = 0

-----------------------------------------------------------------------------
\* Without a cached copy, ask the API server.
GetOrRequest(r) ==
    /\ pc[r] = "idle"
    /\ requests[r] < MaxRequests[r]
    /\ IF current[r] # Nil
       THEN Return(r, current[r])
       ELSE Goto(r, "get") /\ UNCHANGED <<current, returned>>
    /\ UNCHANGED <<secret, csr, requests, fresh, cert, faults>>

Refresh(r) ==
    /\ pc[r] = "idle"
    /\ requests[r] < MaxRequests[r]
    /\ current' = [current EXCEPT ![r] = Nil]
    /\ Goto(r, "get")
    /\ UNCHANGED <<secret, csr, requests, fresh, cert, returned, faults>>

\* The Secret goes, the cached copy stays.
Delete(r) ==
    /\ pc[r] = "idle"
    /\ secret' = [secret EXCEPT ![NameOf[r]] = Nil]
    /\ UNCHANGED <<csr, pc, requests, fresh, cert, current, returned, faults>>

\* The Secret is there, or Request begins by generating a key.
GetSecret(r) ==
    /\ pc[r] = "get"
    /\ \/ /\ secret[NameOf[r]] # Nil
          /\ Return(r, secret[NameOf[r]])
          /\ UNCHANGED requests
       \/ /\ secret[NameOf[r]] = Nil
          /\ requests' = [requests EXCEPT ![r] = @ + 1]
          /\ Goto(r, "create")
          /\ UNCHANGED <<current, returned>>
    /\ UNCHANGED <<secret, csr, fresh, cert, faults>>

\* There is no first name to put into the request: the process panics.
NoNames(r) ==
    /\ pc[r] = "create"
    /\ r \in References
    /\ ReturnError(r, Nil)
    /\ UNCHANGED <<secret, csr, requests, fresh, cert, faults>>

CreateCSR(r) ==
    /\ pc[r] = "create"
    /\ r \notin References
    /\ csr[CSROf(r)] = Nil
    /\ csr' = [csr EXCEPT ![CSROf(r)] =
                  [pub |-> Key(r), approved |-> FALSE, cert |-> Nil]]
    /\ fresh' = [fresh EXCEPT ![r] = TRUE]
    /\ Goto(r, "approve")
    /\ UNCHANGED <<secret, requests, cert, current, returned, faults>>

CSRAlreadyExists(r) ==
    /\ pc[r] = "create"
    /\ r \notin References
    /\ csr[CSROf(r)] # Nil
    /\ Goto(r, "getcsr")
    /\ UNCHANGED <<secret, csr, requests, fresh, cert, current, returned, faults>>

\* The CSR that is there is used in place of the one just made.
GetExistingCSR(r) ==
    /\ pc[r] = "getcsr"
    /\ \/ /\ csr[CSROf(r)] # Nil
          /\ fresh' = [fresh EXCEPT ![r] = TRUE]
          /\ Goto(r, "approve")
          /\ UNCHANGED <<current, returned>>
       \/ csr[CSROf(r)] = Nil /\ ReturnError(r, Nil) /\ UNCHANGED fresh
    /\ UNCHANGED <<secret, csr, requests, cert, faults>>

\* Mutant: the condition is not added to the CSR that is sent.
UpdateApprovalUnset(r) ==
    /\ pc[r] = "approve"
    /\ Goto(r, "poll")
    /\ UNCHANGED <<secret, csr, requests, fresh, cert, current, returned, faults>>

\* A conflict if the CSR changed since it was created or read.
UpdateApproval(r) ==
    /\ pc[r] = "approve"
    /\ \/ /\ fresh[r]
          /\ Write(CSROf(r), [csr[CSROf(r)] EXCEPT !.approved = TRUE])
          /\ Goto(r, "poll")
          /\ UNCHANGED <<current, returned>>
       \/ ~fresh[r] /\ ReturnError(r, Nil) /\ UNCHANGED <<csr, fresh>>
    /\ UNCHANGED <<secret, requests, cert, faults>>

\* The cluster's signing controller.
Sign(s) ==
    /\ csr[s] # Nil
    /\ csr[s].approved /\ csr[s].cert = Nil
    /\ Write(s, [csr[s] EXCEPT !.cert = csr[s].pub])
    /\ UNCHANGED <<secret, pc, requests, cert, current, returned, faults>>

\* Mutant: an approved CSR is taken for a signed one.
PollCSRApproved(r) ==
    /\ pc[r] = "poll"
    /\ csr[CSROf(r)] # Nil
    /\ csr[CSROf(r)].approved
    /\ cert' = [cert EXCEPT ![r] = csr[CSROf(r)].cert]
    /\ Goto(r, "delete")
    /\ UNCHANGED <<secret, csr, requests, fresh, current, returned, faults>>

\* The poll that ends the loop.  Any other answer, an error or a CSR that is
\* gone included, is followed by a sleep and another poll.
PollCSR(r) ==
    /\ pc[r] = "poll"
    /\ csr[CSROf(r)] # Nil
    /\ csr[CSROf(r)].approved /\ csr[CSROf(r)].cert # Nil
    /\ cert' = [cert EXCEPT ![r] = csr[CSROf(r)].cert]
    /\ Goto(r, "delete")
    /\ UNCHANGED <<secret, csr, requests, fresh, current, returned, faults>>

\* Mutant: the CSR is left in the API server.
DeleteCSRSkipped(r) ==
    /\ pc[r] = "delete"
    /\ Goto(r, "store")
    /\ UNCHANGED <<secret, csr, requests, fresh, cert, current, returned, faults>>

\* It is no error if somebody else deleted it.
DeleteCSR(r) ==
    /\ pc[r] = "delete"
    /\ Write(CSROf(r), Nil)
    /\ Goto(r, "store")
    /\ UNCHANGED <<secret, requests, cert, current, returned, faults>>

CreateOrUpdateSecret(r) ==
    /\ pc[r] = "store"
    /\ secret' = [secret EXCEPT ![NameOf[r]] = [cert |-> cert[r], key |-> Key(r)]]
    /\ Goto(r, "reget")
    /\ UNCHANGED <<csr, requests, fresh, cert, current, returned, faults>>

\* Request reads the Secret back, but returns the one it made.
GetStoredSecret(r) ==
    /\ pc[r] = "reget"
    /\ \/ secret[NameOf[r]] # Nil /\ Return(r, [cert |-> cert[r], key |-> Key(r)])
       \/ secret[NameOf[r]] = Nil /\ ReturnError(r, Nil)
    /\ UNCHANGED <<secret, csr, requests, fresh, cert, faults>>

\* A call fails and the method returns the error.  (A call whose answer is
\* lost took effect and looks like a failure of the call after it.)  Only the
\* loop retries.  After a failed Get the cache keeps what client-go returned.
CallFails(r) ==
    /\ pc[r] \in Faulty[r] \ {"poll"}
    /\ faults < MaxFaults
    /\ faults' = faults + 1
    /\ ReturnError(r, IF pc[r] = "get" THEN Empty ELSE Nil)
    /\ UNCHANGED <<secret, csr, requests, fresh, cert>>

\* The process dies; its successor starts with an empty cache.
Crash(r) ==
    /\ pc[r] \in Faulty[r] \cup {"idle"}
    /\ faults < MaxFaults
    /\ faults' = faults + 1
    /\ ReturnError(r, Nil)
    /\ UNCHANGED <<secret, csr, requests, fresh, cert>>

Step(r) ==
    \/ GetSecret(r) \/ NoNames(r)
    \/ CreateCSR(r) \/ CSRAlreadyExists(r) \/ GetExistingCSR(r)
    \/ UpdateApproval(r) \/ PollCSR(r) \/ DeleteCSR(r)
    \/ CreateOrUpdateSecret(r) \/ GetStoredSecret(r)

Next ==
    \/ \E r \in Requesters :
           \/ GetOrRequest(r) \/ Refresh(r) \/ Delete(r)
           \/ Step(r) \/ CallFails(r) \/ Crash(r)
    \/ \E s \in CSRNames : Sign(s)

Spec == Init /\ [][Next]_vars

\* A method that was called goes on, and the signing controller works.
Fairness ==
    /\ \A r \in Requesters : WF_vars(Step(r))
    /\ \A s \in CSRNames : WF_vars(Sign(s))

FairSpec == Spec /\ Fairness

-----------------------------------------------------------------------------
(***************************************************************************)
(* Properties.                                                             *)
(***************************************************************************)

\* Every variable has the type its declaration suggests.
TypeOK ==
    /\ secret \in [Names -> Secrets \cup {Nil}]
    /\ csr \in [CSRNames -> CSRs \cup {Nil}]
    /\ pc \in [Requesters -> Calls \cup {"idle"}]
    /\ requests \in [Requesters -> Nat]
    /\ fresh \in [Requesters -> BOOLEAN]
    /\ cert \in [Requesters -> Keys \cup {Nil}]
    /\ current \in [Requesters -> Secrets \cup {Nil, Empty}]
    /\ returned \in [Requesters -> Secrets \cup {Nil, Empty}]
    /\ faults \in 0 .. MaxFaults

\* The CSR exists, and may be left behind, from its creation to its removal.
Window == {"getcsr", "approve", "poll", "delete"}

\* r shares neither its Secret nor the name of its CSR, and does not fail while
\* its CSR exists.
Undisturbed(r) ==
    /\ \A q \in Requesters : CSROf(q) = CSROf(r) => q = r
    /\ Faulty[r] \cap Window = {}

Matches(s) == s \in Secrets => s.cert = s.key

\* The certificate and the private key an undisturbed requester stores, caches
\* and returns belong together, whatever fails outside the CSR's lifetime and
\* however often the Secret is deleted, refreshed and requested again.
CertMatchesKey ==
    \A r \in Requesters :
        Undisturbed(r) => /\ Matches(secret[NameOf[r]])
                          /\ Matches(current[r])
                          /\ Matches(returned[r])

\* An undisturbed requester leaves no CSR behind that its next request would
\* take for its own.
NoCSRLeftBehind ==
    \A r \in Requesters :
        Undisturbed(r) /\ csr[CSROf(r)] # Nil =>
            pc[r] \in Window /\ csr[CSROf(r)].pub = Key(r)

\* The poll loop of an undisturbed requester, which has no end of its own, waits
\* for a CSR that is there and was approved, so that the signer answers it; and
\* the approval before it is no conflict.
PollIsAnswered ==
    \A r \in Requesters :
        Undisturbed(r) =>
            /\ pc[r] = "approve" => fresh[r]
            /\ pc[r] = "poll" => csr[CSROf(r)] # Nil /\ csr[CSROf(r)].approved

\* Every call of an undisturbed requester that has names returns: its CSR is
\* approved, signed and seen.
RequestReturns ==
    \A r \in Requesters \ References :
        Undisturbed(r) /\ pc[r] # "idle" ~> pc[r] = "idle"

\* The private key is used to create the CSR that obtains the certificate
\* (service_cert.go, Request), so every stored pair belongs together.
StoredPairMatches ==
    \A s \in Names : Matches(secret[s])

\* GetOrRequest gets a certificate from the Secret or requests one: what it
\* returns without error is a TLS Secret.
ReturnsCertificate ==
    \A r \in Requesters : returned[r] # Empty
=============================================================================
