--------------------------- MODULE AutoCertProofs ---------------------------
(***************************************************************************)
(* Proofs about AutoCert, for any requesters, names and faults.            *)
(***************************************************************************)
EXTENDS AutoCert, TLAPS

\* Every requester has the name of a CSR.
LEMMA CSROfType == \A r \in Requesters : CSROf(r) \in CSRNames
BY NamesAssumption DEF CSROf

\* The CSR of an undisturbed requester is its own, and only there while it is
\* used; nothing changes it between its creation and its approval, and from then
\* on it is there and approved until the certificate is found; and the
\* certificate found in it is for the key the requester holds.
OwnCSR(r) ==
    /\ csr[CSROf(r)] # Nil =>
           /\ pc[r] \in {"approve", "poll", "delete"}
           /\ csr[CSROf(r)].pub = Key(r)
           /\ csr[CSROf(r)].cert \in {Nil, Key(r)}
    /\ pc[r] # "getcsr"
    /\ pc[r] = "approve" => fresh[r] /\ ~csr[CSROf(r)].approved
    /\ pc[r] = "poll" => csr[CSROf(r)] # Nil /\ csr[CSROf(r)].approved

OwnCert(r) == pc[r] \in {"delete", "store", "reget"} => cert[r] = Key(r)

OwnPair(r) ==
    /\ Matches(secret[NameOf[r]])
    /\ Matches(current[r])
    /\ Matches(returned[r])

RequesterInv(r) == Undisturbed(r) => OwnCSR(r) /\ OwnCert(r) /\ OwnPair(r)

\* Whoever holds an unchanged copy of a CSR knows that it exists; what goes
\* into a Secret was found in a CSR.
SharedInv(r) ==
    /\ fresh[r] => csr[CSROf(r)] # Nil
    /\ pc[r] \in {"delete", "store", "reget"} => cert[r] # Nil

IInv == TypeOK /\ \A r \in Requesters : SharedInv(r) /\ RequesterInv(r)

-----------------------------------------------------------------------------
\* Writing a CSR preserves the types of what it changes.
LEMMA WriteType ==
    ASSUME TypeOK, NEW s \in CSRNames, NEW obj \in CSRs \cup {Nil}, Write(s, obj)
    PROVE  csr' \in [CSRNames -> CSRs \cup {Nil}] /\ fresh' \in [Requesters -> BOOLEAN]
<1>1. \A r \in Requesters : (fresh[r] /\ CSROf(r) # s) \in BOOLEAN
  OBVIOUS
<1> QED
  BY <1>1 DEF TypeOK, Write

\* Every step preserves the types; that what is stored is a Secret needs the
\* other part of the invariant.
LEMMA TypeStep ==
    ASSUME TypeOK, \A r \in Requesters : SharedInv(r), [Next]_vars
    PROVE  TypeOK'
<1> USE NamesAssumption, CSROfType, BoundsAssumption DEF TypeOK, Goto, Return, ReturnError, Calls
<1>k. \A r \in Requesters : Key(r) \in Keys
  BY DEF Key, Keys
<1>1. CASE UNCHANGED vars
  BY <1>1 DEF vars
<1>2. ASSUME NEW r \in Requesters, GetOrRequest(r) \/ Refresh(r) \/ Delete(r)
      PROVE  TypeOK'
  BY <1>2 DEF GetOrRequest, Refresh, Delete
<1>3. ASSUME NEW r \in Requesters, GetSecret(r) \/ NoNames(r)
      PROVE  TypeOK'
  BY <1>3 DEF GetSecret, NoNames
<1>4. ASSUME NEW r \in Requesters, CreateCSR(r) \/ CSRAlreadyExists(r) \/ GetExistingCSR(r)
      PROVE  TypeOK'
  <2>1. [pub |-> Key(r), approved |-> FALSE, cert |-> Nil] \in CSRs
    BY <1>k DEF CSRs
  <2>2. CASE CreateCSR(r)
    <3>1. csr' \in [CSRNames -> CSRs \cup {Nil}]
      BY <2>1, <2>2 DEF CreateCSR
    <3> QED
      BY <2>2, <3>1 DEF CreateCSR
  <2>3. CASE CSRAlreadyExists(r) \/ GetExistingCSR(r)
    BY <2>3 DEF CSRAlreadyExists, GetExistingCSR
  <2> QED
    BY <1>4, <2>2, <2>3
<1>5. ASSUME NEW r \in Requesters, UpdateApproval(r)
      PROVE  TypeOK'
  <2>1. CASE fresh[r]
    <3>1. csr[CSROf(r)] \in CSRs
      BY <2>1 DEF SharedInv
    <3>2. [csr[CSROf(r)] EXCEPT !.approved = TRUE] \in CSRs
      BY <3>1 DEF CSRs
    <3>3. Write(CSROf(r), [csr[CSROf(r)] EXCEPT !.approved = TRUE])
      BY <1>5, <2>1 DEF UpdateApproval
    <3>4. csr' \in [CSRNames -> CSRs \cup {Nil}] /\ fresh' \in [Requesters -> BOOLEAN]
      BY <3>2, <3>3, WriteType
    <3> QED
      BY <1>5, <2>1, <3>4 DEF UpdateApproval
  <2>2. CASE ~fresh[r]
    BY <1>5, <2>2 DEF UpdateApproval
  <2> QED
    BY <2>1, <2>2
<1>6. ASSUME NEW s \in CSRNames, Sign(s)
      PROVE  TypeOK'
  <2>1. [csr[s] EXCEPT !.cert = csr[s].pub] \in CSRs
    BY <1>6 DEF Sign, CSRs
  <2>2. csr' \in [CSRNames -> CSRs \cup {Nil}] /\ fresh' \in [Requesters -> BOOLEAN]
    BY <1>6, <2>1, WriteType DEF Sign
  <2> QED
    BY <1>6, <2>2 DEF Sign
<1>7. ASSUME NEW r \in Requesters, PollCSR(r) \/ DeleteCSR(r)
      PROVE  TypeOK'
  <2>1. CASE PollCSR(r)
    BY <2>1 DEF PollCSR, CSRs
  <2>2. CASE DeleteCSR(r)
    <3>1. csr' \in [CSRNames -> CSRs \cup {Nil}] /\ fresh' \in [Requesters -> BOOLEAN]
      BY <2>2, WriteType DEF DeleteCSR
    <3> QED
      BY <2>2, <3>1 DEF DeleteCSR
  <2> QED
    BY <1>7, <2>1, <2>2
<1>8. ASSUME NEW r \in Requesters, CreateOrUpdateSecret(r) \/ GetStoredSecret(r)
      PROVE  TypeOK'
  <2>1. [cert |-> cert[r], key |-> Key(r)] \in Secrets
    BY <1>8, <1>k DEF CreateOrUpdateSecret, GetStoredSecret, SharedInv, Secrets
  <2> QED
    BY <1>8, <2>1 DEF CreateOrUpdateSecret, GetStoredSecret
<1>9. ASSUME NEW r \in Requesters, CallFails(r) \/ Crash(r)
      PROVE  TypeOK'
  BY <1>9 DEF CallFails, Crash
<1> QED
  BY <1>1, <1>2, <1>3, <1>4, <1>5, <1>6, <1>7, <1>8, <1>9 DEF Next, Step

\* What holds for every requester, disturbed or not.
LEMMA SharedStep ==
    ASSUME TypeOK, \A r \in Requesters : SharedInv(r), [Next]_vars,
           NEW q \in Requesters
    PROVE  SharedInv(q)'
<1> USE NamesAssumption, CSROfType, NilAssumption DEF TypeOK, Goto, Return, ReturnError, SharedInv
<1>1. CASE UNCHANGED vars
  BY <1>1 DEF vars
<1>2. ASSUME NEW r \in Requesters,
             \/ GetOrRequest(r) \/ Refresh(r) \/ Delete(r) \/ GetSecret(r) \/ NoNames(r)
             \/ CSRAlreadyExists(r) \/ PollCSR(r) \/ CallFails(r) \/ Crash(r)
             \/ CreateOrUpdateSecret(r) \/ GetStoredSecret(r)
      PROVE  SharedInv(q)'
  BY <1>2 DEF GetOrRequest, Refresh, Delete, GetSecret, NoNames, CSRAlreadyExists, PollCSR,
     CallFails, Crash, CreateOrUpdateSecret, GetStoredSecret
<1>3. ASSUME NEW r \in Requesters, CreateCSR(r) \/ GetExistingCSR(r)
      PROVE  SharedInv(q)'
  <2>1. [pub |-> Key(r), approved |-> FALSE, cert |-> Nil] \in CSRs
    BY DEF CSRs, Key, Keys
  <2>2. CASE CreateCSR(r)
    BY <2>1, <2>2 DEF CreateCSR
  <2>3. CASE GetExistingCSR(r)
    BY <2>3 DEF GetExistingCSR
  <2> QED
    BY <1>3, <2>2, <2>3
<1>4. ASSUME NEW r \in Requesters, UpdateApproval(r)
      PROVE  SharedInv(q)'
  <2>1. CASE fresh[r] /\ CSROf(q) = CSROf(r)
    BY <1>4, <2>1 DEF UpdateApproval, Write
  <2>2. CASE ~fresh[r]
    BY <1>4, <2>2 DEF UpdateApproval
  <2>3. CASE fresh[r] /\ CSROf(q) # CSROf(r)
    BY <1>4, <2>3 DEF UpdateApproval, Write
  <2> QED
    BY <2>1, <2>2, <2>3
<1>5. ASSUME NEW s \in CSRNames, Sign(s)
      PROVE  SharedInv(q)'
  BY <1>5 DEF Sign, Write
<1>6. ASSUME NEW r \in Requesters, DeleteCSR(r)
      PROVE  SharedInv(q)'
  BY <1>6 DEF DeleteCSR, Write
<1> QED
  BY <1>1, <1>2, <1>3, <1>4, <1>5, <1>6 DEF Next, Step

\* What an undisturbed requester relies on, nobody else changes.
LEMMA Frame ==
    ASSUME NEW q \in Requesters, RequesterInv(q),
           csr'[CSROf(q)] = csr[CSROf(q)], secret'[NameOf[q]] = secret[NameOf[q]],
           pc'[q] = pc[q], requests'[q] = requests[q], cert'[q] = cert[q],
           fresh'[q] = fresh[q], current'[q] = current[q], returned'[q] = returned[q]
    PROVE  RequesterInv(q)'
BY DEF RequesterInv, Undisturbed, OwnCSR, OwnCert, OwnPair, Matches, Key

\* A step of one requester changes nothing of an undisturbed other one.
LEMMA Locality ==
    ASSUME TypeOK, NEW r \in Requesters, NEW q \in Requesters, r # q, Undisturbed(q),
           \/ GetOrRequest(r) \/ Refresh(r) \/ Delete(r)
           \/ Step(r) \/ CallFails(r) \/ Crash(r)
    PROVE  /\ csr'[CSROf(q)] = csr[CSROf(q)]
           /\ secret'[NameOf[q]] = secret[NameOf[q]]
           /\ pc'[q] = pc[q] /\ requests'[q] = requests[q] /\ cert'[q] = cert[q]
           /\ fresh'[q] = fresh[q]
           /\ current'[q] = current[q] /\ returned'[q] = returned[q]
<1>1. CSROf(r) # CSROf(q) /\ NameOf[r] # NameOf[q]
  BY DEF Undisturbed, CSROf
<1> USE <1>1, NamesAssumption, CSROfType DEF TypeOK, Goto, Return, ReturnError
<1>2. CASE GetOrRequest(r) \/ Refresh(r) \/ Delete(r) \/ CallFails(r) \/ Crash(r)
  BY <1>2 DEF GetOrRequest, Refresh, Delete, CallFails, Crash
<1>3. CASE Step(r)
  BY <1>3 DEF Step, GetSecret, NoNames, CreateCSR, CSRAlreadyExists, GetExistingCSR,
     UpdateApproval, PollCSR, DeleteCSR, CreateOrUpdateSecret, GetStoredSecret, Write
<1> QED
  BY <1>2, <1>3

\* The steps of an undisturbed requester, and of the signer on its CSR.
LEMMA OwnStep ==
    ASSUME TypeOK, NEW q \in Requesters, SharedInv(q), RequesterInv(q), Undisturbed(q),
           \/ GetOrRequest(q) \/ Refresh(q) \/ Delete(q)
           \/ Step(q) \/ CallFails(q) \/ Crash(q) \/ Sign(CSROf(q))
    PROVE  RequesterInv(q)'
<1> USE NamesAssumption, CSROfType, NilAssumption
    DEF TypeOK, Goto, Return, ReturnError, RequesterInv, OwnCSR, OwnCert, OwnPair,
        Matches, Key
<1>u. Undisturbed(q)'
  BY DEF Undisturbed
<1>1. CASE GetOrRequest(q) \/ Refresh(q) \/ Delete(q)
  BY <1>1 DEF GetOrRequest, Refresh, Delete
<1>2. CASE GetSecret(q) \/ NoNames(q)
  BY <1>2 DEF GetSecret, NoNames
<1>3. CASE CreateCSR(q)
  BY <1>3 DEF CreateCSR
<1>4. CASE CSRAlreadyExists(q) \/ GetExistingCSR(q)
  BY <1>4 DEF CSRAlreadyExists, GetExistingCSR
<1>5. CASE UpdateApproval(q)
  <2>1. CASE fresh[q]
    <3>1. csr[CSROf(q)] \in CSRs
      BY <2>1 DEF SharedInv
    <3>2. csr'[CSROf(q)] = [csr[CSROf(q)] EXCEPT !.approved = TRUE]
      BY <1>5, <2>1 DEF UpdateApproval, Write
    <3>3. /\ csr'[CSROf(q)].pub = csr[CSROf(q)].pub
          /\ csr'[CSROf(q)].cert = csr[CSROf(q)].cert
          /\ csr'[CSROf(q)].approved
          /\ csr'[CSROf(q)] \in CSRs
      BY <3>1, <3>2 DEF CSRs
    <3>4. csr[CSROf(q)] # Nil
      BY <2>1 DEF SharedInv
    <3> QED
      BY <1>5, <2>1, <3>3, <3>4 DEF UpdateApproval
  <2>2. CASE ~fresh[q]
    BY <1>5, <2>2 DEF UpdateApproval
  <2> QED
    BY <2>1, <2>2
<1>6. CASE Sign(CSROf(q))
  <2>1. csr[CSROf(q)] \in CSRs
    BY <1>6 DEF Sign
  <2>2. csr'[CSROf(q)] = [csr[CSROf(q)] EXCEPT !.cert = csr[CSROf(q)].pub]
    BY <1>6 DEF Sign, Write
  <2>3. /\ csr'[CSROf(q)].pub = csr[CSROf(q)].pub
        /\ csr'[CSROf(q)].cert = csr[CSROf(q)].pub
        /\ csr'[CSROf(q)].approved = csr[CSROf(q)].approved
        /\ csr'[CSROf(q)] \in CSRs
    BY <2>1, <2>2 DEF CSRs
  <2> QED
    BY <1>6, <2>3 DEF Sign
<1>7. CASE PollCSR(q)
  BY <1>7 DEF PollCSR
<1>8. CASE DeleteCSR(q)
  BY <1>8 DEF DeleteCSR, Write
<1>9. CASE CreateOrUpdateSecret(q)
  BY <1>9 DEF CreateOrUpdateSecret
<1>10. CASE GetStoredSecret(q)
  BY <1>10 DEF GetStoredSecret
<1>11. CASE CallFails(q) \/ Crash(q)
  BY <1>11 DEF CallFails, Crash, Undisturbed, Window
<1> QED
  BY <1>1, <1>2, <1>3, <1>4, <1>5, <1>6, <1>7, <1>8, <1>9, <1>10, <1>11 DEF Step

\* Every step preserves the invariant.
LEMMA Inductive ==
    ASSUME IInv, [Next]_vars
    PROVE  IInv'
<1>0. TypeOK /\ \A r \in Requesters : SharedInv(r) /\ RequesterInv(r)
  BY DEF IInv
<1>1. TypeOK'
  BY <1>0, TypeStep
<1>2. \A q \in Requesters : SharedInv(q)'
  BY <1>0, SharedStep
<1>3. ASSUME NEW q \in Requesters PROVE RequesterInv(q)'
  <2>1. CASE ~Undisturbed(q)
    BY <2>1 DEF RequesterInv, Undisturbed
  <2>2. CASE Undisturbed(q)
    <3>1. CASE UNCHANGED vars
      BY <1>0, <3>1, Frame DEF vars
    <3>2. ASSUME NEW r \in Requesters,
                 \/ GetOrRequest(r) \/ Refresh(r) \/ Delete(r)
                 \/ Step(r) \/ CallFails(r) \/ Crash(r)
          PROVE  RequesterInv(q)'
      <4>1. CASE r = q
        BY <1>0, <2>2, <3>2, <4>1, OwnStep
      <4>2. CASE r # q
        <5>1. RequesterInv(q)
          BY <1>0
        <5> QED
          BY <1>0, <2>2, <3>2, <4>2, <5>1, Locality, Frame
      <4> QED
        BY <4>1, <4>2
    <3>3. ASSUME NEW s \in CSRNames, Sign(s)
          PROVE  RequesterInv(q)'
      <4>1. CASE s = CSROf(q)
        BY <1>0, <2>2, <3>3, <4>1, OwnStep
      <4>2. CASE s # CSROf(q)
        <5>1. csr'[CSROf(q)] = csr[CSROf(q)] /\ fresh'[q] = fresh[q]
          BY <1>0, <3>3, <4>2, CSROfType DEF Sign, Write, TypeOK
        <5> QED
          BY <1>0, <3>3, <5>1, Frame DEF Sign
      <4> QED
        BY <4>1, <4>2
    <3> QED
      BY <3>1, <3>2, <3>3 DEF Next
  <2> QED
    BY <2>1, <2>2
<1> QED
  BY <1>1, <1>2, <1>3 DEF IInv

\* The invariant holds before the first call.
LEMMA Initially ==
    ASSUME Init
    PROVE  IInv
<1> USE NamesAssumption, CSROfType, BoundsAssumption, NilAssumption DEF Init
<1>1. TypeOK
  BY DEF TypeOK
<1>2. ASSUME NEW r \in Requesters PROVE SharedInv(r) /\ RequesterInv(r)
  BY DEF SharedInv, RequesterInv, OwnCSR, OwnCert, OwnPair, Matches
<1> QED
  BY <1>1, <1>2 DEF IInv

-----------------------------------------------------------------------------
\* The invariant holds whatever the requesters call, whichever calls fail and
\* however the signing controller interleaves.
THEOREM Invariance == Spec => []IInv
<1>1. Init => IInv
  BY Initially
<1>2. IInv /\ [Next]_vars => IInv'
  BY Inductive
<1> QED
  BY <1>1, <1>2, PTL DEF Spec

\* The methods of AutoCert keep every variable in its type; in particular what
\* Request stores is a Secret with a certificate in it.
THEOREM TypeCorrect == Spec => []TypeOK
<1>1. IInv => TypeOK
  BY DEF IInv
<1> QED
  BY <1>1, Invariance, PTL

\* GetOrRequest, Refresh and Request: an AutoCert that shares its Secret and the
\* name of its CSR with no other and does not fail while its CSR exists never
\* stores, caches or returns a certificate that is not for the private key beside
\* it.
THEOREM PairsBelongTogether == Spec => []CertMatchesKey
<1>1. IInv => CertMatchesKey
  BY DEF IInv, RequesterInv, OwnPair, CertMatchesKey
<1> QED
  BY <1>1, Invariance, PTL

\* Request: such an AutoCert leaves no CSR behind.
THEOREM NoStaleCSR == Spec => []NoCSRLeftBehind
<1>1. IInv => NoCSRLeftBehind
  BY DEF IInv, RequesterInv, OwnCSR, NoCSRLeftBehind, Window
<1> QED
  BY <1>1, Invariance, PTL

\* Request: such an AutoCert never polls for a CSR that is gone or that nobody
\* approved, which would keep it in the loop forever.
THEOREM NeverPollsInVain == Spec => []PollIsAnswered
<1>1. IInv => PollIsAnswered
  BY DEF IInv, RequesterInv, OwnCSR, PollIsAnswered
<1> QED
  BY <1>1, Invariance, PTL
=============================================================================
