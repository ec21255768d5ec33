------------------------ MODULE SharedPasswordsProofs ------------------------
(***************************************************************************)
(* Proofs about ClientUtils and SharedPasswords, for any clients, objects, *)
(* programs and number of faults.                                          *)
(***************************************************************************)
EXTENDS SharedPasswords, TLAPS

\* The part of TypeOK that concerns a call in progress.
CoreType ==
    /\ object \in [Names -> Objects \cup {Nil}]
    /\ pc \in [Clients -> Calls \cup {"idle", "return", "error"}]
    /\ request \in [Clients -> Requests \cup {Nil}]
    /\ copy \in [Clients -> Specs \cup {Nil}]
    /\ fresh \in [Clients -> BOOLEAN]
    /\ result \in [Clients -> Objects \cup {Nil, Pending}]
    /\ answer \in [Clients -> Objects \cup {Nil, Error}]

\* A client that is at an API call is in a helper that makes it, and has no
\* result yet.
CallInv(c) ==
    /\ pc[c] = "idle" <=> request[c] = Nil
    /\ pc[c] = "get" => request[c].helper \in {"pod", "service"}
    /\ pc[c] \in {"create", "update"} => request[c].helper \in {"pod", "service", "policy"}
    /\ pc[c] = "delete" => request[c].helper \in {"delete", "remove"}
    /\ pc[c] \in Calls \cup {"idle"} => result[c] = Pending
    /\ pc[c] = "return" => result[c] # Pending
    /\ pc[c] = "update" /\ request[c].helper # "policy" => copy[c] # Nil

\* A copy with the current resourceVersion is equal to the object.
FreshInv(c) ==
    fresh[c] => /\ request[c] # Nil
                /\ object[request[c].name] # Nil
                /\ copy[c] = object[request[c].name].spec

CoreInv == CoreType /\ \A c \in Clients : CallInv(c) /\ FreshInv(c)

-----------------------------------------------------------------------------
\* A write leaves no copy of the object fresh.
LEMMA WriteFresh ==
    ASSUME CoreInv, NEW n \in Names, NEW obj \in Objects \cup {Nil}, Write(n, obj)
    PROVE  /\ object' \in [Names -> Objects \cup {Nil}]
           /\ fresh' \in [Clients -> BOOLEAN]
           /\ \A c \in Clients : fresh'[c] => fresh[c] /\ request[c].name # n
<1>1. \A c \in Clients : (fresh[c] /\ NameOf(c) # n) \in BOOLEAN
  OBVIOUS
<1> QED
  BY <1>1 DEF CoreInv, CoreType, Write, NameOf

\* A call in progress has a name.
LEMMA RequestType ==
    ASSUME CoreInv, NEW c \in Clients, pc[c] # "idle"
    PROVE  /\ request[c] \in Requests
           /\ request[c].name \in Names
           /\ request[c].spec \in Specs
           /\ request[c].helper \in Helpers
BY NilAssumption DEF CoreInv, CoreType, CallInv, Requests

\* Beginning a call.
LEMMA BeginStep ==
    ASSUME CoreInv, NEW c \in Clients, NEW req \in Requests, BeginCall(c, req)
    PROVE  CoreInv' /\ Store!Begin(c, req)
<1>1. Store!Begin(c, req)
  BY DEF CoreInv, CallInv, BeginCall, Store!Begin
<1>2. CoreType'
  BY DEF CoreInv, CoreType, BeginCall, Goto, FirstCall, Calls
<1>3. ASSUME NEW d \in Clients
      PROVE  CallInv(d)' /\ FreshInv(d)'
  BY NilAssumption
     DEF CoreInv, CoreType, CallInv, FreshInv, BeginCall, Goto, FirstCall, Calls,
         Requests, Helpers
<1> QED
  BY <1>1, <1>2, <1>3 DEF CoreInv

\* A call that the API server does and answers is the step in which the helper
\* takes effect.
LEMMA EffectStep ==
    ASSUME CoreInv, NEW c \in Clients, pc[c] \in Calls,
           NEW obj \in Objects \cup {Nil},
           obj = Store!Apply(request[c], object[request[c].name]),
           request[c].helper = "delete" => object[request[c].name] # Nil,
           WriteAnswered(c, obj), UNCHANGED <<request, copy, answer>>
    PROVE  CoreInv' /\ Store!Effect(c)
<1>0. /\ request[c].name \in Names /\ request[c] # Nil /\ result[c] = Pending
      /\ pc[c] # "idle"
  BY RequestType DEF CoreInv, CallInv, Calls
<1>1. Store!Effect(c)
  BY <1>0 DEF Store!Effect, WriteAnswered, Answered, Write, NameOf
<1>2. Write(request[c].name, obj)
  BY DEF WriteAnswered, NameOf
<1>3. CoreType'
  BY <1>0, <1>2, WriteFresh DEF CoreInv, CoreType, WriteAnswered, Answered, Goto
<1>4. ASSUME NEW d \in Clients
      PROVE  CallInv(d)'
  BY <1>0, NilAssumption
     DEF CoreInv, CoreType, CallInv, WriteAnswered, Answered, Goto, Calls
<1>5. ASSUME NEW d \in Clients
      PROVE  FreshInv(d)'
  <2>1. fresh'[d] => fresh[d] /\ request[d].name # request[c].name
    BY <1>0, <1>2, WriteFresh
  <2> QED
    BY <1>0, <2>1 DEF CoreInv, CoreType, FreshInv, WriteAnswered, Write, NameOf
<1> QED
  BY <1>1, <1>3, <1>4, <1>5 DEF CoreInv

\* A step that only moves the helper on to another call or to an error.
LEMMA MoveStep ==
    ASSUME CoreInv, NEW c \in Clients, NEW to \in Calls \cup {"error"}, Goto(c, to),
           pc[c] # "idle",
           to # "error" => pc[c] \in Calls,
           to \in {"get", "delete"} => FALSE,
           to = "create" => request[c].helper \in {"pod", "service", "policy"},
           to = "update" => request[c].helper = "policy",
           UNCHANGED <<object, request, copy, fresh, result, answer>>
    PROVE  CoreInv' /\ UNCHANGED Store!vars
<1>1. CoreType'
  BY DEF CoreInv, CoreType, Goto
<1>2. ASSUME NEW d \in Clients
      PROVE  CallInv(d)' /\ FreshInv(d)'
  BY DEF CoreInv, CoreType, CallInv, FreshInv, Goto, Calls
<1> QED
  BY <1>1, <1>2 DEF CoreInv, Store!vars

\* The end of a helper.
LEMMA EndStep ==
    ASSUME CoreInv, NEW c \in Clients, Return(c) \/ ReturnError(c)
    PROVE  CoreInv' /\ (Store!Succeed(c) \/ Store!Fail(c))
<1>1. Store!Succeed(c) \/ Store!Fail(c)
  BY DEF CoreInv, CallInv, Return, ReturnError, End, Store!Succeed, Store!Fail, Store!End
<1>2. CoreType'
  <2>1. \E with \in Objects \cup {Nil, Error} : End(c, with)
    BY DEF CoreInv, CoreType, CallInv, Return, ReturnError
  <2> QED
    BY <2>1 DEF CoreInv, CoreType, End, Goto
<1>3. ASSUME NEW d \in Clients
      PROVE  CallInv(d)' /\ FreshInv(d)'
  BY DEF CoreInv, CoreType, CallInv, FreshInv, Return, ReturnError, End, Goto, Calls
<1> QED
  BY <1>1, <1>2, <1>3 DEF CoreInv

\* The garbage collector.
LEMMA CollectStep ==
    ASSUME CoreInv, NEW n \in Names, Collect(n)
    PROVE  CoreInv' /\ Store!Collect(n)
<1>1. Store!Collect(n)
  BY DEF Collect, Write, Store!Collect
<1>2. CoreType'
  BY WriteFresh DEF CoreInv, CoreType, Collect
<1>3. ASSUME NEW c \in Clients
      PROVE  CallInv(c)' /\ FreshInv(c)'
  <2>1. fresh'[c] => fresh[c] /\ request[c].name # n
    BY WriteFresh DEF Collect
  <2> QED
    BY <2>1 DEF CoreInv, CoreType, CallInv, FreshInv, Collect, Write
<1> QED
  BY <1>1, <1>2, <1>3 DEF CoreInv

-----------------------------------------------------------------------------
(***************************************************************************)
(* The API calls.                                                          *)
(***************************************************************************)

\* Get: it decides on the next call, or finds that there is nothing to do.
LEMMA GetStep ==
    ASSUME CoreInv, NEW c \in Clients, Get(c)
    PROVE  CoreInv' /\ (Store!Effect(c) \/ UNCHANGED Store!vars)
<1> DEFINE obj == object[request[c].name]
<1>0. /\ request[c] \in Requests /\ request[c] # Nil /\ request[c].name \in Names
      /\ request[c].helper \in {"pod", "service"} /\ result[c] = Pending
      /\ pc[c] = "get" /\ obj \in Objects \cup {Nil}
  BY RequestType, NilAssumption DEF CoreInv, CoreType, CallInv, Calls, Get
<1>1. CASE obj = Nil
  <2>1. Goto(c, "create") /\ UNCHANGED <<object, request, copy, fresh, result, answer>>
    BY <1>1 DEF Get, NameOf
  <2> QED
    BY <1>0, <2>1, MoveStep DEF Calls
<1>2. CASE obj # Nil /\ obj.spec = request[c].spec
  <2>0. Answered(c, obj) /\ UNCHANGED <<object, request, copy, fresh, answer>>
    BY <1>2 DEF Get, NameOf
  <2>1. Store!Apply(request[c], obj) = obj
    <3>1. obj \in Objects /\ obj.spec \in Specs
      BY <1>0, <1>2 DEF Objects
    <3>2. Store!Overwrite(request[c], obj.spec) = obj.spec
      BY <1>2, <3>1, SpecsAssumption DEF Store!Overwrite
    <3> QED
      BY <1>0, <1>2, <3>1, <3>2 DEF Store!Apply, Objects
  <2>2. object' = [object EXCEPT ![request[c].name] = obj]
    BY <2>0 DEF CoreInv, CoreType
  <2>3. Store!Effect(c)
    BY <1>0, <2>0, <2>1, <2>2 DEF Answered, Store!Effect
  <2>4. CoreType'
    BY <1>0, <2>0 DEF CoreInv, CoreType, Answered, Goto
  <2>5. ASSUME NEW d \in Clients
        PROVE  CallInv(d)' /\ FreshInv(d)'
    BY <1>0, <1>2, <2>0, NilAssumption
       DEF CoreInv, CoreType, CallInv, FreshInv, Answered, Goto, Calls
  <2> QED
    BY <2>3, <2>4, <2>5 DEF CoreInv
<1>3. CASE obj # Nil /\ obj.spec # request[c].spec
  <2>0. /\ copy' = [copy EXCEPT ![c] = obj.spec]
        /\ fresh' = [fresh EXCEPT ![c] = TRUE]
        /\ Goto(c, "update")
        /\ UNCHANGED <<object, request, result, answer>>
    BY <1>3 DEF Get, NameOf
  <2>1. CoreType'
    BY <1>0, <1>3, <2>0 DEF CoreInv, CoreType, Goto, Calls, Objects
  <2>2. obj.spec # Nil
    BY <1>0, <1>3, NilAssumption DEF Objects
  <2>5. ASSUME NEW d \in Clients
        PROVE  CallInv(d)' /\ FreshInv(d)'
    BY <1>0, <1>3, <2>0, <2>2
       DEF CoreInv, CoreType, CallInv, FreshInv, Goto, Calls
  <2> QED
    BY <2>0, <2>1, <2>5 DEF CoreInv, Store!vars
<1> QED
  BY <1>1, <1>2, <1>3

\* Create: it takes effect, goes on to the update, or is refused.
LEMMA CreateStep ==
    ASSUME CoreInv, NEW c \in Clients, Create(c)
    PROVE  CoreInv' /\ (Store!Effect(c) \/ UNCHANGED Store!vars)
<1> DEFINE obj == object[request[c].name]
           new == [spec |-> request[c].spec, dying |-> FALSE]
<1>0. /\ request[c] \in Requests /\ request[c].name \in Names
      /\ request[c].helper \in {"pod", "service", "policy"}
      /\ pc[c] = "create" /\ new \in Objects
  BY RequestType DEF CoreInv, CallInv, Calls, Create, Objects
<1>1. CASE obj = Nil
  <2>1. Store!Apply(request[c], obj) = new
    BY <1>0, <1>1 DEF Store!Apply
  <2>2. WriteAnswered(c, new) /\ UNCHANGED <<request, copy, answer>>
    BY <1>1 DEF Create, NameOf, Refused
  <2> QED
    BY <1>0, <2>1, <2>2, EffectStep DEF Calls
<1>2. CASE obj # Nil /\ request[c].helper = "policy"
  <2>1. Goto(c, "update") /\ UNCHANGED <<object, request, copy, fresh, result, answer>>
    BY <1>2 DEF Create, NameOf, Refused
  <2> QED
    BY <1>0, <1>2, <2>1, MoveStep DEF Calls
<1>3. CASE obj # Nil /\ request[c].helper # "policy"
  <2>1. Goto(c, "error") /\ UNCHANGED <<object, request, copy, fresh, result, answer>>
    BY <1>3 DEF Create, NameOf, Refused
  <2> QED
    BY <1>0, <2>1, MoveStep
<1> QED
  BY <1>1, <1>2, <1>3

\* Update: the copy that is written back is the object itself, or the update is
\* refused.
LEMMA UpdateStep ==
    ASSUME CoreInv, NEW c \in Clients, Update(c)
    PROVE  CoreInv' /\ (Store!Effect(c) \/ UNCHANGED Store!vars)
<1> DEFINE obj == object[request[c].name]
           new == [obj EXCEPT !.spec = Updated(c)]
           accepted == IF request[c].helper = "policy" THEN obj # Nil ELSE fresh[c]
<1>0. /\ request[c] \in Requests /\ request[c].name \in Names
      /\ request[c].helper \in {"pod", "service", "policy"}
      /\ request[c].spec \in Specs
      /\ pc[c] = "update" /\ obj \in Objects \cup {Nil}
  BY RequestType DEF CoreInv, CoreType, CallInv, Calls, Update
<1>1. CASE accepted
  <2>1. obj \in Objects /\ obj.spec \in Specs
    BY <1>0, <1>1 DEF CoreInv, FreshInv, Objects
  <2>2. Updated(c) = Store!Overwrite(request[c], obj.spec)
    BY <1>0, <1>1 DEF CoreInv, FreshInv, Updated, Store!Overwrite
  <2>3. Updated(c) \in Specs
    BY <1>0, <2>1, <2>2, SpecsAssumption DEF Store!Overwrite
  <2>4. new \in Objects /\ new = Store!Apply(request[c], obj)
    BY <1>0, <2>1, <2>2, <2>3, NilAssumption DEF Objects, Store!Apply
  <2>5. WriteAnswered(c, new) /\ UNCHANGED <<request, copy, answer>>
    BY <1>1 DEF Update, NameOf
  <2> QED
    BY <1>0, <2>4, <2>5, EffectStep DEF Calls
<1>2. CASE ~accepted
  <2>1. Goto(c, "error") /\ UNCHANGED <<object, request, copy, fresh, result, answer>>
    BY <1>2 DEF Update, NameOf, Refused
  <2> QED
    BY <1>0, <2>1, MoveStep
<1> QED
  BY <1>1, <1>2

\* Both kinds of deletion.
LEMMA DeleteStep ==
    ASSUME CoreInv, NEW c \in Clients, DeleteForeground(c) \/ Remove(c)
    PROVE  CoreInv' /\ (Store!Effect(c) \/ UNCHANGED Store!vars)
<1> DEFINE obj == object[request[c].name]
           new == [obj EXCEPT !.dying = TRUE]
<1>0. /\ request[c] \in Requests /\ request[c].name \in Names
      /\ pc[c] = "delete" /\ obj \in Objects \cup {Nil}
  BY RequestType DEF CoreInv, CoreType, Calls, DeleteForeground, Remove
<1>1. CASE Remove(c)
  BY <1>0, <1>1, EffectStep DEF Remove, Store!Apply, Calls
<1>2. CASE DeleteForeground(c) /\ obj # Nil
  <2>1. new \in Objects /\ new = Store!Apply(request[c], obj)
    BY <1>0, <1>2 DEF Objects, DeleteForeground, Store!Apply
  <2>2. WriteAnswered(c, new) /\ UNCHANGED <<request, copy, answer>>
    BY <1>2 DEF DeleteForeground, NameOf
  <2> QED
    BY <1>0, <1>2, <2>1, <2>2, EffectStep DEF Calls
<1>3. CASE DeleteForeground(c) /\ obj = Nil
  <2>1. Goto(c, "error") /\ UNCHANGED <<object, request, copy, fresh, result, answer>>
    BY <1>3 DEF DeleteForeground, NameOf, Refused
  <2> QED
    BY <1>0, <2>1, MoveStep
<1> QED
  BY <1>1, <1>2, <1>3

\* An API call, whatever comes of it, is the effect of the helper or nothing.
LEMMA ApiCallStep ==
    ASSUME CoreInv, NEW c \in Clients, ApiStep(c)
    PROVE  CoreInv' /\ (Store!Effect(c) \/ UNCHANGED Store!vars)
<1>1. CASE CallFails(c)
  <2>1. /\ Goto(c, "error") /\ pc[c] # "idle"
        /\ UNCHANGED <<object, request, copy, fresh, result, answer>>
    BY <1>1 DEF CallFails, Calls
  <2> QED
    BY <2>1, MoveStep
<1> QED
  BY <1>1, GetStep, CreateStep, UpdateStep, DeleteStep DEF ApiStep

-----------------------------------------------------------------------------
(***************************************************************************)
(* Users of passwords.                                                     *)
(***************************************************************************)
CallsType == calls \in [Clients -> Seq(Requests)] /\ faults \in 0 .. MaxFaults

UserType ==
    /\ names \in [Clients -> Seq(Names)]
    /\ stage \in [Clients -> {"none", "load", "publish", "done", "failed"}]
    /\ next \in [Clients -> Nat]
    /\ \A u \in Clients : next[u] \in 1 .. Len(names[u]) + 1
    /\ contents \in [Clients -> [Names -> Specs \cup {Nil}]]
    /\ published \in [Clients -> SUBSET Names]

\* Every name that was loaded has a password; only publishing makes calls.
LoadInv(u) ==
    /\ stage[u] = "load" => next[u] \in 1 .. Len(names[u])
    /\ stage[u] = "publish" => next[u] = Len(names[u]) + 1
    /\ \A i \in 1 .. next[u] - 1 : contents[u][names[u][i]] # Nil
    /\ stage[u] \in {"load", "done", "failed"} => pc[u] = "idle"

\* A call in progress publishes a password the user holds.
PublishInv(u) ==
    stage[u] = "publish" /\ pc[u] # "idle" =>
        /\ request[u].helper = "policy"
        /\ request[u].name \in NamesOf(u) \ published[u]
        /\ request[u].spec = contents[u][request[u].name]

Shared == UNION {NamesOf(u) : u \in Clients}

\* Clients that are not users do no more than remove Secrets of passwords.
OnlyRemoves(req) == req.name \in Shared => req.helper = "remove"

RemoveInv(c) ==
    stage[c] = "none" =>
        /\ pc[c] # "idle" => OnlyRemoves(request[c])
        /\ \A i \in 1 .. Len(calls[c]) : OnlyRemoves(calls[c][i])

UserInv == \A u \in Clients : LoadInv(u) /\ PublishInv(u) /\ RemoveInv(u)

PInv == CoreInv /\ CallsType /\ UserType /\ UserInv

\* The parts of the type invariant.
LEMMA Types == CoreType /\ CallsType /\ UserType => PasswordTypeOK
BY DEF CoreType, CallsType, UserType, PasswordTypeOK, TypeOK

\* Before the first call the helpers are idle and the API server is empty.
LEMMA CoreInit ==
    ASSUME Init
    PROVE  CoreInv /\ CallsType /\ Store!Init
<1>1. CoreType /\ CallsType
  BY ProgramsAssumption, BoundsAssumption DEF Init, CoreType, CallsType
<1>2. ASSUME NEW c \in Clients
      PROVE  CallInv(c) /\ FreshInv(c)
  BY <1>1 DEF Init, CallInv, FreshInv, Calls
<1> QED
  BY <1>1, <1>2 DEF Init, Store!Init, CoreInv

\* The invariant holds before the first step.
LEMMA PInitInv ==
    ASSUME PInit
    PROVE  PInv
<1>1. CoreInv /\ CallsType
  BY CoreInit DEF PInit
<1>2. PICK load \in Loads : calls = load.calls /\ names = load.names
  BY DEF PInit
<1>3. UserType
  BY <1>2, LoadsAssumption DEF PInit, UserType
<1>4. ASSUME NEW u \in Clients
      PROVE  LoadInv(u) /\ PublishInv(u)
  <2>1. pc[u] = "idle" /\ next[u] = 1 /\ names[u] \in Seq(Names)
    BY <1>3 DEF PInit, Init, UserType
  <2>2. stage[u] = "load" => Len(names[u]) > 0
    BY <2>1 DEF PInit
  <2> QED
    BY <2>1, <2>2 DEF PInit, LoadInv, PublishInv
<1>5. ASSUME NEW c \in Clients
      PROVE  RemoveInv(c)
  <2>1. ASSUME NEW i \in 1 .. Len(calls[c])
        PROVE  OnlyRemoves(calls[c][i])
    <3>1. SUFFICES ASSUME NEW u \in Clients, calls[c][i].name \in NamesOf(u)
                   PROVE  calls[c][i].helper = "remove"
      BY DEF OnlyRemoves, Shared
    <3>2. PICK j \in 1 .. Len(names[u]) : calls[c][i].name = names[u][j]
      BY <3>1 DEF NamesOf
    <3> QED
      BY <1>2, <3>2, OwnersAssumption
  <2> QED
    BY <2>1 DEF RemoveInv, PInit, Init
<1> QED
  BY <1>1, <1>3, <1>4, <1>5 DEF PInv, UserInv

\* What a step of a user or of a client is for the API server.
LEMMA StoreStep ==
    ASSUME PInv, [PNext]_allVars
    PROVE  CoreInv' /\ [Store!Next]_(Store!vars)
<1>0. CoreInv
  BY DEF PInv
<1>u. ASSUME UNCHANGED <<object, pc, request, copy, fresh, result, answer>>
      PROVE  CoreInv' /\ UNCHANGED Store!vars
  BY <1>0, <1>u DEF CoreInv, CoreType, CallInv, FreshInv, Store!vars
<1>1. CASE UNCHANGED allVars \/ Finished
  BY <1>1, <1>u DEF allVars, vars, Finished
<1>2. ASSUME NEW u \in Clients, LoadPassword(u) \/ LoadFails(u)
      PROVE  CoreInv' /\ UNCHANGED Store!vars
  BY <1>2, <1>u DEF LoadPassword, LoadFails, vars
<1>3. ASSUME NEW u \in Clients, NEW n \in Names, CreateOrUpdateToSecret(u, n)
      PROVE  CoreInv' /\ Store!Next
  <2> DEFINE req == [helper |-> "policy", name |-> n, spec |-> contents[u][n]]
  <2>1. contents[u][n] \in Specs
    BY <1>3 DEF CreateOrUpdateToSecret, PInv, UserInv, LoadInv, UserType, NamesOf
  <2>2. req \in Requests
    BY <2>1 DEF Requests, Helpers
  <2>3. BeginCall(u, req)
    BY <1>3 DEF CreateOrUpdateToSecret
  <2> QED
    BY <1>0, <2>2, <2>3, BeginStep DEF Store!Next
<1>4. ASSUME NEW u \in Clients, Return(u) \/ ReturnError(u)
      PROVE  CoreInv' /\ Store!Next
  BY <1>0, <1>4, EndStep DEF Store!Next
<1>5. ASSUME NEW c \in Clients, Call(c)
      PROVE  CoreInv' /\ Store!Next
  <2>1. Head(calls[c]) \in Requests /\ BeginCall(c, Head(calls[c]))
    BY <1>5 DEF PInv, CallsType, Call
  <2> QED
    BY <1>0, <2>1, BeginStep DEF Store!Next
<1>6. ASSUME NEW c \in Clients, ApiStep(c)
      PROVE  CoreInv' /\ [Store!Next]_(Store!vars)
  BY <1>0, <1>6, ApiCallStep DEF Store!Next
<1>7. ASSUME NEW n \in Names, Collect(n)
      PROVE  CoreInv' /\ Store!Next
  BY <1>0, <1>7, CollectStep DEF Store!Next
<1> QED
  BY <1>1, <1>2, <1>3, <1>4, <1>5, <1>6, <1>7
     DEF PNext, UserStep, ClientStep, Published, PublishFails
-----------------------------------------------------------------------------
(***************************************************************************)
(* The invariant of the users.                                             *)
(***************************************************************************)

\* An API call of c moves nothing but c, and c stays in its helper.
LEMMA ApiFrame ==
    ASSUME CoreInv, NEW c \in Clients, ApiStep(c)
    PROVE  /\ UNCHANGED <<calls, request>>
           /\ faults' = faults \/ (faults < MaxFaults /\ faults' = faults + 1)
           /\ pc[c] # "idle" /\ pc'[c] # "idle"
           /\ \A d \in Clients : pc[d] = "idle" => pc'[d] = "idle"
<1>1. \E to \in Calls \cup {"return", "error"} : Goto(c, to)
  BY DEF ApiStep, Get, Create, Update, DeleteForeground, Remove, CallFails,
         WriteAnswered, Answered, Refused, Calls
<1>2. pc[c] # "idle"
  BY DEF ApiStep, Get, Create, Update, DeleteForeground, Remove, CallFails, Calls
<1>3. /\ UNCHANGED <<calls, request>>
      /\ faults' = faults \/ (faults < MaxFaults /\ faults' = faults + 1)
  BY DEF ApiStep, Get, Create, Update, DeleteForeground, Remove, CallFails
<1> QED
  BY <1>1, <1>2, <1>3 DEF CoreInv, CoreType, Goto, Calls

\* Calls are taken from the front of the program, and faults are bounded.
LEMMA CallsTypeStep ==
    ASSUME PInv, [PNext]_allVars
    PROVE  CallsType'
<1> USE BoundsAssumption
<1>1. ASSUME UNCHANGED <<calls, faults>>
      PROVE  CallsType'
  BY <1>1 DEF PInv, CallsType
<1>2. ASSUME NEW u \in Clients, LoadFails(u)
      PROVE  CallsType'
  BY <1>2 DEF PInv, CallsType, LoadFails
<1>3. ASSUME NEW c \in Clients, Call(c)
      PROVE  CallsType'
  <2>1. Tail(calls[c]) \in Seq(Requests)
    BY <1>3 DEF PInv, CallsType, Call
  <2> QED
    BY <1>3, <2>1 DEF PInv, CallsType, Call, BeginCall
<1>4. ASSUME NEW c \in Clients, ApiStep(c)
      PROVE  CallsType'
  BY <1>4, ApiFrame DEF PInv, CallsType
<1> QED
  BY <1>1, <1>2, <1>3, <1>4
     DEF PNext, UserStep, ClientStep, LoadPassword, CreateOrUpdateToSecret, BeginCall,
         Published, PublishFails, Return, ReturnError, End, Collect, Finished, allVars, vars

\* The password a user loads is one.
LEMMA LoadedType ==
    ASSUME PInv, NEW u \in Clients, NEW n \in Names
    PROVE  GetFromSecret(u, n) \in Specs /\ GetFromSecret(u, n) # Nil
<1>1. object[n] \in Objects \cup {Nil}
  BY DEF PInv, CoreInv, CoreType
<1>2. object[n] # Nil => object[n].spec \in Specs
  BY <1>1 DEF Objects
<1> QED
  BY <1>2, RandAssumption, NilAssumption DEF GetFromSecret

\* A user keeps to the types of its variables.
LEMMA UserTypeStep ==
    ASSUME PInv, [PNext]_allVars
    PROVE  UserType'
<1>1. ASSUME UNCHANGED passwordVars
      PROVE  UserType'
  BY <1>1 DEF PInv, UserType, passwordVars
<1>2. ASSUME NEW u \in Clients, LoadPassword(u)
      PROVE  UserType'
  <2>1. names[u] \in Seq(Names) /\ next[u] \in 1 .. Len(names[u])
    BY <1>2 DEF PInv, UserType, UserInv, LoadInv, LoadPassword
  <2>2. names[u][next[u]] \in Names
    BY <2>1
  <2>3. GetFromSecret(u, names[u][next[u]]) \in Specs
    BY <2>2, LoadedType
  <2>4. contents' \in [Clients -> [Names -> Specs \cup {Nil}]]
    BY <1>2, <2>2, <2>3 DEF PInv, UserType, LoadPassword
  <2> QED
    BY <1>2, <2>1, <2>4 DEF PInv, UserType, LoadPassword
<1>3. ASSUME NEW u \in Clients, LoadFails(u) \/ PublishFails(u)
      PROVE  UserType'
  BY <1>3 DEF PInv, UserType, LoadFails, PublishFails
<1>4. ASSUME NEW u \in Clients, Published(u)
      PROVE  UserType'
  <2>1. NameOf(u) \in Names
    BY <1>4, RequestType DEF PInv, Published, Return, NameOf
  <2> QED
    BY <1>4, <2>1 DEF PInv, UserType, Published
<1> QED
  BY <1>1, <1>2, <1>3, <1>4
     DEF PNext, UserStep, ClientStep, CreateOrUpdateToSecret, Finished, allVars

\* Names are loaded one after the other, and only then published.
LEMMA LoadInvStep ==
    ASSUME PInv, [PNext]_allVars, NEW v \in Clients
    PROVE  LoadInv(v)'
<1>0. /\ LoadInv(v) /\ names[v] \in Seq(Names) /\ next[v] \in Nat
      /\ stage[v] \in {"none", "load", "publish", "done", "failed"}
  BY DEF PInv, UserInv, UserType
<1>1. ASSUME UNCHANGED <<passwordVars, pc>>
      PROVE  LoadInv(v)'
  BY <1>0, <1>1 DEF LoadInv, passwordVars
<1>2. ASSUME NEW u \in Clients, LoadPassword(u)
      PROVE  LoadInv(v)'
  <2>1. CASE u # v
    BY <1>0, <1>2, <2>1 DEF PInv, UserType, LoadInv, LoadPassword, vars
  <2>2. CASE u = v
    <3> DEFINE n == names[v][next[v]]
    <3>1. next[v] \in 1 .. Len(names[v]) /\ n \in Names
      BY <1>0, <1>2, <2>2 DEF LoadInv, LoadPassword
    <3>2. /\ contents'[v] = [contents[v] EXCEPT ![n] = GetFromSecret(v, n)]
          /\ next'[v] = next[v] + 1 /\ UNCHANGED <<names, pc>>
          /\ stage'[v] = IF next[v] = Len(names[v]) THEN "publish" ELSE "load"
          /\ pc[v] = "idle"
      BY <1>0, <1>2, <2>2 DEF PInv, UserType, LoadInv, LoadPassword, vars
    <3>3. ASSUME NEW i \in 1 .. next[v]
          PROVE  contents'[v][names[v][i]] # Nil
      <4>1. i \in 1 .. Len(names[v]) /\ names[v][i] \in Names
        BY <1>0, <3>1
      <4>2. contents[v] \in [Names -> Specs \cup {Nil}]
        BY DEF PInv, UserType
      <4>3. names[v][i] # n => contents[v][names[v][i]] # Nil
        BY <1>0, <3>1, <4>1 DEF LoadInv
      <4> QED
        BY <3>1, <3>2, <4>1, <4>2, <4>3, LoadedType
    <3> QED
      BY <1>0, <3>1, <3>2, <3>3 DEF LoadInv
  <2> QED
    BY <2>1, <2>2
<1>3. ASSUME NEW u \in Clients, LoadFails(u)
      PROVE  LoadInv(v)'
  BY <1>0, <1>3 DEF PInv, UserType, LoadInv, LoadFails
<1>4. ASSUME NEW u \in Clients, NEW n \in Names, CreateOrUpdateToSecret(u, n)
      PROVE  LoadInv(v)'
  BY <1>0, <1>4
     DEF PInv, CoreInv, CoreType, LoadInv, CreateOrUpdateToSecret, BeginCall, Goto, passwordVars
<1>5. ASSUME NEW u \in Clients, Published(u) \/ PublishFails(u)
      PROVE  LoadInv(v)'
  BY <1>0, <1>5
     DEF PInv, CoreInv, CoreType, UserType, LoadInv, Published, PublishFails, Return,
         ReturnError, End, Goto
<1>6. ASSUME NEW c \in Clients, stage[c] = "none",
             Call(c) \/ Return(c) \/ ReturnError(c), UNCHANGED passwordVars
      PROVE  LoadInv(v)'
  BY <1>0, <1>6
     DEF PInv, CoreInv, CoreType, LoadInv, Call, BeginCall, Return, ReturnError, End, Goto,
         passwordVars
<1>7. ASSUME NEW c \in Clients, ApiStep(c), UNCHANGED passwordVars
      PROVE  LoadInv(v)'
  BY <1>0, <1>7, ApiFrame DEF PInv, LoadInv, passwordVars
<1> QED
  BY <1>1, <1>2, <1>3, <1>4, <1>5, <1>6, <1>7
     DEF PNext, UserStep, ClientStep, Collect, Finished, allVars, vars

\* What a user publishes is what it holds.
LEMMA PublishInvStep ==
    ASSUME PInv, [PNext]_allVars, NEW v \in Clients
    PROVE  PublishInv(v)'
<1>0. /\ LoadInv(v) /\ PublishInv(v)
      /\ stage[v] \in {"none", "load", "publish", "done", "failed"}
  BY DEF PInv, UserInv, UserType
<1>1. ASSUME UNCHANGED <<passwordVars, request>>, pc[v] = "idle" => pc'[v] = "idle"
      PROVE  PublishInv(v)'
  BY <1>0, <1>1 DEF PublishInv, NamesOf, passwordVars
<1>2. ASSUME NEW u \in Clients, LoadPassword(u)
      PROVE  PublishInv(v)'
  BY <1>0, <1>2 DEF PInv, UserType, LoadInv, PublishInv, NamesOf, LoadPassword, vars
<1>3. ASSUME NEW u \in Clients, LoadFails(u)
      PROVE  PublishInv(v)'
  BY <1>0, <1>3 DEF PInv, UserType, PublishInv, NamesOf, LoadFails
<1>4. ASSUME NEW u \in Clients, NEW n \in Names, CreateOrUpdateToSecret(u, n)
      PROVE  PublishInv(v)'
  BY <1>0, <1>4
     DEF PInv, CoreInv, CoreType, PublishInv, NamesOf, CreateOrUpdateToSecret, BeginCall,
         Goto, passwordVars
<1>5. ASSUME NEW u \in Clients, Published(u) \/ PublishFails(u)
      PROVE  PublishInv(v)'
  <2>1. CASE u = v
    <3>1. pc'[v] = "idle"
      BY <1>5, <2>1
         DEF PInv, CoreInv, CoreType, Published, PublishFails, Return, ReturnError, End, Goto
    <3> QED
      BY <3>1 DEF PublishInv
  <2>2. CASE u # v
    <3>1. /\ pc'[v] = pc[v] /\ request'[v] = request[v] /\ stage'[v] = stage[v]
          /\ published'[v] = published[v] /\ UNCHANGED <<names, contents>>
      BY <1>5, <2>2
         DEF PInv, CoreInv, CoreType, UserType, Published, PublishFails, Return, ReturnError,
             End, Goto
    <3> QED
      BY <1>0, <3>1 DEF PublishInv, NamesOf
  <2> QED
    BY <2>1, <2>2
<1>6. ASSUME NEW c \in Clients, stage[c] = "none",
             Call(c) \/ Return(c) \/ ReturnError(c), UNCHANGED passwordVars
      PROVE  PublishInv(v)'
  BY <1>0, <1>6
     DEF PInv, CoreInv, CoreType, PublishInv, NamesOf, Call, BeginCall, Return, ReturnError,
         End, Goto, passwordVars
<1>7. ASSUME NEW c \in Clients, ApiStep(c), UNCHANGED passwordVars
      PROVE  PublishInv(v)'
  BY <1>1, <1>7, ApiFrame DEF PInv
<1> QED
  BY <1>1, <1>2, <1>3, <1>4, <1>5, <1>6, <1>7
     DEF PNext, UserStep, ClientStep, Collect, Finished, allVars, vars

\* Nobody is given other names, and the clients that are no users stay so.
LEMMA NamesFrame ==
    ASSUME PInv, [PNext]_allVars
    PROVE  /\ UNCHANGED names
           /\ \A c \in Clients : stage'[c] = "none" <=> stage[c] = "none"
<1>1. UNCHANGED names
  BY DEF PNext, UserStep, ClientStep, LoadPassword, LoadFails, CreateOrUpdateToSecret,
         Published, PublishFails, Finished, allVars, passwordVars
<1>2. ASSUME NEW u \in Clients, UserStep(u), NEW c \in Clients
      PROVE  stage'[c] = "none" <=> stage[c] = "none"
  BY <1>2 DEF PInv, UserType, UserStep, LoadPassword, LoadFails, CreateOrUpdateToSecret,
              Published, PublishFails, passwordVars
<1> QED
  BY <1>1, <1>2 DEF PNext, ClientStep, Finished, allVars, passwordVars

\* Clients that are not users go on to do no more than remove Secrets.
LEMMA RemoveInvStep ==
    ASSUME PInv, [PNext]_allVars, NEW c \in Clients
    PROVE  RemoveInv(c)'
<1>0. SUFFICES ASSUME stage[c] = "none", stage'[c] = "none"
               PROVE  RemoveInv(c)'
  BY NamesFrame DEF RemoveInv
<1>1. RemoveInv(c) /\ calls[c] \in Seq(Requests)
  BY DEF PInv, UserInv, CallsType
<1>2. \A req : OnlyRemoves(req)' <=> OnlyRemoves(req)
  BY NamesFrame DEF OnlyRemoves, Shared, NamesOf
<1>3. ASSUME calls'[c] = calls[c], request'[c] = request[c], pc[c] = "idle" => pc'[c] = "idle"
      PROVE  RemoveInv(c)'
  BY <1>0, <1>1, <1>2, <1>3 DEF RemoveInv, OnlyRemoves, Shared, NamesOf
<1>4. ASSUME Call(c)
      PROVE  RemoveInv(c)'
  <2>1. /\ calls'[c] = Tail(calls[c]) /\ request'[c] = calls[c][1] /\ Len(calls[c]) > 0
    BY <1>1, <1>4 DEF PInv, CallsType, CoreInv, CoreType, Call, BeginCall
  <2>2. \A i \in 1 .. Len(calls'[c]) : calls'[c][i] = calls[c][i + 1]
    BY <1>1, <2>1
  <2> QED
    BY <1>0, <1>1, <1>2, <2>1, <2>2 DEF RemoveInv
<1>5. ASSUME Return(c) \/ ReturnError(c)
      PROVE  RemoveInv(c)'
  BY <1>0, <1>1, <1>2, <1>5 DEF PInv, CoreInv, CoreType, RemoveInv, Return, ReturnError, End, Goto
<1>6. ASSUME NEW d \in Clients, UserStep(d)
      PROVE  RemoveInv(c)'
  <2>1. d # c
    BY <1>0, <1>6 DEF UserStep, LoadPassword, LoadFails, CreateOrUpdateToSecret, Published,
                      PublishFails
  <2>2. calls' = calls /\ request'[c] = request[c] /\ pc'[c] = pc[c]
    BY <1>6, <2>1
       DEF PInv, CoreInv, CoreType, UserStep, LoadPassword, LoadFails, CreateOrUpdateToSecret,
           Published, PublishFails, BeginCall, Return, ReturnError, End, Goto, vars
  <2> QED
    BY <1>3, <2>2
<1>7. ASSUME NEW d \in Clients, d # c, Call(d) \/ Return(d) \/ ReturnError(d)
      PROVE  RemoveInv(c)'
  <2>1. calls'[c] = calls[c] /\ request'[c] = request[c] /\ pc'[c] = pc[c]
    BY <1>7 DEF PInv, CallsType, CoreInv, CoreType, Call, BeginCall, Return, ReturnError, End, Goto
  <2> QED
    BY <1>3, <2>1
<1>8. ASSUME NEW d \in Clients, ApiStep(d)
      PROVE  RemoveInv(c)'
  BY <1>3, <1>8, ApiFrame DEF PInv
<1>9. CASE UNCHANGED allVars \/ Finished \/ \E n \in Names : Collect(n)
  BY <1>3, <1>9 DEF Finished, Collect, allVars, vars
<1> QED
  BY <1>4, <1>5, <1>6, <1>7, <1>8, <1>9 DEF PNext, ClientStep

-----------------------------------------------------------------------------
(***************************************************************************)
(* The theorems.                                                           *)
(***************************************************************************)

\* The invariant holds in every state, whatever the clients call and remove and
\* whichever calls fail.
THEOREM Invariance == PSpec => []PInv
<1>1. PInit => PInv
  BY PInitInv
<1>2. PInv /\ [PNext]_allVars => PInv'
  <2> SUFFICES ASSUME PInv, [PNext]_allVars
               PROVE  PInv'
    OBVIOUS
  <2>1. CoreInv' /\ CallsType' /\ UserType'
    BY StoreStep, CallsTypeStep, UserTypeStep
  <2>2. UserInv'
    BY LoadInvStep, PublishInvStep, RemoveInvStep DEF UserInv
  <2> QED
    BY <2>1, <2>2 DEF PInv
<1> QED
  BY <1>1, <1>2, PTL DEF PSpec

\* The helpers of pkg/client/utils.go and the loops of pkg/crypto/password.go
\* keep every variable in its type.
THEOREM TypeCorrect == PSpec => []PasswordTypeOK
<1>1. PInv => PasswordTypeOK
  BY Types DEF PInv, CoreInv
<1> QED
  BY <1>1, Invariance, PTL

\* Create-or-update and delete, as several API calls that other clients may
\* get between, act like the one atomic step that ObjectStore describes.
THEOREM Refinement == PSpec => ImplementsStore
<1>1. PInit => Store!Init
  BY CoreInit DEF PInit
<1>2. PInv /\ [PNext]_allVars => [Store!Next]_(Store!vars)
  BY StoreStep
<1> QED
  BY <1>1, <1>2, Invariance, PTL DEF PSpec, ImplementsStore, Store!Spec

\* The Secret of a settled password is not overwritten with another one.
LEMMA SettledWrite ==
    ASSUME PInv, NEW c \in Clients, ApiStep(c), NEW n \in Shared,
           Settled(n), object'[n] # Nil
    PROVE  object'[n].spec = object[n].spec
<1>0. /\ object \in [Names -> Objects \cup {Nil}] /\ object[n] # Nil
      /\ pc[c] # "idle" /\ n \in Names
  BY ApiFrame DEF PInv, CoreInv, CoreType, UserType, Settled, Shared, NamesOf
<1>1. /\ request[c].name \in Names /\ request[c].spec \in Specs
      /\ request[c].spec # Nil /\ object[n] \in Objects
  BY <1>0, RequestType, NilAssumption DEF PInv
<1>2. CASE request[c].name # n
  BY <1>0, <1>1, <1>2
     DEF ApiStep, Get, Create, Update, DeleteForeground, Remove, CallFails, WriteAnswered,
         Write, Refused, NameOf
<1>3. CASE request[c].name = n /\ stage[c] = "none"
  <2>1. request[c].helper = "remove"
    BY <1>0, <1>3 DEF PInv, UserInv, RemoveInv, OnlyRemoves
  <2>2. Remove(c) \/ CallFails(c)
    BY <2>1, <1>0 DEF ApiStep, Get, Create, Update, DeleteForeground, PInv, CoreInv, CallInv
  <2> QED
    BY <1>0, <1>1, <1>3, <2>2 DEF Remove, CallFails, WriteAnswered, Write, NameOf
<1>4. CASE request[c].name = n /\ stage[c] = "publish"
  <2>1. /\ request[c].helper = "policy" /\ n \in NamesOf(c) \ published[c]
        /\ request[c].spec = contents[c][n]
    BY <1>0, <1>4 DEF PInv, UserInv, PublishInv
  <2>2. request[c].spec = object[n].spec
    BY <1>1, <1>4, <2>1 DEF Settled, MayPublish
  <2>3. Create(c) \/ Update(c) \/ CallFails(c)
    BY <2>1 DEF ApiStep, Get, DeleteForeground, Remove, PInv, CoreInv, CallInv
  <2>4. object'[n] = object[n] \/ object'[n] = [object[n] EXCEPT !.spec = request[c].spec]
    BY <1>0, <1>4, <2>1, <2>3
       DEF Create, Update, CallFails, WriteAnswered, Write, Refused, NameOf, Updated
  <2> QED
    BY <1>1, <2>2, <2>4 DEF Objects
<1> QED
  BY <1>0, <1>2, <1>3, <1>4 DEF PInv, UserType, UserInv, LoadInv

\* A user that may publish n after a step holds what it held before, or what it
\* has just loaded.
LEMMA SettledContents ==
    ASSUME PInv, [PNext]_allVars, NEW u \in Clients, NEW n \in Names,
           object[n] # Nil, MayPublish(u, n)'
    PROVE  \/ MayPublish(u, n) /\ contents'[u][n] = contents[u][n]
           \/ contents'[u][n] = object[n].spec
<1>0. /\ contents \in [Clients -> [Names -> Specs \cup {Nil}]]
      /\ stage \in [Clients -> {"none", "load", "publish", "done", "failed"}]
      /\ published \in [Clients -> SUBSET Names]
  BY DEF PInv, UserType
<1>1. CASE UNCHANGED passwordVars
  BY <1>1 DEF MayPublish, passwordVars
<1>2. ASSUME NEW v \in Clients, LoadPassword(v)
      PROVE  \/ MayPublish(u, n) /\ contents'[u][n] = contents[u][n]
             \/ contents'[u][n] = object[n].spec
  <2>1. names[v][next[v]] \in Names
    BY <1>2 DEF PInv, UserType, UserInv, LoadInv, LoadPassword
  <2>2. CASE u = v /\ names[v][next[v]] = n
    BY <1>0, <1>2, <2>2 DEF LoadPassword, GetFromSecret
  <2>3. CASE ~(u = v /\ names[v][next[v]] = n)
    <3>1. contents'[u][n] = contents[u][n]
      BY <1>0, <1>2, <2>1, <2>3 DEF LoadPassword
    <3> QED
      BY <1>0, <1>2, <3>1 DEF LoadPassword, MayPublish
  <2> QED
    BY <2>2, <2>3
<1>3. ASSUME NEW v \in Clients, LoadFails(v) \/ Published(v) \/ PublishFails(v)
      PROVE  MayPublish(u, n) /\ contents'[u][n] = contents[u][n]
  BY <1>0, <1>3 DEF LoadFails, Published, PublishFails, MayPublish
<1> QED
  BY <1>1, <1>2, <1>3
     DEF PNext, UserStep, ClientStep, CreateOrUpdateToSecret, Finished, allVars

\* Once the users agree on a password that is published, NewSharedPasswordsSet
\* and CreateOrUpdateToSecrets never change it again, in any interleaving, until
\* its Secret is removed.
THEOREM SettledStays == PSpec => SettledPasswordStays
<1> DEFINE Stays(n) == Settled(n) /\ object'[n] # Nil
                           => Settled(n)' /\ object'[n].spec = object[n].spec
<1>1. PInv /\ [PNext]_allVars => \A n \in Shared : Stays(n)
  <2> SUFFICES ASSUME PInv, [PNext]_allVars, NEW n \in Shared, Settled(n), object'[n] # Nil
               PROVE  Settled(n)' /\ object'[n].spec = object[n].spec
    OBVIOUS
  <2>0. /\ object \in [Names -> Objects \cup {Nil}] /\ object[n] # Nil /\ n \in Names
    BY DEF PInv, CoreInv, CoreType, UserType, Settled, Shared, NamesOf
  <2>1. object'[n].spec = object[n].spec
    <3>1. ASSUME NEW m \in Names, Collect(m)
          PROVE  object'[n].spec = object[n].spec
      BY <2>0, <3>1 DEF Collect, Write
    <3> QED
      BY <3>1, SettledWrite
         DEF PNext, UserStep, ClientStep, LoadPassword, LoadFails, CreateOrUpdateToSecret,
             Published, PublishFails, Call, BeginCall, Return, ReturnError, End, Finished,
             allVars, vars
  <2>2. ASSUME NEW u \in Clients, MayPublish(u, n)'
        PROVE  contents'[u][n] = object'[n].spec
    BY <2>0, <2>1, <2>2, SettledContents DEF Settled
  <2> QED
    BY <2>1, <2>2 DEF Settled
<1>2. PInv /\ [PNext]_allVars
          => [\A n \in UNION {NamesOf(u) : u \in Clients} : Stays(n)]_allVars
  BY <1>1 DEF Shared
<1> QED
  BY <1>2, Invariance, PTL DEF PSpec, SettledPasswordStays
=============================================================================
