-------------------------- MODULE MCSharedPasswords --------------------------
(***************************************************************************)
(* Clients for TLC.  Either two of them make any two calls each on one     *)
(* object, or two of them share two passwords, of which a third one uses   *)
(* one or removes it.                                                      *)
(***************************************************************************)
EXTENDS SharedPasswords

MCClients == {"a", "b", "c"}
MCNames   == {"p", "q"}
MCSpecs   == [main : MCClients, rest : {"x", Nil}]

Request(h, m, r) == [helper |-> h, name |-> "p", spec |-> [main |-> m, rest |-> r]]

OneObject == { Request("service", "a", "x"), Request("pod", "b", Nil),
               Request("policy", "b", "x"), Request("delete", "a", "x") }

NoCalls == [c \in MCClients |-> <<>>]
NoNames == [c \in MCClients |-> <<>>]

CallLoads ==
    { [calls |-> [NoCalls EXCEPT !["a"] = <<r1, r2>>, !["b"] = <<r3, r4>>],
       names |-> NoNames] : r1, r2, r3, r4 \in OneObject }

Sharing == [NoNames EXCEPT !["a"] = <<"p", "q">>, !["b"] = <<"p", "q">>]

PasswordLoads ==
    { [calls |-> [NoCalls EXCEPT !["c"] = <<Request("remove", "a", "x")>>],
       names |-> Sharing],
      [calls |-> NoCalls, names |-> [Sharing EXCEPT !["c"] = <<"p">>]] }

MCLoads    == CallLoads \cup PasswordLoads
MCPrograms == {load.calls : load \in MCLoads}
=============================================================================
