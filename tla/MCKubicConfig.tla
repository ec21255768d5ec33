---------------------------- MODULE MCKubicConfig ----------------------------
(***************************************************************************)
(* Inputs for TLC: every combination of keys in the file, also with the    *)
(* whole cni section empty, seeders in every form and from every source,   *)
(* and all lists of at most two --var arguments, good and bad.             *)
(***************************************************************************)
EXTENDS KubicConfig

MCHosts     == {"node", "httpd", "fe80::1"}
MCBadHosts  == {"no de"}
MCHttpHosts == {"httpd"}
MCIPv6Hosts == {"fe80::1"}
MCPorts     == {1234}
MCStrings   == {"a", "b"}

Given == {a \in Addresses : /\ a.host = NoHost => a.scheme # ""
                            /\ a.bracket = (a.host \in IPv6Hosts)
                            /\ a.port # APIPort}

Address(h, p) == [scheme |-> "", host |-> h, bracket |-> FALSE, port |-> p]

DocValue ==
    [ token |-> "a", autoapprove |-> FALSE, autoApprove |-> FALSE, driver |-> "a",
      PSP |-> FALSE, domain |-> "", caCrtHash |-> "a" ]

MCFiles ==
    {[kind |-> k, doc |-> <<>>] : k \in {"none", "bad"}}
    \cup {[kind |-> "yaml", doc |-> [k \in K |-> DocValue[k]]] :
              K \in SUBSET DOMAIN DocValue}
    \cup {[kind |-> "yaml", doc |-> [k \in K |-> ""]] :
              K \in SUBSET {"driver", "bindir", "confdir", "image"}}
    \cup {[kind |-> "yaml", doc |-> [seeder |-> a, token |-> "a"]] : a \in Given}

MCSeeders ==
    {[set |-> FALSE, value |-> EmptyAddress], [set |-> TRUE, value |-> EmptyAddress]}
    \cup {[set |-> TRUE, value |-> Address(h, p)] : h \in {"node", "no de"}, p \in {0, 1234}}

MCVars ==
    { [parts |-> 2, set |-> [seeder |-> Address("node", NoPort)]],
      [parts |-> 2, set |-> [token |-> "b"]],
      [parts |-> 2, set |-> [token |-> ""]],
      [parts |-> 1, set |-> [token |-> ""]],
      [parts |-> 2, set |-> [unknown |-> "b"]] }

MCVarLists == {<<>>} \cup {<<v>> : v \in MCVars} \cup {<<v, w>> : v, w \in MCVars}

NoVarLists == {<<>>}
=============================================================================
