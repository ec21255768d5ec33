------------------------------ MODULE MCLoader ------------------------------
(***************************************************************************)
(* Directories for TLC: two default ones, and the first of them given once *)
(* more by the flag.  The second overrides a role, a CRD, a ConfigMap and  *)
(* a custom resource of the first.  The files of a role and of a CRD have  *)
(* a second document.                                                      *)
(***************************************************************************)
EXTENDS Loader

MCPaths == <<"usr", "local", "usr">>

Asset(d, k, f, c, n, v, ver, needs) ==
    [dir |-> d, kind |-> k, file |-> f, doc |-> c, name |-> n, val |-> v,
     rest |-> v, version |-> ver, needs |-> needs]

Role(d, v)    == Asset(d, "role", 1, 1, "role", v, "-", {})
Binding(d, v) == Asset(d, "binding", 1, 1, "binding", v, "-", {})
CRD(d, v)     == Asset(d, "crd", 1, 1, "dexes", v, "v1", {})
OtherCRD(d)   == Asset(d, "crd", 2, 1, "users", "a", "v1", {})
SecondRole(d) == Asset(d, "role", 1, 2, "ignored role", "a", "-", {})
SecondCRD(d)  == Asset(d, "crd", 1, 2, "users", "b", "v2", {})
ConfigMap(d, k, c, v) == Asset(d, k, 1, c, "cm", v, "-", {})
Dex(d, k, c, v)       == Asset(d, k, 1, c, "dex", v, "-", {<<"dexes", "v1">>})
Unknown(d)            == Asset(d, "yaml", 2, 1, "unknown", "a", "-", {<<"dexes", "v2">>})

RBACs == {Role("usr", "a"), Role("local", "b"), Binding("usr", "a"),
          SecondRole("usr")}
CRDs  == {CRD("usr", "a"), CRD("local", "b"), OtherCRD("usr")}
Manifests ==
    { Dex("usr", "yaml", 1, "a"), ConfigMap("usr", "yaml", 2, "a"), Unknown("usr"),
      ConfigMap("local", "url", 1, "b"), Dex("local", "url", 2, "b") }

MCAssets   == RBACs \cup CRDs \cup Manifests \cup {SecondCRD("local")}
MCFileSets == {r \cup c \cup m : r \in {RBACs, {}},
                                 c \in {{SecondCRD("local")} \cup first : first \in SUBSET CRDs},
                                 m \in SUBSET Manifests}

MCNames    == {a.name : a \in MCAssets}
MCValues   == {"a", "b"}
MCVersions == {"v1", "v2"}

NoObjects == [n \in MCNames |-> Nil]
Older(n, ver) == [NoObjects EXCEPT ![n] = [val |-> "a", rest |-> "a", version |-> ver]]
MCOlderCRDs == {NoObjects, Older("dexes", "v1"), Older("dexes", "v2")}
=============================================================================
