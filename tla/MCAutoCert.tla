------------------------------ MODULE MCAutoCert ------------------------------
(***************************************************************************)
(* Requesters for TLC: "alone" has a Secret of its own; "one" and "other"  *)
(* have Secrets of the same name in two namespaces and may fail anywhere;  *)
(* "reference" was made from a reference to the Secret of "one".           *)
(***************************************************************************)
EXTENDS AutoCert

MCRequesters  == {"alone", "one", "other", "reference"}
MCNames       == {"own", "a/shared", "b/shared"}
MCNameOf      == [alone |-> "own", one |-> "a/shared", other |-> "b/shared",
                  reference |-> "a/shared"]
MCCSRNames    == {"own-csr", "shared-csr"}
MCCSRName     == [s \in MCNames |-> IF s = "own" THEN "own-csr" ELSE "shared-csr"]
MCFaulty      == [alone |-> Calls \ Window, one |-> Calls, other |-> Calls,
                  reference |-> {}]
MCMaxRequests == [r \in MCRequesters |-> IF r = "alone" THEN 2 ELSE 1]

LoneRequester == {"alone"}
LoneName      == {"own"}
LoneNameOf    == [r \in LoneRequester |-> "own"]
LoneCSRName   == [s \in LoneName |-> "own-csr"]
LoneFaulty    == [r \in LoneRequester |-> Calls]
LoneMaxRequests == [r \in LoneRequester |-> 2]
=============================================================================
