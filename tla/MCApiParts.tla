----------------------------- MODULE MCApiParts -----------------------------
(* One person with two provider accounts and two requests at a time; two     *)
(* clients, one org with a window of one check; two monitors and pages of    *)
(* one row.                                                                  *)
EXTENDS ApiParts

CONSTANTS e1, e2, s1, s2, u1, o1, i1, m1, m2

Mail(e, primary, verified) == [email |-> e, primary |-> primary, verified |-> verified]
MCAccounts ==
  {[provider |-> "google", sub |-> s1, emails |-> <<Mail(e1, TRUE, TRUE)>>],
   [provider |-> "github", sub |-> s2, emails |-> <<Mail(e2, TRUE, FALSE), Mail(e1, FALSE, TRUE)>>]}

Actor(kind, user, role) == [kind |-> kind, user |-> user, org |-> o1, role |-> role]
MCKeyActors == {Actor("human", u1, r) : r \in {"member", "admin"}}

MCMonitors ==
  <<[org |-> o1, enabled |-> TRUE, regions |-> <<"eu-central">>],
    [org |-> o1, enabled |-> TRUE, regions |-> <<"eu-central">>],
    [org |-> o1, enabled |-> FALSE, regions |-> <<"eu-central">>]>>
MCActors == {Actor("human", u1, "member"), Actor("human", u1, "viewer"), Actor("api_key", u1, "member")}

MCOrgOf == [m \in {m1, m2} |-> o1]
MCStaff == {Actor("human", u1, "admin"), Actor("api_key", Null, "admin")}
=============================================================================
