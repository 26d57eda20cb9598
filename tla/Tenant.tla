------------------------------- MODULE Tenant -------------------------------
(***************************************************************************)
(* What the org-scoped handlers of internal/api share: the principal, the  *)
(* org's plan, the transaction bound to one org (store.WithOrg), the       *)
(* cipher for secret columns, and the life of a request.  A handler that   *)
(* uses several transactions holds its request in req between them; other  *)
(* requests, a plan change or the end of the process may come in between.  *)
(***************************************************************************)
EXTENDS Authz, Entitlements, FiniteSets

CONSTANTS
  None, Blank,  \* absent, and the empty string
  Orgs, Users,
  Clients,      \* requests the api serves at once
  Actors,       \* principals the requests carry, members of ActorRecord
  Values,       \* secret plaintexts: header values, channel secrets, signing secrets
  PlanMoves,    \* plan changes billing may make: pairs <<from, to>>
  MaxRequests   \* bound: requests served

Ciphertexts == {"enc"} \X (Values \cup Nat)    \* of the secrets there are

ASSUME TenantAssumption ==
  /\ Actors \subseteq ActorRecord(Users, Orgs)
  /\ PlanMoves \subseteq Plans \X Plans
  /\ MaxRequests \in Nat
  /\ None \notin Values /\ Blank \notin Values \cup {None} \cup Nat
  /\ \A v \in Values \cup {Blank} : v \notin Nat \cup Ciphertexts
  /\ IsFiniteSet(Clients) /\ Clients # {}

VARIABLES
  plan,         \* organizations.plan
  peak,         \* history: the highest plan the org has had
  req,          \* client -> the request it is in the middle of, or None
  out,          \* last answer: status code, secret values in its body, and in
                \* the text of its error: pairs of the caller's org and a value
  served        \* requests begun so far

tenantVars == <<plan, peak, req, out, served>>

TenantInit ==
  /\ plan = [o \in Orgs |-> "tier1"]
  /\ peak = plan
  /\ req = [c \in Clients |-> None]
  /\ out = [code |-> 200, shows |-> {}, told |-> {}]
  /\ served = 0

\* A new request of client c, for a principal that authentication resolved.
Request(c) ==
  /\ req[c] = None
  /\ served < MaxRequests /\ served' = served + 1
  /\ UNCHANGED <<plan, peak>>

\* The handler answers and is done, ReplyError with an error's text; Hold keeps the request for its next step.
Reply(c, code, shows) ==
  /\ req' = [req EXCEPT ![c] = None]
  /\ out' = [code |-> code, shows |-> shows, told |-> {}]
ReplyError(c, code, told) ==
  /\ req' = [req EXCEPT ![c] = None]
  /\ out' = [code |-> code, shows |-> {}, told |-> told]
Hold(c, r) == req' = [req EXCEPT ![c] = r] /\ UNCHANGED out

\* Step two or three of client c's handler.
Resume(c, op) == req[c] # None /\ req[c].op = op /\ UNCHANGED <<plan, peak, served>>

\* A transaction fails, the caller goes away or the process ends: nothing of
\* the step that was due is written.
Abort(c) ==
  /\ req[c] # None
  /\ Reply(c, 500, {})
  /\ UNCHANGED <<plan, peak, served>>

orgPlan(o) == ParsePlan(plan[o])

Rank(p) == CHOOSE i \in 1..4 : catalogOrder[i] = p

\* Billing writes organizations.plan.
PlanChanged(o) ==
  /\ \E to \in Plans :
       /\ <<plan[o], to>> \in PlanMoves
       /\ plan' = [plan EXCEPT ![o] = to]
       /\ peak' = IF Rank(to) > Rank(peak[o]) THEN [peak EXCEPT ![o] = to] ELSE peak
  /\ UNCHANGED <<req, out, served>>

\* WithOrg binds the transaction to one org and every statement names org_id:
\* only that org's rows exist for it.
WithOrg(table, o) == {id \in DOMAIN table : table[id].org = o}

Put(table, id, row)  == [i \in DOMAIN table \cup {id} |-> IF i = id THEN row ELSE table[i]]
Drop(table, ids)     == [i \in DOMAIN table \ ids |-> table[i]]

\* crypto.Cipher: AES-GCM over the plaintext; the empty string is not encrypted.
Encrypt(v)       == <<"enc", v>>
Decrypt(e)       == e[2]
encryptSecret(v) == IF v = Blank THEN v ELSE Encrypt(v)
decryptSecret(e) == IF e = Blank THEN e ELSE Decrypt(e)
=============================================================================
