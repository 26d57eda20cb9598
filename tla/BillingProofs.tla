--------------------------- MODULE BillingProofs ----------------------------
(***************************************************************************)
(* Proofs about orgs, members, invitations and the plans that follow the   *)
(* provider's events, for every number of users, clients, mailers, orgs,   *)
(* invitations and events, in whatever order the provider delivers them.   *)
(***************************************************************************)
EXTENDS Billing, FiniteSetTheorems, SequenceTheorems, TLAPS

-----------------------------------------------------------------------------
(* The inductive invariant *)

RoleOrNone == Roles \cup {None}
OrgRow     == [slug : Nat \cup Slugs, plan : Plans]
Actor      == [kind : ActorKinds, user : Users \cup {0}, org : OrgIds, role : Roles \cup {"out"}]

RoleOps   == {"change", "remove", "write", "commit", "invalidate"}
InviteOps == {"seats", "insert", "publish", "member", "join", "drop"}

RoleReq   == [op : RoleOps, p : Actor, user : Users, new : RoleOrNone, seen : RoleOrNone,
              strict : BOOLEAN, stepDown : BOOLEAN]
InviteReq == [op : InviteOps, p : Actor, inv : Nat \cup {None}, email : InviteEmails \cup {None},
              role : RoleOrNone, n : Nat]
AdminReq  == [op : {"orgPlan", "subPlan"}, p : Actor, plan : Plans]
               \cup [op : {"cancelNow", "cancelAtEnd"}, p : Actor, plan : {None}]

SeatReq   == InviteReq \cup AdminReq

ReqOf(t) == IF t = "roles" THEN RoleReq ELSE SeatReq

Invite == [org : OrgIds, email : InviteEmails, role : Roles,
           state : {"pending", "revoked", "accepted"}, token : Nat \cup {None}, over : BOOLEAN]
Intent == [kind : {"invitation", "magic_link", "channel_test", "unknown"},
           inv : Nat \cup {None}]
Mail   == [batch : SUBSET Nat, rest : SUBSET Nat, id : Nat, token : Nat \cup {None}]

TypeOK ==
  /\ topic \in Topics
  /\ orgs \in Seq(OrgRow) /\ Len(orgs) \in 1..MaxOrgs
  /\ members \in [OrgIds \X Users -> RoleOrNone]
  /\ rcache \in [OrgIds \X Users -> RoleOrNone \cup {"out"}]
  /\ invites \in Seq(Invite) /\ intents \in Seq(Intent)
  /\ bus \in {"kafka", "redis"} /\ acked \subseteq Nat
  /\ minted \in Nat /\ mailed \subseteq Nat
  /\ mailer \in [Mailers -> Mail \cup {None}]
  /\ req \in [Clients -> ReqOf(topic) \cup {None}]

\* A request of a member is about an org that is there, and whoever steps down
\* is a user.
RequestsFit ==
  \A c \in Clients :
    req[c] # None => /\ topic = "roles" \/ req[c].op \in InviteOps => req[c].p.org \in DOMAIN orgs
                     /\ topic = "roles" /\ req[c].stepDown => req[c].p.user \in Users

\* An org that is not made yet has no members.
NoGhosts == \A o \in OrgIds \ DOMAIN orgs, u \in Users : members[<<o, u>>] = None

Committing(c) == req[c] # None /\ req[c].op = "commit"

\* Some owner is not on the way out, unless two left at once.
OwnerStays ==
  \A o \in DOMAIN orgs \ overlapped :
    \E u \in Users :
      /\ members[<<o, u>>] = "owner"
      /\ \A d \in Clients :
           Committing(d) /\ req[d].p.org = o /\ req[d].user = u => req[d].new = "owner"

\* A row that is being changed is there and is locked.
RowsLocked ==
  \A c \in Clients : Committing(c) =>
    /\ members[<<req[c].p.org, req[c].user>>] # None
    /\ \A d \in Clients \ {c} :
         Committing(d) => <<req[d].p.org, req[d].user>> # <<req[c].p.org, req[c].user>>

OwnerInv == RequestsFit /\ NoGhosts /\ OwnerStays /\ RowsLocked

Inv == TypeOK /\ OwnerInv

\* What a request about an invitation knows of it stays true.
RequestKnows(r) ==
  /\ r.op \in {"seats", "insert"} => r.role \in Roles /\ r.email \in InviteEmails
  /\ r.op \in {"publish", "member", "join", "drop"} => r.inv \in DOMAIN invites
  /\ r.op \in {"member", "join", "drop"} => invites[r.inv].org = r.p.org /\ r.p.user \in Users

\* A consumer holds intents that are there, and is in the middle of one.
MailerFits(m) ==
  /\ mailer[m].batch \subseteq DOMAIN intents /\ mailer[m].rest \subseteq mailer[m].batch
  /\ mailer[m].id \in mailer[m].batch \ mailer[m].rest
  /\ mailer[m].token # None => intents[mailer[m].id].kind = "invitation"

InviteFits ==
  /\ topic = "roles" => invites = << >>
  /\ \A i \in DOMAIN invites : invites[i].org \in DOMAIN orgs
  /\ \A k \in DOMAIN intents : intents[k].kind = "invitation" => intents[k].inv \in DOMAIN invites
  /\ \A m \in Mailers : mailer[m] # None => MailerFits(m)
  /\ topic = "seats" => \A c \in Clients : req[c] # None => RequestKnows(req[c])

\* What a request counted is still right when nobody overtook it.
Used(o) == CountMembers(o) + CountPendingInvitations(o)
Cap(o)  == SeatCap(orgPlan(o))
CountsHold(r, o) ==
  /\ r.op = "seats" => r.n = CountMembers(o)
  /\ r.op = "insert" => Used(o) < Cap(o)
SeatInv ==
  topic = "seats" =>
    /\ \A c \in Clients : req[c] # None /\ req[c].p.org \notin overtaken => CountsHold(req[c], req[c].p.org)
    /\ DOMAIN orgs = {1}

\* A consumer that holds the intent has yet to handle it, and not with an older
\* token.
Ahead(m, k, t) ==
  Holds(m, k) => \/ k \in mailer[m].rest
                 \/ mailer[m].id = k /\ (mailer[m].token # None => mailer[m].token = t)

\* The intent that will get a token to its addressee: one that Kafka delivered
\* twice or read past, or one that is delivered again and ahead of everybody.
Lost == doubled \cup dropped
Carries(k, i) ==
  /\ intents[k].kind = "invitation" /\ intents[k].inv = i
  /\ k \in Lost \/ (k \notin acked /\ \A m \in Mailers : Ahead(m, k, invites[i].token))
HeldOnce ==
  /\ \A m, n \in Mailers, k \in DOMAIN intents : m # n /\ Holds(m, k) /\ Holds(n, k) => k \in doubled
  /\ \A m \in Mailers, k \in DOMAIN intents : Holds(m, k) => k \notin acked \/ k \in doubled
  /\ bus = "redis" => Lost = {}
ReachInv ==
  /\ HeldOnce
  /\ \A i \in DOMAIN invites :
       StillPending(i) /\ invites[i].token # None /\ invites[i].token \notin mailed =>
         \E k \in DOMAIN intents : Carries(k, i)

-----------------------------------------------------------------------------
(* Requests and who makes them *)

CacheType == [OrgIds \X Users -> RoleOrNone \cup {"out"}]

LEMMA OrgIdsOfRows ==
  ASSUME TypeOK
  PROVE  /\ DOMAIN orgs = 1..Len(orgs) /\ DOMAIN orgs \subseteq OrgIds /\ 1 \in DOMAIN orgs
         /\ MaxOrgs \in Nat /\ Len(orgs) \in Nat
<1>1. MaxOrgs \in Nat
  BY MembersAssumption
<1>2. Len(orgs) \in 1..MaxOrgs /\ DOMAIN orgs = 1..Len(orgs)
  BY LenProperties DEF TypeOK
<1> QED BY <1>1, <1>2 DEF OrgIds

\* A cached role, or the one looked up, is a role or "not a member".
LEMMA RoleResolved ==
  ASSUME TypeOK, NEW o \in OrgIds, NEW u \in Users
  PROVE  resolveRole(o, u) \in Roles \cup {"out"}
<1>1. <<o, u>> \in OrgIds \X Users
  OBVIOUS
<1>2. rcache[<<o, u>>] \in RoleOrNone \cup {"out"} /\ members[<<o, u>>] \in RoleOrNone
  BY <1>1 DEF TypeOK
<1> QED BY <1>2 DEF resolveRole, GetMembership, RoleOrNone

LEMMA PrincipalFacts ==
  ASSUME TypeOK, NEW p \in Principals
  PROVE  /\ p \in Actor /\ p.org \in DOMAIN orgs
         /\ p.kind = "human" => p.user \in Users
<1>1. CASE \E o \in DOMAIN orgs, u \in Users : p = Human(o, u)
  <2> PICK o \in DOMAIN orgs, u \in Users : p = Human(o, u)
    BY <1>1
  <2>1. o \in OrgIds /\ resolveRole(o, u) \in Roles \cup {"out"}
    BY OrgIdsOfRows, RoleResolved
  <2> HIDE DEF OrgIds, Roles
  <2> QED BY <2>1 DEF Human, Actor, ActorKinds
<1>2. CASE \E r \in KeyRoles : p = Key(r)
  <2> PICK r \in KeyRoles : p = Key(r)
    BY <1>2
  <2>1. 1 \in OrgIds /\ r \in Roles /\ 1 \in DOMAIN orgs
    BY OrgIdsOfRows, MembersAssumption
  <2> HIDE DEF OrgIds, Roles
  <2> QED BY <2>1 DEF Key, Actor, ActorKinds
<1> QED BY <1>1, <1>2 DEF Principals

\* Asking for the role of a principal leaves the cache in its type.
LEMMA CacheKept ==
  ASSUME TypeOK, NEW c \in Clients, NEW p \in Principals, humanInOrg(c, p)
  PROVE  rcache' \in CacheType
<1>1. p.org \in OrgIds /\ (p.kind = "human" => p.user \in Users)
  BY PrincipalFacts, OrgIdsOfRows
<1>2. CASE p.kind = "human"
  <2>1. resolveRole(p.org, p.user) \in Roles \cup {"out"}
    BY <1>1, <1>2, RoleResolved
  <2>2. rcache' = [rcache EXCEPT ![<<p.org, p.user>>] = resolveRole(p.org, p.user)]
    BY <1>2 DEF humanInOrg, RequireOrg
  <2> QED BY <1>1, <1>2, <2>1, <2>2 DEF TypeOK, CacheType, RoleOrNone
<1>3. CASE p.kind # "human"
  BY <1>3 DEF humanInOrg, TypeOK, CacheType
<1> QED BY <1>2, <1>3

-----------------------------------------------------------------------------
(* Role changes *)

RoleFits(r) ==
  r # None => r.p.org \in DOMAIN orgs /\ (r.stepDown => r.p.user \in Users)

\* Owners stay when the roles do and nobody starts a statement.
LEMMA OwnersUnmoved ==
  ASSUME OwnerStays, UNCHANGED <<orgs, members>>, overlapped \subseteq overlapped',
         \A d \in Clients : Committing(d)' => Committing(d) /\ req'[d] = req[d]
  PROVE  OwnerStays'
<1> SUFFICES ASSUME NEW o \in DOMAIN orgs' \ overlapped'
             PROVE  \E u \in Users :
                      /\ members'[<<o, u>>] = "owner"
                      /\ \A d \in Clients :
                           Committing(d)' /\ req'[d].p.org = o /\ req'[d].user = u => req'[d].new = "owner"
  BY DEF OwnerStays
<1> o \in DOMAIN orgs \ overlapped
  OBVIOUS
<1> PICK u \in Users :
      /\ members[<<o, u>>] = "owner"
      /\ \A d \in Clients : Committing(d) /\ req[d].p.org = o /\ req[d].user = u => req[d].new = "owner"
  BY DEF OwnerStays
<1> WITNESS u \in Users
<1> QED OBVIOUS

\* A request that is made, given up or moved on without a statement that is
\* uncommitted leaves the owners as they are.
LEMMA QuietRoleStep ==
  ASSUME Inv, topic = "roles", NEW c \in Clients, NEW r \in RoleReq \cup {None},
         RoleFits(r), r # None => r.op # "commit",
         req' = [req EXCEPT ![c] = r], rcache' \in CacheType,
         UNCHANGED <<topic, orgs, members, overlapped, mailVars, inviteVars>>
  PROVE  Inv'
<1>1. req \in [Clients -> RoleReq \cup {None}]
  BY DEF Inv, TypeOK, ReqOf
<1>2. req' \in [Clients -> RoleReq \cup {None}]
  BY <1>1
<1>3. TypeOK'
  BY <1>2 DEF Inv, TypeOK, ReqOf, CacheType, mailVars, inviteVars
<1>4. \A d \in Clients : d # c => req'[d] = req[d]
  BY <1>1
<1>5. req'[c] = r
  BY <1>1
<1>6. RequestsFit'
  BY <1>4, <1>5 DEF Inv, OwnerInv, RequestsFit, RoleFits
<1>7. NoGhosts'
  BY DEF Inv, OwnerInv, NoGhosts
<1>8. \A d \in Clients : Committing(d)' => Committing(d) /\ req'[d] = req[d]
  BY <1>4, <1>5 DEF Committing
<1>9. OwnerStays'
  BY <1>8, OwnersUnmoved DEF Inv, OwnerInv
<1>10. RowsLocked'
  BY <1>8 DEF Inv, OwnerInv, RowsLocked
<1> QED BY <1>3, <1>6, <1>7, <1>9, <1>10 DEF Inv, OwnerInv

\* The requests that read the target's row before they act.
LEMMA RoleRequestFits ==
  ASSUME Inv, NEW p \in Principals, NEW u \in Users, NEW op \in RoleOps, NEW new \in RoleOrNone
  PROVE  /\ RoleRequest(op, p, u, new) \in RoleReq /\ RoleFits(RoleRequest(op, p, u, new))
         /\ RoleRequest(op, p, u, new).op = op
<1>1. p \in Actor /\ p.org \in DOMAIN orgs /\ p.org \in OrgIds
  BY PrincipalFacts, OrgIdsOfRows DEF Inv
<1>2. GetMembership(p.org, u) \in RoleOrNone
  <2>1. <<p.org, u>> \in OrgIds \X Users
    BY <1>1
  <2> QED BY <2>1 DEF GetMembership, Inv, TypeOK
<1> HIDE DEF OrgIds, Actor, RoleOrNone, RoleOps
<1> QED BY <1>1, <1>2 DEF RoleRequest, RoleReq, RoleFits

LEMMA StillRoleStep ==
  ASSUME Inv, topic = "roles", NEW c \in Clients, Refuse(c), rcache' \in CacheType,
         UNCHANGED <<topic, orgs, members, overlapped, mailVars, inviteVars>>
  PROVE  Inv'
<1>1. TypeOK'
  BY DEF Inv, TypeOK, ReqOf, CacheType, mailVars, inviteVars, Refuse
<1>2. req' = req
  BY DEF Refuse
<1>3. \A d \in Clients : Committing(d)' => Committing(d) /\ req'[d] = req[d]
  BY <1>2 DEF Committing
<1>4. OwnerStays'
  BY <1>3, OwnersUnmoved DEF Inv, OwnerInv
<1>5. RowsLocked'
  BY <1>3 DEF Inv, OwnerInv, RowsLocked
<1>6. RequestsFit' /\ NoGhosts'
  BY <1>2 DEF Inv, OwnerInv, RequestsFit, NoGhosts
<1> QED BY <1>1, <1>4, <1>5, <1>6 DEF Inv, OwnerInv

LEMMA AskRoleStep ==
  ASSUME Inv, topic = "roles", UNCHANGED topic, NEW c \in Clients, NEW p \in Principals, NEW u \in Users,
         \/ \E new \in Roles : ChangeMemberRole(c, p, u, new)
         \/ RemoveMember(c, p, u)
         \/ \E down \in BOOLEAN : TransferOwnership(c, p, u, down)
  PROVE  Inv'
<1> DEFINE Rest == UNCHANGED <<topic, orgs, members, overlapped, mailVars, inviteVars>>
<1>1. ASSUME NEW new \in Roles, ChangeMemberRole(c, p, u, new) PROVE Inv'
  <2>1. Rest /\ rcache' \in CacheType
    BY <1>1, CacheKept DEF ChangeMemberRole, Inv
  <2>2. CASE Refuse(c)
    BY <2>1, <2>2, StillRoleStep
  <2>3. CASE Begin(c, RoleRequest("change", p, u, new))
    <3>1. "change" \in RoleOps /\ new \in RoleOrNone
      BY DEF RoleOps, RoleOrNone
    <3>2. PICK r \in RoleReq : r = RoleRequest("change", p, u, new) /\ RoleFits(r) /\ r.op = "change"
      BY <3>1, RoleRequestFits
    <3>3. req' = [req EXCEPT ![c] = r]
      BY <2>3, <3>2 DEF Begin, Hold
    <3> QED BY <2>1, <3>2, <3>3, QuietRoleStep
  <2> QED BY <1>1, <2>2, <2>3 DEF ChangeMemberRole
<1>2. ASSUME RemoveMember(c, p, u) PROVE Inv'
  <2>1. Rest /\ rcache' \in CacheType
    BY <1>2, CacheKept DEF RemoveMember, Inv
  <2>2. CASE Refuse(c)
    BY <2>1, <2>2, StillRoleStep
  <2>3. CASE Begin(c, RoleRequest("remove", p, u, None))
    <3>1. "remove" \in RoleOps /\ None \in RoleOrNone
      BY DEF RoleOps, RoleOrNone
    <3>2. PICK r \in RoleReq : r = RoleRequest("remove", p, u, None) /\ RoleFits(r) /\ r.op = "remove"
      BY <3>1, RoleRequestFits
    <3>3. req' = [req EXCEPT ![c] = r]
      BY <2>3, <3>2 DEF Begin, Hold
    <3> QED BY <2>1, <3>2, <3>3, QuietRoleStep
  <2> QED BY <1>2, <2>2, <2>3 DEF RemoveMember
<1>3. ASSUME NEW down \in BOOLEAN, TransferOwnership(c, p, u, down) PROVE Inv'
  <2>1. Rest /\ rcache' \in CacheType
    BY <1>3, CacheKept DEF TransferOwnership, Inv
  <2>2. CASE Refuse(c)
    BY <2>1, <2>2, StillRoleStep
  <2>3. CASE /\ CanInOrg(p, "transfer_ownership")
             /\ Begin(c, [RoleRequest("write", p, u, "owner") EXCEPT !.strict = FALSE, !.stepDown = down])
    <3>1. "write" \in RoleOps /\ "owner" \in RoleOrNone
      BY DEF RoleOps, RoleOrNone, Roles
    <3>2. PICK q \in RoleReq : q = RoleRequest("write", p, u, "owner") /\ RoleFits(q) /\ q.op = "write"
      BY <3>1, RoleRequestFits
    <3>3. q.p = p
      BY <3>2 DEF RoleRequest
    <3>4. p.kind # "api_key"
      BY <2>3 DEF CanInOrg, Can, ownerOnly
    <3>5. p.user \in Users /\ p.org \in DOMAIN orgs
      BY <3>4, PrincipalFacts DEF Inv, Actor, ActorKinds
    <3>6. PICK r : r = [q EXCEPT !.strict = FALSE, !.stepDown = down]
      OBVIOUS
    <3>7. r \in RoleReq /\ r.op = "write" /\ r.p = p
      BY <3>2, <3>3, <3>6 DEF RoleReq
    <3>8. RoleFits(r)
      BY <3>5, <3>7 DEF RoleFits
    <3>9. req' = [req EXCEPT ![c] = r]
      BY <2>3, <3>2, <3>6 DEF Begin, Hold
    <3> QED BY <2>1, <3>7, <3>8, <3>9, QuietRoleStep
  <2> QED BY <1>3, <2>2, <2>3 DEF TransferOwnership
<1> QED BY <1>1, <1>2, <1>3

LEMMA MovedOn ==
  ASSUME req \in [Clients -> RoleReq \cup {None}], NEW c \in Clients, req[c] # None,
         NEW op \in RoleOps, Goto(c, op)
  PROVE  \E r \in RoleReq :
           /\ req' = [req EXCEPT ![c] = r] /\ r.op = op /\ r.p = req[c].p
           /\ r.user = req[c].user /\ r.new = req[c].new /\ r.stepDown = req[c].stepDown
<1>1. PICK r : r = [req[c] EXCEPT !.op = op]
  OBVIOUS
<1>2. req[c] \in RoleReq
  OBVIOUS
<1> HIDE DEF RoleOps
<1>3. /\ r \in RoleReq /\ r.op = op /\ r.p = req[c].p
      /\ r.user = req[c].user /\ r.new = req[c].new /\ r.stepDown = req[c].stepDown
  BY <1>1, <1>2 DEF RoleReq
<1>4. req' = [req EXCEPT ![c] = r]
  BY <1>1 DEF Goto
<1> QED BY <1>3, <1>4

LEMMA GoOnStep ==
  ASSUME Inv, topic = "roles", NEW c \in Clients, req[c] # None, NEW op \in RoleOps \ {"commit"},
         Goto(c, op) \/ Done(c), rcache' \in CacheType,
         UNCHANGED <<topic, orgs, members, overlapped, mailVars, inviteVars>>
  PROVE  Inv'
<1>1. req \in [Clients -> RoleReq \cup {None}] /\ RoleFits(req[c])
  BY DEF Inv, OwnerInv, RequestsFit, RoleFits, TypeOK, ReqOf
<1>2. CASE Goto(c, op)
  <2>1. PICK r \in RoleReq : /\ req' = [req EXCEPT ![c] = r] /\ r.op = op /\ r.p = req[c].p
                             /\ r.stepDown = req[c].stepDown
    BY <1>1, <1>2, MovedOn
  <2>2. RoleFits(r)
    BY <1>1, <2>1 DEF RoleFits
  <2> QED BY <2>1, <2>2, QuietRoleStep
<1>3. CASE Done(c)
  BY <1>3, QuietRoleStep DEF Done, RoleFits
<1> QED BY <1>2, <1>3

LEMMA LeaveStep ==
  ASSUME Inv, topic = "roles", UNCHANGED topic, NEW c \in Clients, NEW p \in Principals, LeaveOrg(c, p)
  PROVE  Inv'
<1>1. UNCHANGED <<topic, orgs, members, overlapped, mailVars, inviteVars>> /\ rcache' \in CacheType
  BY CacheKept DEF LeaveOrg, Inv
<1>2. CASE Refuse(c)
  BY <1>1, <1>2, StillRoleStep
<1>3. CASE p.kind = "human" /\ Begin(c, RoleRequest("write", p, p.user, None))
  <2>1. "write" \in RoleOps /\ None \in RoleOrNone /\ p.user \in Users
    BY <1>3, PrincipalFacts DEF RoleOps, RoleOrNone, Inv
  <2>2. PICK r \in RoleReq : r = RoleRequest("write", p, p.user, None) /\ RoleFits(r) /\ r.op = "write"
    BY <2>1, RoleRequestFits
  <2>3. req' = [req EXCEPT ![c] = r]
    BY <1>3, <2>2 DEF Begin, Hold
  <2> QED BY <1>1, <2>2, <2>3, QuietRoleStep
<1> QED BY <1>2, <1>3 DEF LeaveOrg

LEMMA CommitStep ==
  ASSUME Inv, topic = "roles", UNCHANGED topic, NEW c \in Clients, commitRole(c)
  PROVE  Inv'
<1>1. req \in [Clients -> RoleReq \cup {None}] /\ req[c] # None /\ req[c].op = "commit" /\ Committing(c)
  BY DEF Inv, TypeOK, ReqOf, commitRole, At, Committing
<1>2. PICK r \in RoleReq : /\ req' = [req EXCEPT ![c] = r] /\ r.op = "invalidate" /\ r.p = req[c].p
                           /\ r.stepDown = req[c].stepDown
  BY <1>1, MovedOn DEF commitRole, RoleOps
<1>3. PICK o, x, new : o = req[c].p.org /\ x = req[c].user /\ new = req[c].new
  OBVIOUS
<1>4. o \in DOMAIN orgs /\ x \in Users /\ new \in RoleOrNone /\ o \in OrgIds
  BY <1>1, <1>3, OrgIdsOfRows DEF Inv, OwnerInv, RequestsFit, RoleReq
<1>5. members' = [members EXCEPT ![<<o, x>>] = new] /\ members \in [OrgIds \X Users -> RoleOrNone]
  BY <1>3 DEF commitRole, Inv, TypeOK
<1>6. /\ members' \in [OrgIds \X Users -> RoleOrNone] /\ members'[<<o, x>>] = new
      /\ \A y \in OrgIds \X Users : y # <<o, x>> => members'[y] = members[y]
  BY <1>4, <1>5
<1>7. UNCHANGED <<orgs, rcache, overlapped, mailVars, inviteVars>>
  BY DEF commitRole
<1>8. req' \in [Clients -> RoleReq \cup {None}] /\ req'[c] = r /\ \A d \in Clients : d # c => req'[d] = req[d]
  BY <1>1, <1>2
<1>9. TypeOK'
  BY <1>6, <1>7, <1>8 DEF Inv, TypeOK, ReqOf, mailVars, inviteVars
<1>10. RequestsFit'
  BY <1>2, <1>7, <1>8, <1>1 DEF Inv, OwnerInv, RequestsFit
<1>11. NoGhosts'
  BY <1>4, <1>6, <1>7 DEF Inv, OwnerInv, NoGhosts
<1>12. \A d \in Clients : Committing(d)' => d # c /\ Committing(d) /\ req'[d] = req[d]
  BY <1>2, <1>8 DEF Committing
<1>13. OwnerStays'
  <2> SUFFICES ASSUME NEW q \in DOMAIN orgs' \ overlapped'
               PROVE  \E u \in Users :
                        /\ members'[<<q, u>>] = "owner"
                        /\ \A d \in Clients :
                             Committing(d)' /\ req'[d].p.org = q /\ req'[d].user = u => req'[d].new = "owner"
    BY DEF OwnerStays
  <2>1. q \in DOMAIN orgs \ overlapped /\ q \in OrgIds
    BY <1>7, OrgIdsOfRows DEF Inv
  <2>2. PICK u \in Users :
          /\ members[<<q, u>>] = "owner"
          /\ \A d \in Clients : Committing(d) /\ req[d].p.org = q /\ req[d].user = u => req[d].new = "owner"
    BY <2>1 DEF Inv, OwnerInv, OwnerStays
  <2>3. members'[<<q, u>>] = "owner"
    <3>1. CASE <<q, u>> = <<o, x>>
      BY <1>1, <1>3, <1>6, <2>2, <3>1
    <3>2. CASE <<q, u>> # <<o, x>>
      BY <1>6, <2>1, <2>2, <3>2
    <3> QED BY <3>1, <3>2
  <2> WITNESS u \in Users
  <2> QED BY <1>12, <2>2, <2>3
<1>14. RowsLocked'
  <2>1. SUFFICES ASSUME NEW d \in Clients, Committing(d)'
                 PROVE  /\ members'[<<req'[d].p.org, req'[d].user>>] # None
                        /\ \A e \in Clients \ {d} : Committing(e)' =>
                             <<req'[e].p.org, req'[e].user>> # <<req'[d].p.org, req'[d].user>>
    BY DEF RowsLocked
  <2>2. d # c /\ Committing(d) /\ req'[d] = req[d]
    BY <1>12, <2>1
  <2>3. /\ members[<<req[d].p.org, req[d].user>>] # None
        /\ <<req[d].p.org, req[d].user>> # <<o, x>>
        /\ \A e \in Clients \ {d} : Committing(e) =>
             <<req[e].p.org, req[e].user>> # <<req[d].p.org, req[d].user>>
    BY <1>1, <1>3, <2>2 DEF Inv, OwnerInv, RowsLocked
  <2>4. <<req[d].p.org, req[d].user>> \in OrgIds \X Users
    BY <1>1, <2>2 DEF Committing, RoleReq, Actor
  <2> QED BY <1>6, <1>12, <2>2, <2>3, <2>4
<1> QED BY <1>9, <1>10, <1>11, <1>13, <1>14 DEF Inv, OwnerInv

\* The statement of a role change: the trigger lets it pass when another owner
\* is in the table, who is not leaving unless two do at once.
LEMMA UpdateStep ==
  ASSUME Inv, topic = "roles", UNCHANGED topic, NEW c \in Clients, UpdateMemberRole(c)
  PROVE  Inv'
<1>1. req \in [Clients -> RoleReq \cup {None}] /\ req[c] # None /\ req[c].op = "write" /\ req[c] \in RoleReq
  BY DEF Inv, TypeOK, ReqOf, UpdateMemberRole, At
<1>2. PICK o, x, new : o = req[c].p.org /\ x = req[c].user /\ new = req[c].new
  OBVIOUS
<1>3. o \in DOMAIN orgs /\ x \in Users /\ new \in RoleOrNone /\ o \in OrgIds
  BY <1>1, <1>2, OrgIdsOfRows DEF Inv, OwnerInv, RequestsFit, RoleReq
<1>4. UNCHANGED <<topic, orgs, members, rcache, mailVars, inviteVars>> /\ rcache' \in CacheType
  BY DEF UpdateMemberRole, Inv, TypeOK, CacheType
<1>5. overlapped' = IF req'[c] # None /\ req'[c].op = "commit" /\ LeavesOwners(c)
                         /\ \E d \in Uncommitted(o) : LeavesOwners(d)
                    THEN overlapped \cup {o} ELSE overlapped
  BY <1>2 DEF UpdateMemberRole
<1>6. CASE Done(c) \/ Goto(c, "invalidate")
  <2>1. \A d \in Clients : d # c => req'[d] = req[d]
    BY <1>1, <1>6 DEF Done, Goto
  <2>2. req'[c] = None \/ req'[c].op = "invalidate"
    <3>1. CASE Done(c)
      BY <1>1, <3>1 DEF Done
    <3>2. CASE Goto(c, "invalidate")
      BY <1>1, <3>2, MovedOn DEF RoleOps
    <3> QED BY <1>6, <3>1, <3>2
  <2>3. UNCHANGED overlapped
    BY <1>5, <2>2
  <2>4. "invalidate" \in RoleOps \ {"commit"}
    BY DEF RoleOps
  <2> QED BY <1>1, <1>4, <1>6, <2>3, <2>4, GoOnStep
<1>7. CASE /\ members[<<o, x>>] # None /\ ~ Locked(o, x)
           /\ enforce_last_owner(o, x, new) /\ Goto(c, "commit")
  <2>1. PICK r \in RoleReq : /\ req' = [req EXCEPT ![c] = r] /\ r.op = "commit" /\ r.p = req[c].p
                             /\ r.user = x /\ r.new = new /\ r.stepDown = req[c].stepDown
    BY <1>1, <1>2, <1>7, MovedOn DEF RoleOps
  <2>2. req' \in [Clients -> RoleReq \cup {None}] /\ req'[c] = r /\ \A d \in Clients : d # c => req'[d] = req[d]
    BY <1>1, <2>1
  <2>3. TypeOK'
    BY <1>4, <2>2 DEF Inv, TypeOK, ReqOf, mailVars, inviteVars
  <2>4. RequestsFit'
    BY <1>4, <1>1, <2>1, <2>2 DEF Inv, OwnerInv, RequestsFit
  <2>5. NoGhosts'
    BY <1>4 DEF Inv, OwnerInv, NoGhosts
  <2>6. \A d \in Clients : d # c => (Committing(d)' <=> Committing(d))
    BY <2>2 DEF Committing
  <2>7. \A d \in Clients : d # c /\ Committing(d) => <<req[d].p.org, req[d].user>> # <<o, x>>
    BY <1>7 DEF Locked, Uncommitted, Committing
  <2>8. ~ Committing(c) /\ r.p.org = o
    BY <1>1, <1>2, <2>1 DEF Committing
  <2>9. RowsLocked'
    <3>1. SUFFICES ASSUME NEW d \in Clients, Committing(d)'
                   PROVE  /\ members'[<<req'[d].p.org, req'[d].user>>] # None
                          /\ \A e \in Clients \ {d} : Committing(e)' =>
                               <<req'[e].p.org, req'[e].user>> # <<req'[d].p.org, req'[d].user>>
      BY DEF RowsLocked
    <3>2. CASE d = c
      BY <1>4, <1>7, <2>1, <2>2, <2>6, <2>7, <2>8, <3>2
    <3>3. CASE d # c
      <4>1. /\ members[<<req[d].p.org, req[d].user>>] # None
            /\ \A e \in Clients \ {d} : Committing(e) =>
                 <<req[e].p.org, req[e].user>> # <<req[d].p.org, req[d].user>>
        BY <2>6, <3>1, <3>3 DEF Inv, OwnerInv, RowsLocked
      <4>2. <<req[d].p.org, req[d].user>> # <<o, x>>
        BY <2>6, <2>7, <3>1, <3>3
      <4> QED BY <1>4, <2>1, <2>2, <2>6, <2>8, <3>3, <4>1, <4>2
    <3> QED BY <3>2, <3>3
  <2>10. OwnerStays'
    <3> SUFFICES ASSUME NEW q \in DOMAIN orgs' \ overlapped'
                 PROVE  \E u \in Users :
                          /\ members'[<<q, u>>] = "owner"
                          /\ \A d \in Clients :
                               Committing(d)' /\ req'[d].p.org = q /\ req'[d].user = u => req'[d].new = "owner"
      BY DEF OwnerStays
    <3>1. q \in DOMAIN orgs \ overlapped
      BY <1>4, <1>5
    <3>2. PICK u \in Users :
            /\ members[<<q, u>>] = "owner"
            /\ \A d \in Clients : Committing(d) /\ req[d].p.org = q /\ req[d].user = u => req[d].new = "owner"
      BY <3>1 DEF Inv, OwnerInv, OwnerStays
    <3>3. CASE <<q, u>> # <<o, x>> \/ new = "owner" \/ r = None
      <4>1. r = None => ~ Committing(c)'
        BY <2>2 DEF Committing
      <4>3. \A d \in Clients :
              Committing(d)' /\ req'[d].p.org = q /\ req'[d].user = u => req'[d].new = "owner"
        BY <2>1, <2>2, <2>6, <2>8, <3>2, <3>3, <4>1
      <4>2. members'[<<q, u>>] = "owner"
        BY <1>4, <3>2
      <4> QED BY <4>2, <4>3
    <3>4. CASE <<q, u>> = <<o, x>> /\ new # "owner" /\ r # None
      <4>1. LeavesOwners(c) /\ q = o
        BY <1>2, <3>2, <3>4 DEF LeavesOwners, GetMembership
      <4>2. \A d \in Uncommitted(o) : ~ LeavesOwners(d)
        BY <1>5, <2>1, <2>2, <3>4, <4>1
      <4>3. PICK v \in Owners(o) : v # x
        BY <1>7, <3>4 DEF enforce_last_owner
      <4>4. v \in Users /\ members[<<o, v>>] = "owner"
        BY <4>3 DEF Owners, GetMembership
      <4>5. \A d \in Clients :
              Committing(d) /\ req[d].p.org = o /\ req[d].user = v => req[d].new = "owner"
        BY <4>2, <4>4 DEF Uncommitted, LeavesOwners, GetMembership, Committing
      <4>6. \A d \in Clients :
              Committing(d)' /\ req'[d].p.org = o /\ req'[d].user = v => req'[d].new = "owner"
        BY <2>1, <2>2, <2>6, <4>3, <4>5
      <4> QED BY <1>4, <4>1, <4>4, <4>6
    <3> QED BY <3>3, <3>4
  <2> QED BY <2>3, <2>4, <2>5, <2>9, <2>10 DEF Inv, OwnerInv
<1> QED BY <1>2, <1>6, <1>7 DEF UpdateMemberRole, GetMembership

LEMMA AfterStep ==
  ASSUME Inv, topic = "roles", UNCHANGED topic, NEW c \in Clients, afterRole(c)
  PROVE  Inv'
<1>1. req \in [Clients -> RoleReq \cup {None}] /\ req[c] # None /\ req[c] \in RoleReq /\ RoleFits(req[c])
  BY DEF Inv, OwnerInv, RequestsFit, RoleFits, TypeOK, ReqOf, afterRole, At
<1>2. rcache' \in CacheType
  <2>1. InvalidateMemberRole(req[c].p.org, req[c].user)
    BY DEF afterRole
  <2> QED BY <2>1 DEF InvalidateMemberRole, Inv, TypeOK, CacheType, RoleOrNone
<1>3. UNCHANGED <<topic, orgs, members, overlapped, mailVars, inviteVars>>
  BY DEF afterRole
<1>4. CASE Done(c)
  BY <1>2, <1>3, <1>4, QuietRoleStep DEF Done, RoleFits
<1>5. CASE /\ req[c].stepDown
           /\ Hold(c, [req[c] EXCEPT !.op = "write", !.user = req[c].p.user, !.new = "admin", !.stepDown = FALSE])
  <2>1. PICK r : r = [req[c] EXCEPT !.op = "write", !.user = req[c].p.user, !.new = "admin", !.stepDown = FALSE]
    OBVIOUS
  <2>2. req[c].p.user \in Users
    BY <1>1, <1>5 DEF RoleFits
  <2>3. r \in RoleReq /\ r.op = "write" /\ r.p = req[c].p /\ ~ r.stepDown
    BY <1>1, <2>1, <2>2 DEF RoleReq, RoleOps, RoleOrNone, Roles
  <2>4. RoleFits(r)
    BY <1>1, <2>3 DEF RoleFits
  <2>5. req' = [req EXCEPT ![c] = r]
    BY <1>5, <2>1 DEF Hold
  <2> QED BY <1>2, <1>3, <2>3, <2>4, <2>5, QuietRoleStep
<1> QED BY <1>4, <1>5 DEF afterRole

LEMMA CreateOrgStep ==
  ASSUME Inv, topic = "roles", UNCHANGED topic, NEW c \in Clients, NEW w \in Users,
         NEW s \in Slugs \cup {None}, CreateOrg(c, w, s)
  PROVE  Inv'
<1>1. req' = req /\ Len(orgs) < MaxOrgs /\ UNCHANGED <<rcache, overlapped, mailVars, inviteVars>>
  BY DEF CreateOrg, Refuse, Once
<1>2. CASE UNCHANGED <<orgs, members>>
  <2>2. TypeOK'
    BY <1>1, <1>2 DEF Inv, TypeOK, ReqOf, mailVars, inviteVars
  <2>3. \A d \in Clients : Committing(d)' => Committing(d) /\ req'[d] = req[d]
    BY <1>1 DEF Committing
  <2>4. OwnerStays'
    BY <1>1, <1>2, <2>3, OwnersUnmoved DEF Inv, OwnerInv
  <2>5. RowsLocked'
    BY <1>1, <1>2, <2>3 DEF Inv, OwnerInv, RowsLocked
  <2>6. RequestsFit' /\ NoGhosts'
    BY <1>1, <1>2 DEF Inv, OwnerInv, RequestsFit, NoGhosts
  <2> QED BY <2>2, <2>4, <2>5, <2>6 DEF Inv, OwnerInv
<1>3. CASE CreateOrgWithOwner(w, IF s = None THEN deriveSlug ELSE s)
  <2>1. PICK n : n = Len(orgs)
    OBVIOUS
  <2>2. n \in Nat /\ n >= 1 /\ n + 1 \in OrgIds /\ DOMAIN orgs = 1..n /\ MaxOrgs \in Nat /\ n + 1 \notin 1..n
    BY <1>1, <2>1, OrgIdsOfRows DEF Inv, TypeOK, OrgIds
  <2>3. PICK row \in OrgRow : orgs' = Append(orgs, row)
    <3>1. (IF s = None THEN deriveSlug ELSE s) \in Nat \cup Slugs
      BY <2>1, <2>2 DEF deriveSlug
    <3> QED BY <1>3, <3>1 DEF CreateOrgWithOwner, OrgRow, Plans
  <2>4. orgs \in Seq(OrgRow)
    BY DEF Inv, TypeOK
  <2> HIDE DEF OrgRow
  <2>5. orgs' \in Seq(OrgRow) /\ Len(orgs') = n + 1
    BY <2>1, <2>3, <2>4, AppendProperties
  <2>6. DOMAIN orgs' = 1..(n + 1) /\ DOMAIN orgs' = DOMAIN orgs \cup {n + 1}
    BY <2>2, <2>5, LenProperties
  <2>7. Len(orgs') \in 1..MaxOrgs
    BY <2>2, <2>5 DEF OrgIds
  <2>8. members \in [OrgIds \X Users -> RoleOrNone] /\ members' = [members EXCEPT ![<<n + 1, w>>] = "owner"]
    BY <1>3, <2>1 DEF CreateOrgWithOwner, Inv, TypeOK
  <2>9. /\ members' \in [OrgIds \X Users -> RoleOrNone] /\ members'[<<n + 1, w>>] = "owner"
        /\ \A y \in OrgIds \X Users : y # <<n + 1, w>> => members'[y] = members[y]
    <3>1. <<n + 1, w>> \in OrgIds \X Users /\ "owner" \in RoleOrNone
      BY <2>2 DEF RoleOrNone, Roles
    <3> QED BY <2>8, <3>1
  <2>10. TypeOK'
    BY <1>1, <2>5, <2>7, <2>9 DEF Inv, TypeOK, ReqOf, mailVars, inviteVars
  <2>11. RequestsFit'
    BY <1>1, <2>6 DEF Inv, OwnerInv, RequestsFit
  <2>12. NoGhosts'
    <3> SUFFICES ASSUME NEW o \in OrgIds \ DOMAIN orgs', NEW u \in Users
                 PROVE  members'[<<o, u>>] = None
      BY DEF NoGhosts
    <3>1. o \in OrgIds \ DOMAIN orgs /\ o # n + 1
      BY <2>6
    <3> QED BY <2>9, <3>1 DEF Inv, OwnerInv, NoGhosts
  <2>13. \A d \in Clients : (Committing(d)' <=> Committing(d)) /\ req'[d] = req[d]
    BY <1>1 DEF Committing
  <2>14. \A d \in Clients : Committing(d) => req[d].p.org # n + 1 /\ <<req[d].p.org, req[d].user>> \in OrgIds \X Users
    <3> SUFFICES ASSUME NEW d \in Clients, Committing(d)
                 PROVE  req[d].p.org # n + 1 /\ <<req[d].p.org, req[d].user>> \in OrgIds \X Users
      OBVIOUS
    <3>1. req[d] \in RoleReq /\ req[d].p.org \in DOMAIN orgs
      BY DEF Committing, Inv, OwnerInv, RequestsFit, TypeOK, ReqOf
    <3>2. req[d].p.org \in OrgIds
      BY <3>1, OrgIdsOfRows DEF Inv
    <3> QED BY <2>2, <3>1, <3>2 DEF RoleReq
  <2>15. RowsLocked'
    BY <2>9, <2>13, <2>14 DEF Inv, OwnerInv, RowsLocked
  <2>16. OwnerStays'
    <3> SUFFICES ASSUME NEW q \in DOMAIN orgs' \ overlapped'
                 PROVE  \E u \in Users :
                          /\ members'[<<q, u>>] = "owner"
                          /\ \A d \in Clients :
                               Committing(d)' /\ req'[d].p.org = q /\ req'[d].user = u => req'[d].new = "owner"
      BY DEF OwnerStays
    <3>1. CASE q = n + 1
      BY <2>9, <2>13, <2>14, <3>1
    <3>2. CASE q # n + 1
      <4>1. q \in DOMAIN orgs \ overlapped /\ q \in OrgIds
        BY <1>1, <2>6, <3>2, OrgIdsOfRows DEF Inv
      <4>2. PICK u \in Users :
              /\ members[<<q, u>>] = "owner"
              /\ \A d \in Clients : Committing(d) /\ req[d].p.org = q /\ req[d].user = u => req[d].new = "owner"
        BY <4>1 DEF Inv, OwnerInv, OwnerStays
      <4>3. members'[<<q, u>>] = "owner"
        BY <2>9, <3>2, <4>1, <4>2
      <4> QED BY <2>13, <4>2, <4>3
    <3> QED BY <3>1, <3>2
  <2> QED BY <2>10, <2>11, <2>12, <2>15, <2>16 DEF Inv, OwnerInv
<1> QED BY <1>2, <1>3 DEF CreateOrg

LEMMA RolesStep ==
  ASSUME Inv, topic = "roles", UNCHANGED topic, RoleNext
  PROVE  Inv'
<1>1. ASSUME NEW c \in Clients, authorizeRole(c) PROVE Inv'
  <2>1. /\ req[c] # None /\ (Goto(c, "write") \/ Done(c)) /\ rcache' \in CacheType
        /\ UNCHANGED <<topic, orgs, members, overlapped, mailVars, inviteVars>>
    BY <1>1 DEF authorizeRole, At, orgVars, Inv, TypeOK, CacheType
  <2> QED BY <2>1, GoOnStep DEF RoleOps
<1>2. ASSUME NEW c \in Clients, Abort(c) PROVE Inv'
  <2>1. /\ req[c] # None /\ Done(c) /\ rcache' \in CacheType
        /\ UNCHANGED <<topic, orgs, members, overlapped, mailVars, inviteVars>>
    BY <1>2 DEF Abort, orgVars, Inv, TypeOK, CacheType
  <2> QED BY <2>1, GoOnStep DEF RoleOps
<1>3. ASSUME NEW o \in OrgIds, NEW u \in Users, RoleExpires(o, u) PROVE Inv'
  <2>1. rcache' \in CacheType /\ UNCHANGED <<topic, orgs, members, overlapped, mailVars, inviteVars, req, served>>
    BY <1>3 DEF RoleExpires, Inv, TypeOK, CacheType, RoleOrNone
  <2>2. TypeOK'
    BY <2>1 DEF Inv, TypeOK, ReqOf, CacheType, mailVars, inviteVars
  <2>3. \A d \in Clients : Committing(d)' => Committing(d) /\ req'[d] = req[d]
    BY <2>1 DEF Committing
  <2>4. OwnerStays'
    BY <2>1, <2>3, OwnersUnmoved DEF Inv, OwnerInv
  <2>5. RowsLocked'
    BY <2>1, <2>3 DEF Inv, OwnerInv, RowsLocked
  <2>6. RequestsFit' /\ NoGhosts'
    BY <2>1 DEF Inv, OwnerInv, RequestsFit, NoGhosts
  <2> QED BY <2>2, <2>4, <2>5, <2>6 DEF Inv, OwnerInv
<1> QED BY <1>1, <1>2, <1>3, AskRoleStep, LeaveStep, CreateOrgStep, UpdateStep, CommitStep, AfterStep DEF RoleNext

-----------------------------------------------------------------------------
(* Invitations: what every step leaves alone *)

All == Inv /\ InviteFits /\ SeatInv /\ ReachInv

MailTyped ==
  /\ invites \in Seq(Invite) /\ intents \in Seq(Intent)
  /\ bus \in {"kafka", "redis"} /\ acked \subseteq Nat
  /\ minted \in Nat /\ mailed \subseteq Nat
  /\ mailer \in [Mailers -> Mail \cup {None}]

LEMMA InviteTypes ==
  ASSUME Inv, topic = "seats"
  PROVE  /\ MailTyped /\ req \in [Clients -> SeatReq \cup {None}]
         /\ members \in [OrgIds \X Users -> RoleOrNone] /\ rcache \in CacheType
BY DEF Inv, TypeOK, ReqOf, MailTyped, CacheType

\* No role is being changed while invitations are sent.
LEMMA NoCommits ==
  ASSUME NEW rs \in [Clients -> SeatReq \cup {None}], NEW d \in Clients, rs[d] # None
  PROVE  rs[d].op # "commit"
<1>1. rs[d] \in InviteReq \/ rs[d] \in AdminReq
  BY DEF SeatReq
<1> QED BY <1>1 DEF InviteReq, InviteOps, AdminReq

LEMMA SeatStepInv ==
  ASSUME Inv, topic = "seats", UNCHANGED <<topic, overlapped>>,
         orgs' \in Seq(OrgRow), DOMAIN orgs' = DOMAIN orgs,
         MailTyped', rcache' \in CacheType, req' \in [Clients -> SeatReq \cup {None}],
         members' \in [OrgIds \X Users -> RoleOrNone],
         \A c \in Clients : req'[c] # None /\ req'[c].op \in InviteOps => req'[c].p.org \in DOMAIN orgs,
         \A o \in OrgIds, u \in Users : members[<<o, u>>] = "owner" => members'[<<o, u>>] = "owner",
         \A o \in OrgIds \ DOMAIN orgs, u \in Users : members'[<<o, u>>] = members[<<o, u>>]
  PROVE  Inv'
<1>1. TypeOK'
  <2>1. Len(orgs') = Len(orgs)
    BY LenProperties DEF Inv, TypeOK
  <2> QED BY <2>1 DEF Inv, TypeOK, ReqOf, MailTyped, CacheType
<1>2. RequestsFit'
  BY DEF RequestsFit
<1>3. NoGhosts'
  BY DEF Inv, OwnerInv, NoGhosts
<1>4. \A d \in Clients : ~ Committing(d)'
  BY NoCommits DEF Committing
<1>5. RowsLocked'
  BY <1>4 DEF RowsLocked
<1>6. OwnerStays'
  <2> SUFFICES ASSUME NEW q \in DOMAIN orgs \ overlapped
               PROVE  \E u \in Users : members'[<<q, u>>] = "owner"
    BY <1>4 DEF OwnerStays
  <2>1. q \in OrgIds
    BY OrgIdsOfRows DEF Inv
  <2> QED BY <2>1 DEF Inv, OwnerInv, OwnerStays
<1> QED BY <1>1, <1>2, <1>3, <1>5, <1>6 DEF Inv, OwnerInv

LEMMA InviteStepInv ==
  ASSUME Inv, topic = "seats", UNCHANGED <<topic, orgs, overlapped>>,
         MailTyped', rcache' \in CacheType, req' \in [Clients -> SeatReq \cup {None}],
         members' \in [OrgIds \X Users -> RoleOrNone],
         \A c \in Clients : req'[c] # None /\ req'[c].op \in InviteOps => req'[c].p.org \in DOMAIN orgs,
         \A o \in OrgIds, u \in Users : members[<<o, u>>] = "owner" => members'[<<o, u>>] = "owner",
         \A o \in OrgIds \ DOMAIN orgs, u \in Users : members'[<<o, u>>] = members[<<o, u>>]
  PROVE  Inv'
<1>1. orgs' \in Seq(OrgRow) /\ DOMAIN orgs' = DOMAIN orgs
  BY DEF Inv, TypeOK
<1> QED BY <1>1, SeatStepInv

LEMMA CountsAreNumbers ==
  ASSUME invites \in Seq(Invite), NEW o
  PROVE  /\ IsFiniteSet(Pending(o)) /\ CountPendingInvitations(o) \in Nat
         /\ IsFiniteSet(MembersOf(o)) /\ CountMembers(o) \in Nat /\ Used(o) \in Nat
<1>1. IsFiniteSet(DOMAIN invites)
  <2>1. DOMAIN invites = 1..Len(invites) /\ Len(invites) \in Nat
    BY LenProperties
  <2> QED BY <2>1, FS_Interval
<1>2. Pending(o) \subseteq DOMAIN invites
  BY DEF Pending
<1>3. IsFiniteSet(Pending(o))
  BY <1>1, <1>2, FS_Subset
<1>4. MembersOf(o) \subseteq Users
  BY DEF MembersOf
<1>5. IsFiniteSet(MembersOf(o))
  BY <1>4, FS_Subset, MembersAssumption
<1>6. CountPendingInvitations(o) \in Nat
  BY <1>3, FS_CardinalityType DEF CountPendingInvitations
<1>7. CountMembers(o) \in Nat
  BY <1>5, FS_CardinalityType DEF CountMembers
<1> QED BY <1>3, <1>5, <1>6, <1>7 DEF Used

\* Every plan has a seat, and an unknown one is the free plan.
LEMMA CapsAreNumbers ==
  ASSUME NEW p
  PROVE  SeatCap(p) \in Nat /\ SeatCap(p) >= 1 /\ ParsePlan(p) \in Plans
<1>1. ParsePlan(p) \in Plans
  BY DEF ParsePlan, Plans
<1>2. \A q \in Plans : seatCaps[q] \in Nat /\ seatCaps[q] >= 1
  <2>1. SUFFICES ASSUME NEW q \in Plans PROVE seatCaps[q] \in Nat /\ seatCaps[q] >= 1
    OBVIOUS
  <2>2. \E i \in 1..4 : catalogOrder[i] = q
    BY DEF Plans, catalogOrder
  <2>3. PICK i \in 1..4 : i = CHOOSE j \in 1..4 : catalogOrder[j] = q
    BY <2>2
  <2>4. seatCaps[q] = <<1, 3, 10, 1000000>>[i]
    BY <2>3 DEF seatCaps, PerPlan
  <2>5. i = 1 \/ i = 2 \/ i = 3 \/ i = 4
    BY <2>3
  <2> QED BY <2>4, <2>5
<1> QED BY <1>1, <1>2 DEF SeatCap

-----------------------------------------------------------------------------
(* Invitations: requests that touch one at most *)

\* Invitations keep their org and token, and none becomes pending again.
Touched ==
  /\ invites' \in Seq(Invite) /\ DOMAIN invites' = DOMAIN invites
  /\ \A j \in DOMAIN invites :
       /\ invites'[j].org = invites[j].org /\ invites'[j].token = invites[j].token
       /\ invites'[j].state = "pending" => invites[j].state = "pending"

LEMMA FewerPending ==
  ASSUME invites \in Seq(Invite), NEW o, Pending(o)' \subseteq Pending(o), UNCHANGED members
  PROVE  /\ CountMembers(o)' = CountMembers(o) /\ Used(o)' <= Used(o)
         /\ Used(o)' \in Nat /\ Used(o) \in Nat
<1>1. CountPendingInvitations(o)' <= CountPendingInvitations(o)
  BY CountsAreNumbers, FS_Subset DEF CountPendingInvitations
<1>2. CountMembers(o)' = CountMembers(o)
  BY DEF CountMembers, MembersOf, GetMembership
<1>3. CountMembers(o) \in Nat /\ CountPendingInvitations(o) \in Nat
  BY CountsAreNumbers
<1>4. CountPendingInvitations(o)' \in Nat
  <2>1. IsFiniteSet(Pending(o)')
    BY CountsAreNumbers, FS_Subset
  <2> QED BY <2>1, FS_CardinalityType DEF CountPendingInvitations
<1> QED BY <1>1, <1>2, <1>3, <1>4 DEF Used

LEMMA TouchedSeats ==
  ASSUME invites \in Seq(Invite), Touched, UNCHANGED <<members, orgs>>, NEW o
  PROVE  /\ CountMembers(o)' = CountMembers(o) /\ Used(o)' <= Used(o) /\ Cap(o)' = Cap(o)
         /\ Used(o)' \in Nat /\ Used(o) \in Nat
<1>1. Pending(o)' \subseteq Pending(o)
  BY DEF Pending, Touched
<1>2. Cap(o)' = Cap(o)
  BY DEF Cap, orgPlan
<1> QED BY <1>1, <1>2, FewerPending

\* A seat is taken within the cap.
SeatsTaken ==
  \A q \in DOMAIN orgs \ overtaken : Used(q)' > Used(q) => Used(q)' <= Cap(q)'
Kept == All' /\ SeatsTaken

LEMMA TouchedFew ==
  ASSUME invites \in Seq(Invite), Touched, UNCHANGED <<members, orgs>>
  PROVE  SeatsTaken
<1> SUFFICES ASSUME NEW q, Used(q)' > Used(q) PROVE FALSE
  BY DEF SeatsTaken
<1>1. Used(q)' <= Used(q) /\ Used(q)' \in Nat /\ Used(q) \in Nat
  BY TouchedSeats
<1> QED BY <1>1

\* A step that leaves members and mail alone and starts or ends requests r.
LEMMA RequestsStep ==
  ASSUME All, topic = "seats", NEW r \in SeatReq \cup {None},
         r # None => /\ r.op \in InviteOps => r.p.org \in DOMAIN orgs
                     /\ RequestKnows(r)
                     /\ r.p.org \notin overtaken => CountsHold(r, r.p.org),
         req' \in [Clients -> SeatReq \cup {None}], \A d \in Clients : req'[d] = req[d] \/ req'[d] = r,
         Touched, rcache' \in CacheType,
         UNCHANGED <<topic, orgs, members, overlapped, mailVars, overtaken>>
  PROVE  Kept
<1>1. MailTyped /\ req \in [Clients -> SeatReq \cup {None}] /\ members \in [OrgIds \X Users -> RoleOrNone]
  BY InviteTypes DEF All
<1>2. req' \in [Clients -> SeatReq \cup {None}] /\ \A d \in Clients : req'[d] = req[d] \/ req'[d] = r
  OBVIOUS
<1>3. \A d \in Clients : req[d] # None => /\ req[d].op \in InviteOps => req[d].p.org \in DOMAIN orgs
                                          /\ RequestKnows(req[d])
                                          /\ req[d].p.org \notin overtaken => CountsHold(req[d], req[d].p.org)
  BY DEF All, Inv, OwnerInv, RequestsFit, InviteFits, SeatInv
<1>4. MailTyped'
  BY <1>1 DEF MailTyped, mailVars, Touched
<1>5. Inv'
  BY <1>1, <1>2, <1>3, <1>4, InviteStepInv DEF All
<1>6. \A q : RequestKnows(q) => RequestKnows(q)'
  <2> SUFFICES ASSUME NEW q, RequestKnows(q) PROVE RequestKnows(q)'
    OBVIOUS
  <2> QED BY DEF RequestKnows, Touched
<1>7. InviteFits'
  <2>1. \A d \in Clients : req'[d] # None => RequestKnows(req[d])'
    <3> SUFFICES ASSUME NEW d \in Clients, req'[d] # None PROVE RequestKnows(req[d])'
      OBVIOUS
    <3>1. PICK q : q = req'[d] /\ RequestKnows(q)
      BY <1>2, <1>3
    <3>2. RequestKnows(q)'
      BY <1>6, <3>1
    <3> QED BY <3>1, <3>2 DEF RequestKnows
  <2>2. \A i \in DOMAIN invites' : invites'[i].org \in DOMAIN orgs'
    BY DEF All, InviteFits, Touched
  <2>3. \A k \in DOMAIN intents' : intents'[k].kind = "invitation" => intents'[k].inv \in DOMAIN invites'
    BY DEF All, InviteFits, Touched, mailVars
  <2>4. \A m \in Mailers : mailer'[m] # None => MailerFits(m)'
    BY DEF All, InviteFits, MailerFits, mailVars
  <2> QED BY <2>1, <2>2, <2>3, <2>4 DEF InviteFits
<1>8. invites \in Seq(Invite)
  BY <1>1 DEF MailTyped
<1>9. \A q, o : CountsHold(q, o) => CountsHold(q, o)'
  <2> SUFFICES ASSUME NEW q, NEW o, CountsHold(q, o) PROVE CountsHold(q, o)'
    OBVIOUS
  <2>1. Cap(o) \in Nat
    BY CapsAreNumbers DEF Cap
  <2>2. CountMembers(o)' = CountMembers(o) /\ Used(o)' <= Used(o) /\ Cap(o)' = Cap(o) /\ Used(o)' \in Nat /\ Used(o) \in Nat
    BY <1>8, TouchedSeats
  <2> QED BY <2>1, <2>2 DEF CountsHold
<1>10. SeatInv'
  <2>2. ASSUME NEW d \in Clients, req'[d] # None, req'[d].p.org \notin overtaken'
        PROVE  CountsHold(req[d], req[d].p.org)'
    <3>1. PICK q, o : q = req'[d] /\ o = req'[d].p.org
      OBVIOUS
    <3>2. CountsHold(q, o)
      BY <1>2, <1>3, <2>2, <3>1
    <3>3. CountsHold(q, o)'
      BY <1>9, <3>2
    <3> QED BY <3>1, <3>3 DEF CountsHold
  <2> QED BY <2>2 DEF All, SeatInv
<1>11. ReachInv'
  <2>1. ASSUME NEW i \in DOMAIN invites', invites'[i].state = "pending", invites'[i].token # None,
               invites'[i].token \notin mailed'
        PROVE  \E k \in DOMAIN intents' : Carries(k, i)'
    <3>1. PICK k \in DOMAIN intents : Carries(k, i)
      BY <2>1 DEF All, ReachInv, StillPending, Touched, mailVars
    <3>2. Carries(k, i)'
      BY <2>1, <3>1 DEF Carries, Ahead, Holds, Lost, Touched, mailVars
    <3> QED BY <3>2 DEF mailVars
  <2>2. HeldOnce'
    BY DEF All, ReachInv, HeldOnce, Holds, Lost, mailVars
  <2> QED BY <2>1, <2>2 DEF ReachInv, StillPending
<1>12. SeatsTaken
  BY <1>8, TouchedFew
<1> QED BY <1>5, <1>7, <1>10, <1>11, <1>12 DEF All, Kept

LEMMA RequestStep ==
  ASSUME All, topic = "seats", NEW c \in Clients, NEW r \in SeatReq \cup {None},
         r # None => /\ r.op \in InviteOps => r.p.org \in DOMAIN orgs
                     /\ RequestKnows(r)
                     /\ r.p.org \notin overtaken => CountsHold(r, r.p.org),
         req' = [req EXCEPT ![c] = r] \/ req' = req, Touched, rcache' \in CacheType,
         UNCHANGED <<topic, orgs, members, overlapped, mailVars, overtaken>>
  PROVE  Kept
<1>1. req \in [Clients -> SeatReq \cup {None}]
  BY InviteTypes DEF All
<1>2. req' \in [Clients -> SeatReq \cup {None}] /\ \A d \in Clients : req'[d] = req[d] \/ req'[d] = r
  BY <1>1
<1> QED BY <1>2, RequestsStep

LEMMA TouchOne ==
  ASSUME invites \in Seq(Invite), NEW i \in DOMAIN invites, NEW v \in Invite,
         v.org = invites[i].org, v.token = invites[i].token, v.state = "pending" => StillPending(i),
         invites' = [invites EXCEPT ![i] = v]
  PROVE  Touched
<1>1. i \in 1..Len(invites) /\ DOMAIN invites = 1..Len(invites)
  BY LenProperties
<1> HIDE DEF Invite
<1>2. /\ invites' \in Seq(Invite) /\ Len(invites') = Len(invites)
      /\ \A j \in 1..Len(invites) : invites'[j] = IF j = i THEN v ELSE invites[j]
  BY <1>1, ExceptSeq
<1>3. DOMAIN invites' = DOMAIN invites
  BY <1>1, <1>2, LenProperties
<1> QED BY <1>1, <1>2, <1>3 DEF Touched, StillPending

LEMMA EndedOne ==
  ASSUME invites \in Seq(Invite), NEW i \in DOMAIN invites, NEW st \in {"revoked", "accepted"},
         invites' = [invites EXCEPT ![i].state = st]
  PROVE  Touched
<1>1. PICK v : v = [invites[i] EXCEPT !.state = st]
  OBVIOUS
<1>2. invites[i] \in Invite
  BY ElementOfSeq, LenProperties
<1>3. v \in Invite /\ v.org = invites[i].org /\ v.token = invites[i].token /\ v.state # "pending"
  BY <1>1, <1>2 DEF Invite
<1>4. invites' = [invites EXCEPT ![i] = v]
  BY <1>1
<1> QED BY <1>3, <1>4, TouchOne

LEMMA AgedOne ==
  ASSUME invites \in Seq(Invite), NEW i \in DOMAIN invites, NEW b \in BOOLEAN,
         invites' = [invites EXCEPT ![i].over = b]
  PROVE  Touched
<1>1. PICK v : v = [invites[i] EXCEPT !.over = b]
  OBVIOUS
<1>2. invites[i] \in Invite
  BY ElementOfSeq, LenProperties
<1>3. v \in Invite /\ v.org = invites[i].org /\ v.token = invites[i].token /\ v.state = invites[i].state
  BY <1>1, <1>2 DEF Invite
<1>4. invites' = [invites EXCEPT ![i] = v]
  BY <1>1
<1> QED BY <1>3, <1>4, TouchOne DEF StillPending

LEMMA InviteMoved ==
  ASSUME req \in [Clients -> SeatReq \cup {None}], NEW c \in Clients, req[c] \in InviteReq,
         NEW op \in InviteOps, Goto(c, op)
  PROVE  \E r \in InviteReq :
           /\ req' = [req EXCEPT ![c] = r] /\ r.op = op /\ r.p = req[c].p /\ r.inv = req[c].inv
           /\ r.email = req[c].email /\ r.role = req[c].role /\ r.n = req[c].n
<1>1. PICK r : r = [req[c] EXCEPT !.op = op]
  OBVIOUS
<1> HIDE DEF InviteOps
<1>2. req[c] \in InviteReq
  OBVIOUS
<1>3. /\ r \in InviteReq /\ r.op = op /\ r.p = req[c].p /\ r.inv = req[c].inv
      /\ r.email = req[c].email /\ r.role = req[c].role /\ r.n = req[c].n
  BY <1>1, <1>2 DEF InviteReq
<1>4. req' = [req EXCEPT ![c] = r]
  BY <1>1 DEF Goto
<1> QED BY <1>3, <1>4

\* What holds of a request in progress.
LEMMA RequestFacts ==
  ASSUME All, topic = "seats", NEW c \in Clients, req[c] # None, req[c].op \in InviteOps
  PROVE  /\ req \in [Clients -> SeatReq \cup {None}] /\ req[c] \in InviteReq
         /\ req[c].p.org \in DOMAIN orgs /\ RequestKnows(req[c])
         /\ req[c].p.org \notin overtaken => CountsHold(req[c], req[c].p.org)
         /\ invites \in Seq(Invite)
<1>1. req \in [Clients -> SeatReq \cup {None}] /\ invites \in Seq(Invite)
  BY InviteTypes DEF All, MailTyped
<1>2. req[c] \in InviteReq
  <2>1. req[c] \in InviteReq \/ req[c] \in AdminReq
    BY <1>1 DEF SeatReq
  <2> QED BY <2>1 DEF AdminReq, InviteOps
<1> QED BY <1>1, <1>2 DEF All, Inv, OwnerInv, RequestsFit, InviteFits, SeatInv

\* A request that ends without a change.
LEMMA DoneStep ==
  ASSUME All, topic = "seats", NEW c \in Clients, Done(c) \/ Refuse(c), rcache' \in CacheType,
         Touched, UNCHANGED <<topic, orgs, members, overlapped, mailVars, overtaken>>
  PROVE  Kept
<1>1. req' = [req EXCEPT ![c] = None] \/ req' = req
  BY DEF Done, Refuse
<1> QED BY <1>1, RequestStep

LEMMA NothingTouched ==
  ASSUME invites \in Seq(Invite), UNCHANGED invites
  PROVE  Touched
BY DEF Touched

LEMMA CreateInvitationStep ==
  ASSUME All, topic = "seats", UNCHANGED topic, NEW c \in Clients, NEW p \in Principals,
         NEW e \in InviteEmails, NEW role \in {"viewer", "owner"}, CreateInvitation(c, p, e, role)
  PROVE  Kept
<1>1. UNCHANGED <<topic, orgs, members, overlapped, mailVars, overtaken, invites>> /\ rcache' \in CacheType
  BY CacheKept DEF CreateInvitation, All, Inv, inviteVars
<1>2. invites \in Seq(Invite) /\ Touched
  BY <1>1, InviteTypes, NothingTouched DEF All, MailTyped
<1>3. CASE Refuse(c)
  BY <1>1, <1>2, <1>3, DoneStep
<1>4. CASE /\ role \in Roles \ {"owner"}
           /\ Begin(c, InviteRequest("seats", p, None, e, role, CountMembers(p.org)))
  <2>1. PICK r : r = InviteRequest("seats", p, None, e, role, CountMembers(p.org))
    OBVIOUS
  <2>2. p \in Actor /\ p.org \in DOMAIN orgs /\ CountMembers(p.org) \in Nat
    BY <1>2, PrincipalFacts, CountsAreNumbers DEF All, Inv
  <2>3. /\ r.op = "seats" /\ r.p = p /\ r.role = role /\ r.email = e /\ r.n = CountMembers(p.org) /\ r.inv = None
    BY <2>1 DEF InviteRequest
  <2>4. r \in InviteReq
    BY <1>4, <2>1, <2>2 DEF InviteRequest, InviteReq, InviteOps, RoleOrNone, Roles
  <2>5. RequestKnows(r) /\ CountsHold(r, r.p.org)
    BY <1>4, <2>3 DEF RequestKnows, CountsHold
  <2>6. req' = [req EXCEPT ![c] = r]
    BY <1>4, <2>1 DEF Begin, Hold
  <2> QED BY <1>1, <1>2, <2>2, <2>3, <2>4, <2>5, <2>6, RequestStep DEF SeatReq
<1> QED BY <1>3, <1>4 DEF CreateInvitation

\* The gate: the members counted before are the members now, unless a join
\* came between.
LEMMA SeatGateStep ==
  ASSUME All, topic = "seats", UNCHANGED topic, NEW c \in Clients, seatGate(c)
  PROVE  Kept
<1>1. UNCHANGED <<topic, orgs, members, overlapped, mailVars, overtaken, invites>> /\ rcache' \in CacheType
  BY DEF seatGate, All, Inv, TypeOK, CacheType, inviteVars, orgVars
<1>2. /\ req \in [Clients -> SeatReq \cup {None}] /\ req[c] \in InviteReq /\ req[c].p.org \in DOMAIN orgs
      /\ RequestKnows(req[c]) /\ invites \in Seq(Invite) /\ req[c] # None /\ req[c].op = "seats"
      /\ req[c].p.org \notin overtaken => CountsHold(req[c], req[c].p.org)
  BY RequestFacts DEF seatGate, At, InviteOps
<1>3. Touched
  BY <1>1, <1>2, NothingTouched
<1>4. CASE Done(c)
  BY <1>1, <1>3, <1>4, DoneStep
<1>5. CASE /\ HasFreeSeat(seatUsage(req[c].p.org, req[c].n), SeatCap(orgPlan(req[c].p.org)))
           /\ Goto(c, "insert")
  <2>1. PICK r \in InviteReq :
          /\ req' = [req EXCEPT ![c] = r] /\ r.op = "insert" /\ r.p = req[c].p /\ r.inv = req[c].inv
          /\ r.email = req[c].email /\ r.role = req[c].role /\ r.n = req[c].n
    BY <1>2, <1>5, InviteMoved DEF InviteOps
  <2>2. RequestKnows(r)
    BY <1>2, <2>1 DEF RequestKnows
  <2>3. r.p.org \notin overtaken => CountsHold(r, r.p.org)
    BY <1>2, <1>5, <2>1 DEF CountsHold, HasFreeSeat, seatUsage, Used, Cap
  <2> QED BY <1>1, <1>2, <1>3, <2>1, <2>2, <2>3, RequestStep DEF SeatReq
<1> QED BY <1>4, <1>5 DEF seatGate

LEMMA ManageStep ==
  ASSUME All, topic = "seats", UNCHANGED topic, NEW c \in Clients, NEW p \in Principals,
         NEW i \in DOMAIN invites, RevokeInvitation(c, p, i) \/ ResendInvitation(c, p, i)
  PROVE  Kept
<1>1. UNCHANGED <<topic, orgs, members, overlapped, mailVars, overtaken>> /\ rcache' \in CacheType
  BY CacheKept DEF RevokeInvitation, ResendInvitation, All, Inv
<1>2. invites \in Seq(Invite)
  BY InviteTypes DEF All, MailTyped
<1>3. CASE Refuse(c) /\ UNCHANGED invites
  BY <1>1, <1>2, <1>3, NothingTouched, DoneStep
<1>4. CASE Once(c) /\ invites' = [invites EXCEPT ![i].state = "revoked"]
  <2>1. Touched
    BY <1>2, <1>4, EndedOne
  <2>2. req' = req
    BY <1>4 DEF Once
  <2> QED BY <1>1, <2>1, <2>2, RequestStep DEF SeatReq
<1>5. CASE /\ invites' = [invites EXCEPT ![i].over = FALSE]
           /\ Begin(c, InviteRequest("publish", p, i, None, None, 0))
  <2>1. Touched
    BY <1>2, <1>5, AgedOne
  <2>2. PICK r : r = InviteRequest("publish", p, i, None, None, 0)
    OBVIOUS
  <2>3. p \in Actor /\ p.org \in DOMAIN orgs /\ i \in Nat
    BY <1>2, PrincipalFacts, LenProperties DEF All, Inv
  <2>4. r \in InviteReq /\ r.op = "publish" /\ r.p = p /\ r.inv = i
    BY <2>2, <2>3 DEF InviteRequest, InviteReq, InviteOps, RoleOrNone
  <2>5. RequestKnows(r) /\ CountsHold(r, r.p.org)
    BY <2>4 DEF RequestKnows, CountsHold
  <2>6. req' = [req EXCEPT ![c] = r]
    BY <1>5, <2>2 DEF Begin, Hold
  <2> QED BY <1>1, <2>1, <2>3, <2>4, <2>5, <2>6, RequestStep DEF SeatReq
<1> QED BY <1>3, <1>4, <1>5 DEF RevokeInvitation, ResendInvitation

LEMMA ExpiryStep ==
  ASSUME All, topic = "seats", UNCHANGED topic, NEW i \in DOMAIN invites, InviteExpires(i)
  PROVE  Kept
<1>1. UNCHANGED <<topic, orgs, members, overlapped, mailVars, overtaken, req>> /\ rcache' \in CacheType
  BY DEF InviteExpires, All, Inv, TypeOK, CacheType, orgVars
<1>2. Touched
  BY InviteTypes, AgedOne DEF InviteExpires, All, MailTyped
<1>3. req' \in [Clients -> SeatReq \cup {None}] /\ \A d \in Clients : req'[d] = req[d]
  BY <1>1, InviteTypes DEF All
<1> QED BY <1>1, <1>2, <1>3, RequestsStep

LEMMA AcceptStep ==
  ASSUME All, topic = "seats", UNCHANGED topic, NEW c \in Clients, NEW u \in Users, NEW t,
         AcceptInvitation(c, u, t)
  PROVE  Kept
<1>1. UNCHANGED <<topic, orgs, members, overlapped, mailVars, overtaken, invites>> /\ rcache' \in CacheType
  BY DEF AcceptInvitation, All, Inv, TypeOK, CacheType, inviteVars, orgVars
<1>2. invites \in Seq(Invite) /\ Touched
  BY <1>1, InviteTypes, NothingTouched DEF All, MailTyped
<1>3. CASE Refuse(c)
  BY <1>1, <1>2, <1>3, DoneStep
<1>4. CASE \E i \in GetInvitationPreview(t) :
             Begin(c, InviteRequest("member", [kind |-> "human", user |-> u, org |-> invites[i].org,
                                              role |-> "out"], i, None, None, 0))
  <2>1. PICK i \in DOMAIN invites :
             Begin(c, InviteRequest("member", [kind |-> "human", user |-> u, org |-> invites[i].org,
                                              role |-> "out"], i, None, None, 0))
    BY <1>4 DEF GetInvitationPreview, GetInvitationByToken
  <2>2. PICK p : p = [kind |-> "human", user |-> u, org |-> invites[i].org, role |-> "out"]
    OBVIOUS
  <2>3. PICK r : r = InviteRequest("member", p, i, None, None, 0)
    OBVIOUS
  <2>4. invites[i].org \in DOMAIN orgs /\ invites[i].org \in OrgIds /\ i \in Nat
    BY <1>2, OrgIdsOfRows, LenProperties DEF All, Inv, InviteFits
  <2>5. p \in Actor /\ p.org = invites[i].org /\ p.user = u
    BY <2>2, <2>4 DEF Actor, ActorKinds
  <2>6. r \in InviteReq /\ r.op = "member" /\ r.p = p /\ r.inv = i
    BY <2>3, <2>4, <2>5 DEF InviteRequest, InviteReq, InviteOps, RoleOrNone
  <2>7. RequestKnows(r) /\ CountsHold(r, r.p.org)
    BY <2>5, <2>6 DEF RequestKnows, CountsHold
  <2>8. req' = [req EXCEPT ![c] = r]
    BY <2>1, <2>2, <2>3 DEF Begin, Hold
  <2> QED BY <1>1, <1>2, <2>4, <2>5, <2>6, <2>7, <2>8, RequestStep DEF SeatReq
<1> QED BY <1>3, <1>4 DEF AcceptInvitation

LEMMA AbortStep ==
  ASSUME All, topic = "seats", UNCHANGED topic, NEW c \in Clients, Abort(c)
  PROVE  Kept
<1>1. UNCHANGED <<topic, orgs, members, overlapped, mailVars, overtaken, invites>> /\ rcache' \in CacheType
  BY DEF Abort, All, Inv, TypeOK, CacheType, inviteVars, orgVars
<1>2. Touched
  BY <1>1, InviteTypes, NothingTouched DEF All, MailTyped
<1> QED BY <1>1, <1>2, DoneStep DEF Abort

LEMMA AcceptedStep ==
  ASSUME All, topic = "seats", UNCHANGED topic, NEW c \in Clients,
         acceptAsMember(c) \/ dropInvitation(c)
  PROVE  Kept
<1>1. UNCHANGED <<topic, orgs, members, overlapped, mailVars, overtaken>> /\ rcache' \in CacheType
  BY DEF acceptAsMember, dropInvitation, All, Inv, TypeOK, CacheType, inviteVars, orgVars
<1>2. req[c] # None /\ req[c].op \in InviteOps
  BY DEF acceptAsMember, dropInvitation, At, InviteOps
<1>3. /\ req \in [Clients -> SeatReq \cup {None}] /\ req[c] \in InviteReq /\ req[c].p.org \in DOMAIN orgs
      /\ RequestKnows(req[c]) /\ invites \in Seq(Invite)
  BY <1>2, RequestFacts
<1>5. CASE dropInvitation(c)
  <2>1. req[c].op = "drop" /\ req[c].inv \in DOMAIN invites
    BY <1>3, <1>5 DEF dropInvitation, At, RequestKnows
  <2>2. Touched
    <3>1. CASE UNCHANGED invites
      BY <1>3, <3>1, NothingTouched
    <3>2. CASE invites' = [invites EXCEPT ![req[c].inv].state = "revoked"]
      BY <1>3, <2>1, <3>2, EndedOne
    <3> QED BY <1>5, <3>1, <3>2 DEF dropInvitation
  <2> QED BY <1>1, <1>5, <2>2, DoneStep DEF dropInvitation
<1>6. CASE acceptAsMember(c)
  <2>1. PICK op \in {"join", "drop"} : Goto(c, op)
    BY <1>6 DEF acceptAsMember
  <2>2. PICK r \in InviteReq :
          /\ req' = [req EXCEPT ![c] = r] /\ r.op = op /\ r.p = req[c].p /\ r.inv = req[c].inv
    BY <1>2, <1>3, <2>1, InviteMoved DEF InviteOps
  <2>3. RequestKnows(r) /\ CountsHold(r, r.p.org)
    BY <1>3, <1>6, <2>1, <2>2 DEF RequestKnows, CountsHold, acceptAsMember, At
  <2>4. Touched
    BY <1>3, <1>6, NothingTouched DEF acceptAsMember, inviteVars
  <2> QED BY <1>1, <1>3, <2>2, <2>3, <2>4, RequestStep DEF SeatReq
<1> QED BY <1>5, <1>6

-----------------------------------------------------------------------------
(* Invitations: a seat is taken, or changes hands *)

\* A request goes on knowing what it knows when invitations keep their org.
LEMMA KnowledgeKept ==
  ASSUME \A j \in DOMAIN invites : j \in DOMAIN invites' /\ invites'[j].org = invites[j].org,
         NEW q, RequestKnows(q)
  PROVE  RequestKnows(q)'
BY DEF RequestKnows

\* What holds of every request.
LEMMA AnyRequest ==
  ASSUME All, topic = "seats", NEW d \in Clients, req[d] # None
  PROVE  /\ req[d].op \in InviteOps => req[d].p.org \in DOMAIN orgs
         /\ RequestKnows(req[d]) /\ req[d].p.org \in OrgIds
         /\ req[d].p.org \notin overtaken => CountsHold(req[d], req[d].p.org)
<1>1. req[d] \in InviteReq \/ req[d] \in AdminReq
  BY InviteTypes DEF All, SeatReq
<1>2. req[d].p \in Actor
  BY <1>1 DEF InviteReq, AdminReq
<1>3. req[d].p.org \in OrgIds
  BY <1>2 DEF Actor
<1> QED BY <1>3 DEF All, Inv, OwnerInv, RequestsFit, InviteFits, SeatInv

LEMMA InsertStep ==
  ASSUME All, topic = "seats", UNCHANGED topic, NEW c \in Clients, insertInvitation(c)
  PROVE  Kept
<1>1. UNCHANGED <<topic, orgs, members, overlapped, mailVars>> /\ rcache' \in CacheType
  BY DEF insertInvitation, All, Inv, TypeOK, CacheType, orgVars
<1>2. /\ req \in [Clients -> SeatReq \cup {None}] /\ req[c] \in InviteReq /\ req[c].p.org \in DOMAIN orgs
      /\ RequestKnows(req[c]) /\ invites \in Seq(Invite) /\ req[c] # None /\ req[c].op = "insert"
      /\ req[c].p.org \notin overtaken => CountsHold(req[c], req[c].p.org)
  BY RequestFacts DEF insertInvitation, At, InviteOps
<1>3. CASE UNCHANGED inviteVars /\ Done(c)
  <2>1. Touched
    BY <1>2, <1>3, NothingTouched DEF inviteVars
  <2> QED BY <1>1, <1>3, <2>1, DoneStep DEF inviteVars
<1>4. CASE /\ invites' = Append(invites, [org |-> req[c].p.org, email |-> req[c].email, role |-> req[c].role,
                                          state |-> "pending", token |-> None, over |-> FALSE])
           /\ Hold(c, [req[c] EXCEPT !.op = "publish", !.inv = Len(invites) + 1])
           /\ Overtake(c, req[c].p.org, "insert")
  <2>1. PICK o, n, v : /\ o = req[c].p.org /\ n = Len(invites)
                       /\ v = [org |-> o, email |-> req[c].email, role |-> req[c].role,
                               state |-> "pending", token |-> None, over |-> FALSE]
    OBVIOUS
  <2>2. o \in DOMAIN orgs /\ o \in OrgIds /\ n \in Nat /\ DOMAIN invites = 1..n
    BY <1>2, <2>1, OrgIdsOfRows, LenProperties DEF All, Inv
  <2>3. v \in Invite /\ v.org = o /\ v.state = "pending" /\ v.token = None
    BY <1>2, <2>1, <2>2 DEF Invite, RequestKnows
  <2> HIDE DEF Invite
  <2>4. invites' = Append(invites, v)
    BY <1>4, <2>1
  <2>5. /\ invites' \in Seq(Invite) /\ Len(invites') = n + 1 /\ invites'[n + 1] = v
        /\ \A j \in 1..n : invites'[j] = invites[j]
    BY <1>2, <2>1, <2>3, <2>4, AppendProperties
  <2>6. DOMAIN invites' = 1..(n + 1) /\ n + 1 \notin 1..n /\ 1..(n + 1) = (1..n) \cup {n + 1}
    BY <2>2, <2>5, LenProperties
  <2>7. PICK r : r = [req[c] EXCEPT !.op = "publish", !.inv = n + 1]
    OBVIOUS
  <2>8. r \in InviteReq /\ r.op = "publish" /\ r.inv = n + 1 /\ r.p = req[c].p
    <3>1. PICK k \in Nat : k = n + 1
      BY <2>2
    <3>2. PICK a : a = [req[c] EXCEPT !.op = "publish"]
      OBVIOUS
    <3>3. a \in InviteReq /\ a.op = "publish" /\ a.p = req[c].p
      BY <1>2, <3>2 DEF InviteReq, InviteOps
    <3>4. r = [a EXCEPT !.inv = k]
      BY <2>7, <3>1, <3>2
    <3> QED BY <3>1, <3>3, <3>4 DEF InviteReq
  <2>9. /\ req' \in [Clients -> SeatReq \cup {None}] /\ req'[c] = r
        /\ \A d \in Clients : d # c => req'[d] = req[d]
    BY <1>2, <1>4, <2>1, <2>7, <2>8 DEF Hold, SeatReq
  <2>10. \A d \in Clients : req[d] # None =>
         /\ req[d].op \in InviteOps => req[d].p.org \in DOMAIN orgs
         /\ RequestKnows(req[d]) /\ req[d].p.org \in OrgIds
         /\ req[d].p.org \notin overtaken => CountsHold(req[d], req[d].p.org)
    BY AnyRequest
  <2>11. MailTyped'
    BY <1>1, <2>5, InviteTypes DEF MailTyped, mailVars, All
  <2>12. Inv'
    BY <1>1, <1>2, <2>8, <2>9, <2>10, <2>11, InviteTypes, InviteStepInv DEF All
  <2>13. InviteFits'
    <3>1. \A d \in Clients : req'[d] # None => RequestKnows(req[d])'
      <4> SUFFICES ASSUME NEW d \in Clients, req'[d] # None PROVE RequestKnows(req[d])'
        OBVIOUS
      <4>1. CASE d = c
        BY <2>6, <2>8, <2>9, <4>1 DEF RequestKnows
      <4>2. CASE d # c
        <5>1. PICK q : q = req[d] /\ q = req'[d] /\ RequestKnows(q)
          BY <2>9, <2>10, <4>2
        <5>2. RequestKnows(q)'
          BY <2>2, <2>5, <2>6, <5>1, KnowledgeKept
        <5> QED BY <5>1, <5>2 DEF RequestKnows
      <4> QED BY <4>1, <4>2
    <3>2. \A i \in DOMAIN invites' : invites'[i].org \in DOMAIN orgs'
      BY <1>1, <2>2, <2>3, <2>5, <2>6 DEF All, InviteFits
    <3>3. \A k \in DOMAIN intents' : intents'[k].kind = "invitation" => intents'[k].inv \in DOMAIN invites'
      BY <1>1, <2>2, <2>6 DEF All, InviteFits, mailVars
    <3>4. \A m \in Mailers : mailer'[m] # None => MailerFits(m)'
      BY <1>1 DEF All, InviteFits, MailerFits, mailVars
    <3> QED BY <1>1, <3>1, <3>2, <3>3, <3>4 DEF InviteFits
  <2>14. \A q : CountMembers(q)' = CountMembers(q) /\ Cap(q)' = Cap(q) /\ Cap(q) \in Nat /\ Used(q) \in Nat
    BY <1>1, <1>2, CapsAreNumbers, CountsAreNumbers DEF CountMembers, MembersOf, GetMembership, Cap, orgPlan
  <2>15. \A q : q # o => Used(q)' = Used(q)
    <3> SUFFICES ASSUME NEW q, q # o PROVE Used(q)' = Used(q)
      OBVIOUS
    <3>1. Pending(q)' = Pending(q)
      BY <2>2, <2>3, <2>5, <2>6 DEF Pending
    <3> QED BY <2>14, <3>1 DEF Used, CountPendingInvitations
  <2>16. Used(o)' = Used(o) + 1
    <3>1. Pending(o)' = Pending(o) \cup {n + 1} /\ n + 1 \notin Pending(o)
      BY <2>2, <2>3, <2>5, <2>6 DEF Pending
    <3>2. CountPendingInvitations(o)' = CountPendingInvitations(o) + 1
      BY <1>2, <3>1, CountsAreNumbers, FS_AddElement DEF CountPendingInvitations
    <3>3. CountMembers(o) \in Nat /\ CountPendingInvitations(o) \in Nat
      BY <1>2, CountsAreNumbers
    <3> QED BY <2>14, <3>2, <3>3 DEF Used
  <2>17. overtaken' = IF \E d \in Clients \ {c} : req[d] # None /\ req[d].op = "insert" /\ req[d].p.org = o
                      THEN overtaken \cup {o} ELSE overtaken
    BY <1>4, <2>1 DEF Overtake, Waits
  <2>20. SeatsTaken
    <3> SUFFICES ASSUME NEW q \in DOMAIN orgs \ overtaken, Used(q)' > Used(q) PROVE Used(q)' <= Cap(q)'
      BY DEF SeatsTaken
    <3>1. q = o
      BY <2>14, <2>15
    <3>2. Used(o) < Cap(o)
      BY <1>2, <2>1, <3>1 DEF CountsHold
    <3> QED BY <2>14, <2>16, <3>1, <3>2
  <2>18. SeatInv'
    <3>2. ASSUME NEW d \in Clients, req'[d] # None, req'[d].p.org \notin overtaken'
          PROVE  CountsHold(req[d], req[d].p.org)'
      <4>1. CASE d = c
        BY <2>8, <2>9, <4>1 DEF CountsHold
      <4>2. CASE d # c
        <5>1. PICK q, x : q = req[d] /\ q = req'[d] /\ x = q.p.org
          BY <2>9, <4>2
        <5>2. CountsHold(q, x) /\ x \notin overtaken'
          BY <2>10, <2>17, <3>2, <5>1
        <5>3. x = o => q.op # "insert"
          BY <2>17, <3>2, <4>2, <5>1, <5>2
        <5>4. CountsHold(q, x)'
          BY <2>14, <2>15, <5>2, <5>3 DEF CountsHold
        <5> QED BY <5>1, <5>4 DEF CountsHold
      <4> QED BY <4>1, <4>2
    <3> QED BY <1>1, <3>2 DEF All, SeatInv
  <2>19. ReachInv'
    <3>1. ASSUME NEW i \in DOMAIN invites', invites'[i].state = "pending", invites'[i].token # None,
                 invites'[i].token \notin mailed'
          PROVE  \E k \in DOMAIN intents' : Carries(k, i)'
      <4>1. i \in DOMAIN invites /\ invites'[i] = invites[i]
        BY <2>2, <2>3, <2>5, <2>6, <3>1
      <4>2. PICK k \in DOMAIN intents : Carries(k, i)
        BY <1>1, <3>1, <4>1 DEF All, ReachInv, StillPending, mailVars
      <4>3. Carries(k, i)'
        BY <1>1, <4>1, <4>2 DEF Carries, Ahead, Holds, Lost, mailVars
      <4> QED BY <1>1, <4>3 DEF mailVars
    <3>2. HeldOnce'
      BY <1>1 DEF All, ReachInv, HeldOnce, Holds, Lost, mailVars
    <3> QED BY <3>1, <3>2 DEF ReachInv, StillPending
  <2> QED BY <2>12, <2>13, <2>18, <2>19, <2>20 DEF All, Kept
<1> QED BY <1>3, <1>4 DEF insertInvitation

\* An acceptance moves a seat from the invitations to the members.
LEMMA JoinStep ==
  ASSUME All, topic = "seats", UNCHANGED topic, NEW c \in Clients, joinOrg(c)
  PROVE  Kept
<1>1. UNCHANGED <<topic, orgs, overlapped, mailVars>> /\ Done(c)
  BY DEF joinOrg
<1>2. /\ req \in [Clients -> SeatReq \cup {None}] /\ req[c] \in InviteReq /\ req[c].p.org \in DOMAIN orgs
      /\ RequestKnows(req[c]) /\ invites \in Seq(Invite) /\ req[c] # None /\ req[c].op = "join"
  BY RequestFacts DEF joinOrg, At, InviteOps
<1>3. PICK i, o, u : i = req[c].inv /\ o = req[c].p.org /\ u = req[c].p.user
  OBVIOUS
<1>4. i \in DOMAIN invites /\ invites[i].org = o /\ u \in Users /\ o \in DOMAIN orgs /\ o \in OrgIds
  BY <1>2, <1>3, OrgIdsOfRows DEF RequestKnows, All, Inv
<1>5. CASE UNCHANGED <<inviteVars, members, rcache>>
  <2>1. rcache' \in CacheType
    BY <1>5, InviteTypes DEF All
  <2>2. Touched
    BY <1>2, <1>5, NothingTouched DEF inviteVars
  <2> QED BY <1>1, <1>5, <2>1, <2>2, DoneStep DEF inviteVars
<1>6. CASE /\ StillPending(i) /\ members[<<o, u>>] = None
           /\ invites' = [invites EXCEPT ![i].state = "accepted"]
           /\ members' = [members EXCEPT ![<<o, u>>] = invites[i].role]
           /\ InvalidateMemberRole(o, u)
           /\ Overtake(c, o, "seats")
  <2>1. Touched
    BY <1>2, <1>4, <1>6, EndedOne
  <2>2. PICK role \in Roles : role = invites[i].role
    <3>1. invites[i] \in Invite
      BY <1>2, <1>4, ElementOfSeq, LenProperties
    <3> QED BY <3>1 DEF Invite
  <2>3. members \in [OrgIds \X Users -> RoleOrNone] /\ <<o, u>> \in OrgIds \X Users
    BY <1>4, InviteTypes DEF All
  <2>4. /\ members' \in [OrgIds \X Users -> RoleOrNone] /\ members'[<<o, u>>] = role
        /\ \A y \in OrgIds \X Users : y # <<o, u>> => members'[y] = members[y]
    BY <1>6, <2>2, <2>3 DEF RoleOrNone
  <2>5. rcache' \in CacheType
    BY <1>6, InviteTypes DEF InvalidateMemberRole, CacheType, RoleOrNone, All
  <2>6. /\ req' \in [Clients -> SeatReq \cup {None}] /\ req'[c] = None
        /\ \A d \in Clients : d # c => req'[d] = req[d]
    BY <1>1, <1>2 DEF Done
  <2>7. \A d \in Clients : req'[d] # None => d # c /\ req'[d] = req[d]
    BY <2>6
  <2>8. \A d \in Clients : req[d] # None =>
         /\ req[d].op \in InviteOps => req[d].p.org \in DOMAIN orgs
         /\ RequestKnows(req[d]) /\ req[d].p.org \in OrgIds
         /\ req[d].p.org \notin overtaken => CountsHold(req[d], req[d].p.org)
    BY AnyRequest
  <2>9. MailTyped'
    BY <1>1, <2>1, InviteTypes DEF MailTyped, mailVars, All, Touched
  <2>10. \A q \in OrgIds, w \in Users : members[<<q, w>>] = "owner" => members'[<<q, w>>] = "owner"
    <3> SUFFICES ASSUME NEW q \in OrgIds, NEW w \in Users, members[<<q, w>>] = "owner"
                 PROVE  members'[<<q, w>>] = "owner"
      OBVIOUS
    <3>1. None # "owner"
      BY MembersAssumption DEF Roles
    <3>2. <<q, w>> # <<o, u>>
      BY <1>6, <3>1
    <3> QED BY <2>4, <3>2
  <2>11. \A q \in OrgIds \ DOMAIN orgs, w \in Users : members'[<<q, w>>] = members[<<q, w>>]
    BY <1>4, <2>4
  <2>12. Inv'
    BY <1>1, <2>4, <2>5, <2>6, <2>7, <2>8, <2>9, <2>10, <2>11, InviteStepInv DEF All
  <2>13. InviteFits'
    <3>1. \A d \in Clients : req'[d] # None => RequestKnows(req[d])'
      <4> SUFFICES ASSUME NEW d \in Clients, req'[d] # None PROVE RequestKnows(req[d])'
        OBVIOUS
      <4>1. PICK q : q = req[d] /\ q = req'[d] /\ RequestKnows(q)
        BY <2>7, <2>8
      <4>2. RequestKnows(q)'
        BY <2>1, <4>1, KnowledgeKept DEF Touched
      <4> QED BY <4>1, <4>2 DEF RequestKnows
    <3>2. \A j \in DOMAIN invites' : invites'[j].org \in DOMAIN orgs'
      BY <1>1, <2>1 DEF All, InviteFits, Touched
    <3>3. \A k \in DOMAIN intents' : intents'[k].kind = "invitation" => intents'[k].inv \in DOMAIN invites'
      BY <1>1, <2>1 DEF All, InviteFits, mailVars, Touched
    <3>4. \A m \in Mailers : mailer'[m] # None => MailerFits(m)'
      BY <1>1 DEF All, InviteFits, MailerFits, mailVars
    <3> QED BY <1>1, <3>1, <3>2, <3>3, <3>4 DEF InviteFits
  <2>14. \A q : Cap(q)' = Cap(q) /\ Cap(q) \in Nat /\ Used(q) \in Nat
    BY <1>1, <1>2, CapsAreNumbers, CountsAreNumbers DEF Cap, orgPlan
  <2>15. \A q \in OrgIds : q # o => CountMembers(q)' = CountMembers(q) /\ Used(q)' = Used(q)
    <3> SUFFICES ASSUME NEW q \in OrgIds, q # o
                 PROVE  CountMembers(q)' = CountMembers(q) /\ Used(q)' = Used(q)
      OBVIOUS
    <3>1. \A j \in DOMAIN invites : j # i => invites'[j] = invites[j]
      BY <1>2, <1>6, LenProperties
    <3>2. Pending(q)' = Pending(q)
      BY <1>4, <2>1, <3>1 DEF Pending, Touched
    <3>3. MembersOf(q)' = MembersOf(q)
      BY <2>4 DEF MembersOf, GetMembership
    <3> QED BY <3>2, <3>3 DEF Used, CountPendingInvitations, CountMembers
  <2>16. Used(o)' = Used(o)
    <3>1. invites'[i].state = "accepted" /\ \A j \in DOMAIN invites : j # i => invites'[j] = invites[j]
      <4>1. invites[i] \in Invite
        BY <1>2, <1>4, ElementOfSeq, LenProperties
      <4> QED BY <1>2, <1>4, <1>6, <4>1, LenProperties DEF Invite
    <3>2. Pending(o)' = Pending(o) \ {i} /\ i \in Pending(o)
      BY <1>4, <1>6, <2>1, <3>1 DEF Pending, Touched, StillPending
    <3>3. CountPendingInvitations(o)' = CountPendingInvitations(o) - 1
      BY <1>2, <3>2, CountsAreNumbers, FS_RemoveElement DEF CountPendingInvitations
    <3>4. role # None
      BY <2>2, MembersAssumption
    <3>5. MembersOf(o)' = MembersOf(o) \cup {u} /\ u \notin MembersOf(o)
      BY <1>4, <1>6, <2>4, <3>4 DEF MembersOf, GetMembership
    <3>6. CountMembers(o)' = CountMembers(o) + 1
      BY <1>2, <3>5, CountsAreNumbers, FS_AddElement DEF CountMembers
    <3>7. CountMembers(o) \in Nat /\ CountPendingInvitations(o) \in Nat
      BY <1>2, CountsAreNumbers
    <3> QED BY <3>3, <3>6, <3>7 DEF Used
  <2>17. overtaken' = IF \E d \in Clients \ {c} : req[d] # None /\ req[d].op = "seats" /\ req[d].p.org = o
                      THEN overtaken \cup {o} ELSE overtaken
    BY <1>6 DEF Overtake, Waits
  <2>20. SeatsTaken
    <3> SUFFICES ASSUME NEW q \in DOMAIN orgs \ overtaken, Used(q)' > Used(q) PROVE FALSE
      BY DEF SeatsTaken
    <3>1. q \in OrgIds
      BY OrgIdsOfRows DEF All, Inv
    <3>2. Used(q)' = Used(q)
      BY <2>15, <2>16, <3>1
    <3> QED BY <2>14, <3>2
  <2>18. SeatInv'
    <3>2. ASSUME NEW d \in Clients, req'[d] # None, req'[d].p.org \notin overtaken'
          PROVE  CountsHold(req[d], req[d].p.org)'
      <4>1. PICK q, x : q = req[d] /\ q = req'[d] /\ x = q.p.org /\ d # c
        BY <2>7, <3>2
      <4>2. CountsHold(q, x) /\ x \notin overtaken' /\ x \in OrgIds
        BY <2>8, <2>17, <3>2, <4>1, OrgIdsOfRows DEF All, Inv
      <4>3. x = o => q.op # "seats"
        BY <2>17, <3>2, <4>1, <4>2
      <4>4. CountsHold(q, x)'
        BY <2>14, <2>15, <2>16, <4>2, <4>3 DEF CountsHold
      <4> QED BY <4>1, <4>4 DEF CountsHold
    <3> QED BY <1>1, <3>2 DEF All, SeatInv
  <2>19. ReachInv'
    <3>1. ASSUME NEW j \in DOMAIN invites', invites'[j].state = "pending", invites'[j].token # None,
                 invites'[j].token \notin mailed'
          PROVE  \E k \in DOMAIN intents' : Carries(k, j)'
      <4>1. PICK k \in DOMAIN intents : Carries(k, j)
        BY <1>1, <2>1, <3>1 DEF All, ReachInv, StillPending, Touched, mailVars
      <4>2. Carries(k, j)'
        BY <1>1, <2>1, <3>1, <4>1 DEF Carries, Ahead, Holds, Lost, Touched, mailVars
      <4> QED BY <1>1, <4>2 DEF mailVars
    <3>2. HeldOnce'
      BY <1>1 DEF All, ReachInv, HeldOnce, Holds, Lost, mailVars
    <3> QED BY <3>1, <3>2 DEF ReachInv, StillPending
  <2> QED BY <2>12, <2>13, <2>18, <2>19, <2>20 DEF All, Kept
<1> QED BY <1>3, <1>5, <1>6 DEF joinOrg, GetMembership

-----------------------------------------------------------------------------
(* Invitations: mail *)

MailFits ==
  /\ \A k \in DOMAIN intents : intents[k].kind = "invitation" => intents[k].inv \in DOMAIN invites
  /\ \A m \in Mailers : mailer[m] # None => MailerFits(m)

\* Mail takes no seat.
LEMMA MailStep ==
  ASSUME All, topic = "seats", UNCHANGED <<topic, orgs, members, rcache, overlapped, overtaken>>,
         MailTyped', MailFits', ReachInv', DOMAIN invites' = DOMAIN invites,
         \A j \in DOMAIN invites : invites'[j].org = invites[j].org /\ invites'[j].state = invites[j].state,
         req' \in [Clients -> SeatReq \cup {None}], \A d \in Clients : req'[d] # None => req'[d] = req[d]
  PROVE  Kept
<1>1. invites \in Seq(Invite) /\ rcache' \in CacheType /\ members' \in [OrgIds \X Users -> RoleOrNone]
  BY InviteTypes DEF All, MailTyped
<1>2. \A d \in Clients : req[d] # None =>
         /\ req[d].op \in InviteOps => req[d].p.org \in DOMAIN orgs
         /\ RequestKnows(req[d])
         /\ req[d].p.org \notin overtaken => CountsHold(req[d], req[d].p.org)
  BY AnyRequest
<1>3. Inv'
  BY <1>1, <1>2, InviteStepInv DEF All
<1>4. InviteFits'
  <2>1. \A d \in Clients : req'[d] # None => RequestKnows(req[d])'
    <3> SUFFICES ASSUME NEW d \in Clients, req'[d] # None PROVE RequestKnows(req[d])'
      OBVIOUS
    <3>1. PICK q : q = req[d] /\ q = req'[d] /\ RequestKnows(q)
      BY <1>2
    <3>2. RequestKnows(q)'
      BY <3>1, KnowledgeKept
    <3> QED BY <3>1, <3>2 DEF RequestKnows
  <2>2. \A j \in DOMAIN invites' : invites'[j].org \in DOMAIN orgs'
    BY DEF All, InviteFits
  <2> QED BY <2>1, <2>2 DEF InviteFits, MailFits
<1>5. \A q : CountMembers(q)' = CountMembers(q) /\ Used(q)' = Used(q) /\ Cap(q)' = Cap(q)
  <2> SUFFICES ASSUME NEW q PROVE CountMembers(q)' = CountMembers(q) /\ Used(q)' = Used(q) /\ Cap(q)' = Cap(q)
    OBVIOUS
  <2>1. Pending(q)' = Pending(q)
    BY DEF Pending
  <2> QED BY <2>1 DEF Used, CountPendingInvitations, CountMembers, MembersOf, GetMembership, Cap, orgPlan
<1>6. SeatInv'
  <2>1. ASSUME NEW d \in Clients, req'[d] # None, req'[d].p.org \notin overtaken'
        PROVE  CountsHold(req[d], req[d].p.org)'
    <3>1. PICK q, x : q = req[d] /\ q = req'[d] /\ x = q.p.org
      BY <2>1
    <3>2. CountsHold(q, x)
      BY <1>2, <2>1, <3>1
    <3>3. CountsHold(q, x)'
      BY <1>5, <3>2 DEF CountsHold
    <3> QED BY <3>1, <3>3 DEF CountsHold
  <2> QED BY <2>1 DEF All, SeatInv
<1>7. SeatsTaken
  <2>1. \A q : Used(q) \in Nat
    BY <1>1, CountsAreNumbers
  <2> QED BY <1>5, <2>1 DEF SeatsTaken
<1> QED BY <1>3, <1>4, <1>6, <1>7 DEF All, Kept

LEMMA PublishStep ==
  ASSUME All, topic = "seats", UNCHANGED topic, NEW c \in Clients, publishInviteEmail(c)
  PROVE  Kept
<1>1. /\ UNCHANGED <<topic, orgs, members, rcache, overlapped, overtaken, invites, bus, acked, minted, mailed, mailer>>
      /\ UNCHANGED <<doubled, dropped>> /\ Done(c)
  BY DEF publishInviteEmail, orgVars, inviteVars
<1>2. /\ req \in [Clients -> SeatReq \cup {None}] /\ req[c] \in InviteReq
      /\ invites \in Seq(Invite) /\ req[c] # None /\ req[c].inv \in DOMAIN invites
  BY RequestFacts DEF publishInviteEmail, At, RequestKnows, InviteOps
<1>3. MailTyped /\ MailFits
  BY InviteTypes DEF All, InviteFits, MailFits
<1>4. CASE UNCHANGED intents
  <2>1. UNCHANGED mailVars /\ Touched /\ rcache' \in CacheType
    BY <1>1, <1>2, <1>4, NothingTouched, InviteTypes DEF mailVars, All
  <2> QED BY <1>1, <2>1, DoneStep
<1>5. CASE intents' = Append(intents, [kind |-> "invitation", inv |-> req[c].inv])
  <2>1. PICK n, v : n = Len(intents) /\ v = [kind |-> "invitation", inv |-> req[c].inv]
    OBVIOUS
  <2>2. v \in Intent /\ v.inv \in DOMAIN invites
    BY <1>2, <2>1, LenProperties DEF Intent
  <2>3. intents \in Seq(Intent) /\ intents' = Append(intents, v)
    BY <1>3, <1>5, <2>1 DEF MailTyped
  <2> HIDE DEF Intent
  <2>4. /\ intents' \in Seq(Intent) /\ Len(intents') = n + 1 /\ intents'[n + 1] = v
        /\ \A j \in 1..n : intents'[j] = intents[j]
    BY <2>1, <2>2, <2>3, AppendProperties
  <2>5. n \in Nat /\ DOMAIN intents = 1..n /\ DOMAIN intents' = (1..n) \cup {n + 1}
    BY <2>1, <2>3, <2>4, LenProperties
  <2>6. MailTyped'
    BY <1>1, <1>3, <2>4 DEF MailTyped
  <2>7. MailFits'
    <3>1. \A m \in Mailers : mailer'[m] # None => MailerFits(m)'
      BY <1>1, <1>3, <2>4, <2>5 DEF MailFits, MailerFits
    <3> QED BY <1>1, <1>3, <2>2, <2>4, <2>5, <3>1 DEF MailFits
  <2>8. ReachInv'
    <3>1. ASSUME NEW i \in DOMAIN invites', invites'[i].state = "pending", invites'[i].token # None,
                 invites'[i].token \notin mailed'
          PROVE  \E k \in DOMAIN intents' : Carries(k, i)'
      <4>1. PICK k \in DOMAIN intents : Carries(k, i)
        BY <1>1, <3>1 DEF All, ReachInv, StillPending
      <4>2. Carries(k, i)'
        BY <1>1, <2>4, <2>5, <4>1 DEF Carries, Ahead, Holds, Lost
      <4> QED BY <2>5, <4>2
    <3>2. \A m \in Mailers : \A k : Holds(m, k)' => Holds(m, k) /\ k \in DOMAIN intents
      BY <1>1, <1>3 DEF Holds, MailFits, MailerFits
    <3>3. HeldOnce'
      BY <1>1, <3>2 DEF All, ReachInv, HeldOnce, Lost
    <3> QED BY <3>1, <3>3 DEF ReachInv, StillPending
  <2>9. req' \in [Clients -> SeatReq \cup {None}] /\ \A d \in Clients : req'[d] # None => req'[d] = req[d]
    BY <1>1, <1>2 DEF Done
  <2> QED BY <1>1, <2>6, <2>7, <2>8, <2>9, MailStep
<1> QED BY <1>4, <1>5 DEF publishInviteEmail

LEMMA MailerMoved ==
  ASSUME MailTyped, NEW m \in Mailers, NEW z \in Mail \cup {None}, mailer' = [mailer EXCEPT ![m] = z]
  PROVE  /\ mailer' \in [Mailers -> Mail \cup {None}] /\ mailer'[m] = z
         /\ \A n \in Mailers : n # m => mailer'[n] = mailer[n]
BY DEF MailTyped

\* A mailer takes a batch, and starts with one of its intents.
LEMMA TakeStep ==
  ASSUME All, topic = "seats", UNCHANGED topic, NEW m \in Mailers, NEW batch \in SUBSET DOMAIN intents,
         EmailRunner(m, batch)
  PROVE  Kept
<1>1. /\ UNCHANGED <<topic, orgs, members, rcache, overlapped, overtaken, invites, bus, acked, minted, mailed>>
      /\ UNCHANGED <<intents, dropped, req>> /\ mailer[m] = None
  BY DEF EmailRunner, orgVars, inviteVars
<1>2. MailTyped /\ MailFits /\ req' \in [Clients -> SeatReq \cup {None}]
  BY <1>1, InviteTypes DEF All, InviteFits, MailFits
<1>3. PICK k \in batch :
        mailer' = [mailer EXCEPT ![m] = [batch |-> batch, rest |-> batch \ {k}, id |-> k, token |-> None]]
  BY DEF EmailRunner, Take
<1>4. PICK z : z = [batch |-> batch, rest |-> batch \ {k}, id |-> k, token |-> None]
  OBVIOUS
<1>5. /\ z \in Mail /\ z.batch = batch /\ z.rest = batch \ {k} /\ z.id = k /\ z.token = None
      /\ mailer' = [mailer EXCEPT ![m] = z]
  <2>1. DOMAIN intents \subseteq Nat
    BY <1>2, LenProperties DEF MailTyped
  <2>2. z \in Mail /\ z.batch = batch /\ z.rest = batch \ {k} /\ z.id = k /\ z.token = None
    BY <1>4, <2>1 DEF Mail
  <2> QED BY <1>3, <1>4, <2>2
<1> HIDE DEF Mail
<1>6. /\ mailer' \in [Mailers -> Mail \cup {None}] /\ mailer'[m] = z
      /\ \A n \in Mailers : n # m => mailer'[n] = mailer[n]
  BY <1>2, <1>5, MailerMoved
<1>7. MailTyped'
  BY <1>1, <1>2, <1>6 DEF MailTyped
<1>8. MailFits'
  <2>1. MailerFits(m)'
    BY <1>1, <1>5, <1>6 DEF MailerFits
  <2>2. \A n \in Mailers : n # m /\ mailer'[n] # None => MailerFits(n)'
    BY <1>1, <1>2, <1>6 DEF MailFits, MailerFits
  <2> QED BY <1>1, <1>2, <2>1, <2>2 DEF MailFits
<1>9. doubled' = doubled \cup {x \in batch : \E n \in Mailers : Holds(n, x)} /\ batch \cap acked = {}
  BY DEF EmailRunner
<1>10. \A x : ~ Holds(m, x) /\ (Holds(m, x)' => x \in batch)
  BY <1>1, <1>5, <1>6 DEF Holds
<1>11. \A n \in Mailers : n # m => \A x : Holds(n, x)' <=> Holds(n, x)
  BY <1>6 DEF Holds
<1>12. ReachInv'
  <2>1. ASSUME NEW i \in DOMAIN invites', invites'[i].state = "pending", invites'[i].token # None,
               invites'[i].token \notin mailed'
        PROVE  \E x \in DOMAIN intents' : Carries(x, i)'
    <3>1. PICK x \in DOMAIN intents : Carries(x, i)
      BY <1>1, <2>1 DEF All, ReachInv, StillPending
    <3>2. CASE x \in Lost
      BY <1>1, <1>9, <3>1, <3>2 DEF Carries, Lost
    <3>3. CASE x \notin Lost
      <4>1. x \notin acked /\ \A n \in Mailers : Ahead(n, x, invites[i].token)
        BY <3>1, <3>3 DEF Carries
      <4>2. Ahead(m, x, invites[i].token)'
        BY <1>5, <1>6, <1>10 DEF Ahead
      <4>3. \A n \in Mailers : n # m => Ahead(n, x, invites[i].token)'
        BY <1>1, <1>6, <1>11, <4>1 DEF Ahead
      <4> QED BY <1>1, <3>1, <4>1, <4>2, <4>3 DEF Carries
    <3> QED BY <1>1, <3>2, <3>3
  <2>2. \A x, y \in Mailers, j \in DOMAIN intents' : x # y /\ Holds(x, j)' /\ Holds(y, j)' => j \in doubled'
    BY <1>1, <1>9, <1>10, <1>11 DEF All, ReachInv, HeldOnce
  <2>3. \A x \in Mailers, j \in DOMAIN intents' : Holds(x, j)' => j \notin acked' \/ j \in doubled'
    BY <1>1, <1>9, <1>10, <1>11 DEF All, ReachInv, HeldOnce
  <2>4. bus' = "redis" => Lost' = {}
    <3>1. bus = "redis" => \A n \in Mailers : \A x : ~ Holds(n, x)
      BY DEF EmailRunner, Holds
    <3> QED BY <1>1, <1>9, <3>1 DEF All, ReachInv, HeldOnce, Lost
  <2>5. HeldOnce'
    BY <2>2, <2>3, <2>4 DEF HeldOnce
  <2> QED BY <2>1, <2>5 DEF ReachInv, StillPending
<1> QED BY <1>1, <1>2, <1>7, <1>8, <1>12, MailStep

\* What a mailer leaves that is done with an intent: it goes on with the rest of
\* its batch, or has none.
GivesUp(m) == Free(m) /\ UNCHANGED <<acked, dropped>>
LeavesAll(m) ==
  /\ mailer' = [mailer EXCEPT ![m] = None]
  /\ \/ UNCHANGED <<acked, dropped>>
     \/ acked' = acked \cup mailer[m].batch /\ mailer[m].rest = {} /\ dropped' = dropped
     \/ /\ acked' = acked \cup mailer[m].batch /\ bus # "redis"
        /\ dropped' = dropped \cup mailer[m].rest \cup {mailer[m].id}

LEMMA HandedOn ==
  ASSUME All, topic = "seats", NEW m \in Mailers, mailer[m] # None,
         Handled(m) \/ HandlerErr(m) \/ GivesUp(m), UNCHANGED <<bus, intents, doubled>>
  PROVE  /\ mailer' \in [Mailers -> Mail \cup {None}] /\ acked' \subseteq Nat
         /\ \A n \in Mailers : mailer'[n] # None => MailerFits(n)'
         /\ HeldOnce'
         /\ \A k \in DOMAIN intents : \A i :
              /\ Carries(k, i) /\ (k \in Lost \/ k # mailer[m].id)
              /\ invites'[i].token = invites[i].token
              => Carries(k, i)'
<1>1. MailTyped /\ MailerFits(m) /\ \A n \in Mailers : mailer[n] # None => MailerFits(n)
  BY InviteTypes DEF All, InviteFits
<1>2. PICK bt, rs, id : bt = mailer[m].batch /\ rs = mailer[m].rest /\ id = mailer[m].id
  OBVIOUS
<1>3. bt \subseteq DOMAIN intents /\ rs \subseteq bt /\ id \in bt /\ id \notin rs
  BY <1>1, <1>2 DEF MailerFits
<1>4. DOMAIN intents \subseteq Nat
  BY <1>1, LenProperties DEF MailTyped
<1>5. \A x : Holds(m, x) <=> x \in bt
  BY <1>2 DEF Holds
<1>6. CASE LeavesAll(m)
  <2>1. /\ mailer' \in [Mailers -> Mail \cup {None}] /\ mailer'[m] = None
        /\ \A n \in Mailers : n # m => mailer'[n] = mailer[n]
    BY <1>1, <1>6, MailerMoved DEF LeavesAll
  <2>2. \A n \in Mailers : \A x : Holds(n, x)' => n # m /\ Holds(n, x)
    BY <2>1 DEF Holds
  <2>3. \A n \in Mailers : mailer'[n] # None => MailerFits(n)'
    BY <1>1, <2>1 DEF MailerFits
  <2>4. acked \subseteq acked' /\ acked' \subseteq acked \cup bt /\ Lost \subseteq Lost'
    BY <1>2, <1>6 DEF LeavesAll, Lost
  <2>5. acked' \subseteq Nat
    BY <1>1, <1>3, <1>4, <2>4 DEF MailTyped
  <2>6. HeldOnce'
    <3>1. \A x, y \in Mailers, j \in DOMAIN intents' : x # y /\ Holds(x, j)' /\ Holds(y, j)' => j \in doubled'
      BY <2>2 DEF All, ReachInv, HeldOnce
    <3>2. \A x \in Mailers, j \in DOMAIN intents' : Holds(x, j)' => j \notin acked' \/ j \in doubled'
      BY <1>5, <2>2, <2>4 DEF All, ReachInv, HeldOnce
    <3>3. bus' = "redis" => Lost' = {}
      BY <1>6 DEF All, ReachInv, HeldOnce, Lost, LeavesAll
    <3> QED BY <3>1, <3>2, <3>3 DEF HeldOnce
  <2>7. ASSUME NEW k \in DOMAIN intents, NEW i, Carries(k, i), k \in Lost \/ k # id,
               invites'[i].token = invites[i].token
        PROVE  Carries(k, i)'
    <3>1. intents'[k].kind = "invitation" /\ intents'[k].inv = i
      BY <2>7 DEF Carries
    <3>2. CASE k \in Lost
      BY <2>4, <3>1, <3>2 DEF Carries
    <3>3. CASE k \notin Lost
      <4>1. k \notin acked /\ (\A n \in Mailers : Ahead(n, k, invites[i].token)) /\ k # id
        BY <2>7, <3>3 DEF Carries
      <4>2. k \in bt => k \in rs
        BY <1>2, <1>5, <4>1 DEF Ahead
      <4>3. k \in acked' => k \in Lost'
        BY <1>2, <1>6, <4>1, <4>2 DEF LeavesAll, Lost
      <4>4. \A n \in Mailers : Ahead(n, k, invites[i].token)'
        BY <2>1, <2>2, <2>7, <4>1 DEF Ahead
      <4> QED BY <3>1, <4>3, <4>4 DEF Carries
    <3> QED BY <3>2, <3>3
  <2> QED BY <1>2, <2>1, <2>3, <2>5, <2>6, <2>7
<1>7. ASSUME NEW x \in rs, UNCHANGED <<acked, dropped>>,
             mailer' = [mailer EXCEPT ![m] = [batch |-> bt, rest |-> rs \ {x}, id |-> x, token |-> None]]
      PROVE  /\ mailer' \in [Mailers -> Mail \cup {None}] /\ acked' \subseteq Nat
             /\ \A n \in Mailers : mailer'[n] # None => MailerFits(n)'
             /\ HeldOnce'
             /\ \A k \in DOMAIN intents : \A i :
                  /\ Carries(k, i) /\ (k \in Lost \/ k # id)
                  /\ invites'[i].token = invites[i].token
                  => Carries(k, i)'
  <2>1. PICK z : z = [batch |-> bt, rest |-> rs \ {x}, id |-> x, token |-> None]
    OBVIOUS
  <2>2. z \in Mail /\ z.batch = bt /\ z.rest = rs \ {x} /\ z.id = x /\ z.token = None
    BY <1>3, <1>4, <2>1 DEF Mail
  <2> HIDE DEF Mail
  <2>3. /\ mailer' \in [Mailers -> Mail \cup {None}] /\ mailer'[m] = z
        /\ \A n \in Mailers : n # m => mailer'[n] = mailer[n]
    BY <1>1, <1>7, <2>1, <2>2, MailerMoved
  <2>4. \A n \in Mailers : \A y : Holds(n, y)' => Holds(n, y)
    BY <1>5, <2>2, <2>3 DEF Holds
  <2>5. \A n \in Mailers : mailer'[n] # None => MailerFits(n)'
    <3>1. MailerFits(m)'
      BY <1>3, <2>2, <2>3 DEF MailerFits
    <3>2. \A n \in Mailers : n # m /\ mailer'[n] # None => MailerFits(n)'
      BY <1>1, <2>3 DEF MailerFits
    <3> QED BY <3>1, <3>2
  <2>6. HeldOnce'
    BY <1>7, <2>4 DEF All, ReachInv, HeldOnce, Lost
  <2>7. ASSUME NEW k \in DOMAIN intents, NEW i, Carries(k, i), k \in Lost \/ k # id,
               invites'[i].token = invites[i].token
        PROVE  Carries(k, i)'
    <3>1. intents'[k].kind = "invitation" /\ intents'[k].inv = i /\ Lost' = Lost
      BY <1>7, <2>7 DEF Carries, Lost
    <3>2. CASE k \in Lost
      BY <3>1, <3>2 DEF Carries
    <3>3. CASE k \notin Lost
      <4>1. k \notin acked /\ (\A n \in Mailers : Ahead(n, k, invites[i].token)) /\ k # id
        BY <2>7, <3>3 DEF Carries
      <4>2. k \in bt => k \in rs
        BY <1>2, <1>5, <4>1 DEF Ahead
      <4>3. Ahead(m, k, invites[i].token)'
        <5>1. Holds(m, k)' => k \in rs
          BY <2>2, <2>3, <4>2 DEF Holds
        <5> QED BY <2>2, <2>3, <5>1 DEF Ahead
      <4>4. \A n \in Mailers : n # m => Ahead(n, k, invites[i].token)'
        BY <2>3, <2>4, <2>7, <4>1 DEF Ahead
      <4> QED BY <1>7, <3>1, <4>1, <4>3, <4>4 DEF Carries
    <3> QED BY <3>2, <3>3
  <2> QED BY <1>1, <1>7, <2>3, <2>5, <2>6, <2>7 DEF MailTyped
<1>8. LeavesAll(m) \/ \E x \in rs :
        /\ UNCHANGED <<acked, dropped>>
        /\ mailer' = [mailer EXCEPT ![m] = [batch |-> bt, rest |-> rs \ {x}, id |-> x, token |-> None]]
  BY <1>2 DEF LeavesAll, Handled, HandlerErr, GivesUp, Free, Take
<1> QED BY <1>2, <1>6, <1>7, <1>8

\* An error leaves the intent to be delivered again, or lost for all to see.
LEMMA GivenUp ==
  ASSUME All, topic = "seats", NEW m \in Mailers, mailer[m] # None,
         HandlerErr(m) \/ GivesUp(m), UNCHANGED <<bus, intents, doubled>>,
         NEW k, NEW i, k = mailer[m].id, intents[k].kind = "invitation", intents[k].inv = i
  PROVE  Carries(k, i)'
<1>2. MailTyped /\ k \in DOMAIN intents /\ Holds(m, k)
  BY InviteTypes DEF All, InviteFits, MailerFits, Holds
<1>3. mailer' = [mailer EXCEPT ![m] = None]
  BY DEF HandlerErr, GivesUp, Free
<1>4. mailer'[m] = None /\ \A n \in Mailers : n # m => mailer'[n] = mailer[n]
  BY <1>2, <1>3, MailerMoved
<1>5. k \in Lost' \/ (acked' = acked /\ dropped' = dropped)
  BY DEF HandlerErr, GivesUp, Lost
<1>6. CASE k \in Lost'
  BY <1>6 DEF Carries
<1>7. CASE k \notin Lost' /\ acked' = acked /\ dropped' = dropped
  <2>1. k \notin doubled /\ k \notin acked
    BY <1>2, <1>7 DEF Lost, All, ReachInv, HeldOnce
  <2>2. \A n \in Mailers : ~ Holds(n, k)'
    BY <1>2, <1>4, <2>1 DEF Holds, All, ReachInv, HeldOnce
  <2> QED BY <1>7, <2>1, <2>2 DEF Carries, Ahead
<1> QED BY <1>5, <1>6, <1>7

\* A mailer is done with an intent.  An invitation's is handled only when the
\* token it made was sent, or nobody waits for one.
LEMMA SettleStep ==
  ASSUME All, topic = "seats", NEW m \in Mailers, mailer[m] # None,
         UNCHANGED <<topic, orgs, members, rcache, overlapped, overtaken, invites, req, minted, doubled>>,
         UNCHANGED <<bus, intents>>, mailed \subseteq mailed', mailed' \subseteq Nat,
         \/ HandlerErr(m) \/ GivesUp(m)
         \/ /\ Handled(m)
            /\ intents[mailer[m].id].kind = "invitation" =>
                 \/ mailer[m].token # None /\ mailer[m].token \in mailed'
                 \/ ~ StillPending(intents[mailer[m].id].inv)
  PROVE  Kept
<1>1. MailTyped /\ MailFits /\ req' \in [Clients -> SeatReq \cup {None}]
  BY InviteTypes DEF All, InviteFits, MailFits
<1>2. PICK id, t : id = mailer[m].id /\ t = mailer[m].token
  OBVIOUS
<1>3. id \in DOMAIN intents /\ Holds(m, id) /\ id \notin mailer[m].rest
  BY <1>1, <1>2 DEF MailFits, MailerFits, Holds
<1>4. /\ mailer' \in [Mailers -> Mail \cup {None}] /\ acked' \subseteq Nat
      /\ \A n \in Mailers : mailer'[n] # None => MailerFits(n)'
      /\ HeldOnce'
  BY HandedOn
<1>5. \A k \in DOMAIN intents : \A i : Carries(k, i) /\ (k \in Lost \/ k # id) => Carries(k, i)'
  BY <1>2, HandedOn
<1>6. MailTyped'
  BY <1>1, <1>4 DEF MailTyped
<1>7. MailFits'
  BY <1>1, <1>4 DEF MailFits
<1>8. ASSUME NEW i \in DOMAIN invites', invites'[i].state = "pending", invites'[i].token # None,
             invites'[i].token \notin mailed'
      PROVE  \E w \in DOMAIN intents' : Carries(w, i)'
  <2>1. PICK w \in DOMAIN intents : Carries(w, i)
    BY <1>8 DEF All, ReachInv, StillPending
  <2>2. CASE w \in Lost \/ w # id
    BY <1>5, <2>1, <2>2
  <2>3. CASE w = id /\ w \notin Lost
    <3>1. intents[id].kind = "invitation" /\ intents[id].inv = i /\ StillPending(i)
      BY <1>8, <2>1, <2>3 DEF Carries, StillPending
    <3>2. CASE HandlerErr(m) \/ GivesUp(m)
      <4>1. Carries(id, i)'
        BY <1>2, <3>1, <3>2, GivenUp
      <4> QED BY <1>2, <1>3, <4>1
    <3>3. CASE t # None /\ t \in mailed'
      <4>1. t = invites[i].token
        BY <1>2, <1>3, <2>1, <2>3, <3>3 DEF Carries, Ahead
      <4> QED BY <1>8, <3>3, <4>1
    <3> QED BY <1>2, <3>1, <3>2, <3>3
  <2> QED BY <2>2, <2>3
<1>9. ReachInv'
  BY <1>4, <1>8 DEF ReachInv, StillPending
<1> QED BY <1>1, <1>6, <1>7, <1>9, MailStep

LEMMA SendStep ==
  ASSUME All, topic = "seats", UNCHANGED topic, NEW m \in Mailers,
         sendInvitation(m) \/ sendOther(m) \/ MailerDies(m)
  PROVE  Kept
<1>1. mailer[m] # None
  BY DEF sendInvitation, sendOther, MailerDies, Handles
<1>2. /\ UNCHANGED <<topic, orgs, members, rcache, overlapped, overtaken, invites, req, minted, doubled>>
      /\ UNCHANGED <<bus, intents>>
  BY DEF sendInvitation, sendOther, MailerDies, orgVars, inviteVars
<1>3. mailed \subseteq Nat /\ mailer[m] \in Mail
  BY <1>1, InviteTypes DEF All, MailTyped
<1>4. CASE sendInvitation(m)
  <2>1. mailer[m].token # None /\ mailer[m].token \in Nat
    BY <1>3, <1>4 DEF sendInvitation, Mail
  <2>2. CASE UNCHANGED mailed /\ HandlerErr(m)
    BY <1>1, <1>2, <1>3, <2>2, SettleStep
  <2>3. CASE mailed' = mailed \cup {mailer[m].token} /\ (Handled(m) \/ HandlerErr(m))
    <3>1. mailed \subseteq mailed' /\ mailed' \subseteq Nat /\ mailer[m].token \in mailed'
      BY <1>3, <2>1, <2>3
    <3> QED BY <1>1, <1>2, <2>1, <2>3, <3>1, SettleStep
  <2> QED BY <1>4, <2>2, <2>3 DEF sendInvitation
<1>5. CASE sendOther(m)
  <2>1. mailed' = mailed /\ (Handled(m) \/ HandlerErr(m))
    BY <1>5 DEF sendOther
  <2>2. intents[mailer[m].id].kind # "invitation"
    BY <1>5, MembersAssumption DEF sendOther, Handles
  <2> QED BY <1>1, <1>2, <1>3, <2>1, <2>2, SettleStep
<1>6. CASE MailerDies(m)
  BY <1>1, <1>2, <1>3, <1>6, SettleStep DEF MailerDies, GivesUp
<1> QED BY <1>4, <1>5, <1>6

\* A new token is carried by the intent it is made for.
LEMMA TokenStep ==
  ASSUME All, topic = "seats", UNCHANGED topic, NEW m \in Mailers, setInvitationToken(m)
  PROVE  Kept
<1>1. UNCHANGED <<topic, orgs, members, rcache, overlapped, overtaken, req, mailed, doubled, bus, intents>>
  BY DEF setInvitationToken, orgVars
<1>2. MailTyped /\ MailFits /\ req' \in [Clients -> SeatReq \cup {None}] /\ invites \in Seq(Invite)
  BY <1>1, InviteTypes DEF All, InviteFits, MailFits, MailTyped
<1>3. PICK k, i : k = mailer[m].id /\ i = intents[k].inv
  OBVIOUS
<1>4. /\ mailer[m] # None /\ k \in DOMAIN intents /\ intents[k].kind = "invitation" /\ i \in DOMAIN invites
      /\ mailer[m] \in Mail /\ MailerFits(m) /\ Holds(m, k) /\ k \notin mailer[m].rest
  BY <1>2, <1>3 DEF setInvitationToken, Handles, MailFits, MailerFits, MailTyped, Holds
<1>5. CASE UNCHANGED <<minted, invites>> /\ (HandlerErr(m) \/ (Handled(m) /\ ~ StillPending(i)))
  BY <1>1, <1>2, <1>3, <1>4, <1>5, SettleStep DEF MailTyped
<1>6. CASE StillPending(i) /\ SetToken(i)
  <2>1. PICK t : t = minted + 1
    OBVIOUS
  <2>2. minted' = t /\ invites' = [invites EXCEPT ![i].token = t] /\ t \in Nat
    BY <1>2, <1>6, <2>1 DEF SetToken, MailTyped
  <2>3. PICK v : v = [invites[i] EXCEPT !.token = t]
    OBVIOUS
  <2>4. v \in Invite /\ v.org = invites[i].org /\ v.state = invites[i].state /\ v.token = t
    <3>1. invites[i] \in Invite
      BY <1>2, <1>4, ElementOfSeq, LenProperties
    <3> QED BY <2>2, <2>3, <3>1 DEF Invite
  <2>5. invites' = [invites EXCEPT ![i] = v]
    BY <2>2, <2>3
  <2>6. i \in 1..Len(invites) /\ DOMAIN invites = 1..Len(invites)
    BY <1>2, <1>4, LenProperties
  <2> HIDE DEF Invite
  <2>7. /\ invites' \in Seq(Invite) /\ Len(invites') = Len(invites)
        /\ \A j \in 1..Len(invites) : invites'[j] = IF j = i THEN v ELSE invites[j]
    BY <1>2, <2>4, <2>5, <2>6, ExceptSeq
  <2>8. /\ DOMAIN invites' = DOMAIN invites /\ invites'[i].token = t
        /\ \A j \in DOMAIN invites : /\ invites'[j].org = invites[j].org /\ invites'[j].state = invites[j].state
                                     /\ j # i => invites'[j] = invites[j]
    BY <2>4, <2>6, <2>7, LenProperties
  <2>9. /\ mailer' \in [Mailers -> Mail \cup {None}] /\ acked' \subseteq Nat
        /\ \A n \in Mailers : mailer'[n] # None => MailerFits(n)'
        /\ HeldOnce' /\ Carries(k, i)'
        /\ \A w \in DOMAIN intents, j \in DOMAIN invites : Carries(w, j) /\ j # i => Carries(w, j)'
    <3>1. CASE HandlerErr(m)
      <4>3. Carries(k, i)'
        BY <1>1, <1>3, <1>4, <3>1, GivenUp
      <4>4. ASSUME NEW w \in DOMAIN intents, NEW j \in DOMAIN invites, Carries(w, j), j # i PROVE Carries(w, j)'
        <5>1. w # k
          BY <1>3, <4>4 DEF Carries
        <5>2. invites'[j].token = invites[j].token
          BY <2>8, <4>4
        <5> QED BY <1>1, <1>3, <1>4, <3>1, <4>4, <5>1, <5>2, HandedOn
      <4> QED BY <1>1, <1>4, <3>1, <4>3, <4>4, HandedOn
    <3>2. CASE mailer' = [mailer EXCEPT ![m].token = t] /\ UNCHANGED <<acked, dropped>>
      <4>1. PICK z : z = [mailer[m] EXCEPT !.token = t]
        OBVIOUS
      <4>2. /\ z \in Mail /\ z.id = k /\ z.token = t
            /\ z.batch = mailer[m].batch /\ z.rest = mailer[m].rest
        BY <1>3, <1>4, <2>2, <4>1 DEF Mail
      <4>3. mailer' = [mailer EXCEPT ![m] = z]
        BY <3>2, <4>1
      <4> HIDE DEF Mail
      <4>4. /\ mailer' \in [Mailers -> Mail \cup {None}] /\ mailer'[m] = z
            /\ \A n \in Mailers : n # m => mailer'[n] = mailer[n]
        BY <1>2, <4>2, <4>3, MailerMoved
      <4>5. \A n \in Mailers : \A x : Holds(n, x)' => Holds(n, x)
        BY <1>4, <4>2, <4>4 DEF Holds
      <4>6. \A n \in Mailers : mailer'[n] # None => MailerFits(n)'
        <5>1. MailerFits(m)'
          BY <1>1, <1>3, <1>4, <4>2, <4>4 DEF MailerFits
        <5>2. \A n \in Mailers : n # m /\ mailer'[n] # None => MailerFits(n)'
          BY <1>1, <1>2, <4>4 DEF MailFits, MailerFits
        <5> QED BY <5>1, <5>2
      <4>7. HeldOnce'
        BY <1>1, <3>2, <4>5 DEF All, ReachInv, HeldOnce, Lost
      <4>8. Carries(k, i)'
        <5>1. k \in doubled \/ k \notin acked
          BY <1>4 DEF All, ReachInv, HeldOnce
        <5>2. k \in doubled \/ \A n \in Mailers : n # m => ~ Holds(n, k)'
          BY <1>4, <4>5 DEF All, ReachInv, HeldOnce
        <5>3. Ahead(m, k, invites[i].token)'
          BY <2>8, <4>2, <4>4 DEF Ahead
        <5>4. k \in doubled \/ \A n \in Mailers : Ahead(n, k, invites[i].token)'
          BY <5>2, <5>3 DEF Ahead
        <5> QED BY <1>1, <1>3, <1>4, <3>2, <5>1, <5>4 DEF Carries, Lost
      <4>9. ASSUME NEW w \in DOMAIN intents, NEW j \in DOMAIN invites, Carries(w, j), j # i PROVE Carries(w, j)'
        <5>1. w # k
          BY <1>3, <4>9 DEF Carries
        <5>2. \A n \in Mailers : Ahead(n, w, invites[j].token) => Ahead(n, w, invites[j].token)'
          <6> SUFFICES ASSUME NEW n \in Mailers, Ahead(n, w, invites[j].token)
                       PROVE  Ahead(n, w, invites[j].token)'
            OBVIOUS
          <6>1. invites'[j].token = invites[j].token
            BY <2>8, <4>9
          <6>2. CASE n = m
            BY <1>3, <4>2, <4>4, <4>5, <5>1, <6>1, <6>2 DEF Ahead
          <6>3. CASE n # m
            BY <4>4, <4>5, <6>1, <6>3 DEF Ahead
          <6> QED BY <6>2, <6>3
        <5> QED BY <1>1, <3>2, <4>9, <5>2 DEF Carries, Lost
      <4> QED BY <1>2, <3>2, <4>4, <4>6, <4>7, <4>8, <4>9 DEF MailTyped
    <3> QED BY <1>3, <1>6, <2>1, <3>1, <3>2, <1>4, <2>2 DEF setInvitationToken, StillPending
  <2>10. MailTyped'
    BY <1>1, <1>2, <2>2, <2>7, <2>9 DEF MailTyped
  <2>11. MailFits'
    BY <1>1, <1>2, <2>8, <2>9 DEF MailFits
  <2>12. ReachInv'
    <3>1. ASSUME NEW j \in DOMAIN invites', invites'[j].state = "pending", invites'[j].token # None,
                 invites'[j].token \notin mailed'
          PROVE  \E w \in DOMAIN intents' : Carries(w, j)'
      <4>1. CASE j = i
        BY <1>1, <1>4, <2>9, <4>1
      <4>2. CASE j # i
        <5>1. PICK w \in DOMAIN intents : Carries(w, j)
          BY <1>1, <2>8, <3>1, <4>2 DEF All, ReachInv, StillPending
        <5>2. Carries(w, j)'
          BY <2>8, <2>9, <3>1, <4>2, <5>1
        <5> QED BY <1>1, <5>2
      <4> QED BY <4>1, <4>2
    <3> QED BY <2>9, <3>1 DEF ReachInv, StillPending
  <2>13. \A d \in Clients : req'[d] # None => req'[d] = req[d]
    BY <1>1
  <2>14. \A j \in DOMAIN invites : invites'[j].org = invites[j].org /\ invites'[j].state = invites[j].state
    BY <2>8
  <2> QED BY <1>1, <1>2, <2>8, <2>10, <2>11, <2>12, <2>13, <2>14, MailStep
<1> QED BY <1>3, <1>5, <1>6 DEF setInvitationToken

LEMMA InvitesStep ==
  ASSUME All, topic = "seats", UNCHANGED topic, InviteNext
  PROVE  Kept
<1>1. ASSUME NEW c \in Clients,
             \/ \E p \in Principals, e \in InviteEmails, r \in {"viewer", "owner"} : CreateInvitation(c, p, e, r)
             \/ \E p \in Principals, i \in DOMAIN invites : RevokeInvitation(c, p, i) \/ ResendInvitation(c, p, i)
             \/ \E u \in Users, t \in mailed : AcceptInvitation(c, u, t)
      PROVE  Kept
  BY <1>1, CreateInvitationStep, ManageStep, AcceptStep
<1>2. ASSUME NEW c \in Clients,
             \/ seatGate(c) \/ insertInvitation(c) \/ publishInviteEmail(c)
             \/ acceptAsMember(c) \/ dropInvitation(c) \/ joinOrg(c) \/ Abort(c)
      PROVE  Kept
  BY <1>2, SeatGateStep, InsertStep, PublishStep, AcceptedStep, JoinStep, AbortStep
<1>3. ASSUME NEW m \in Mailers,
             \/ \E batch \in SUBSET DOMAIN intents : EmailRunner(m, batch)
             \/ setInvitationToken(m) \/ sendInvitation(m) \/ sendOther(m) \/ MailerDies(m)
      PROVE  Kept
  BY <1>3, TakeStep, TokenStep, SendStep
<1>4. ASSUME NEW i \in DOMAIN invites, InviteExpires(i) PROVE Kept
  BY <1>4, ExpiryStep
<1> QED BY <1>1, <1>2, <1>3, <1>4 DEF InviteNext

-----------------------------------------------------------------------------
(* Roles, where nobody is invited, and billing, which changes plans           *)

LEMMA RoleEffects ==
  ASSUME RoleNext
  PROVE  /\ UNCHANGED <<mailVars, inviteVars>>
         /\ \/ UNCHANGED <<orgs, members>>
            \/ \E c \in Clients : commitRole(c)
            \/ \E c \in Clients, w \in Users, s \in Slugs \cup {None} : CreateOrg(c, w, s)
<1> DEFINE Quiet == UNCHANGED <<mailVars, inviteVars>> /\ UNCHANGED <<orgs, members>>
<1>1. ASSUME NEW c \in Clients, NEW p \in Principals, NEW u \in Users, NEW new \in Roles, ChangeMemberRole(c, p, u, new)
      PROVE  Quiet
  BY <1>1 DEF ChangeMemberRole
<1>2. ASSUME NEW c \in Clients, NEW p \in Principals, NEW u \in Users, RemoveMember(c, p, u) PROVE Quiet
  BY <1>2 DEF RemoveMember
<1>3. ASSUME NEW c \in Clients, NEW p \in Principals, NEW u \in Users, NEW down \in BOOLEAN,
             TransferOwnership(c, p, u, down)
      PROVE  Quiet
  BY <1>3 DEF TransferOwnership
<1>4. ASSUME NEW c \in Clients, NEW p \in Principals, LeaveOrg(c, p) PROVE Quiet
  BY <1>4 DEF LeaveOrg
<1>5. ASSUME NEW c \in Clients, authorizeRole(c) \/ UpdateMemberRole(c) \/ afterRole(c) \/ Abort(c) PROVE Quiet
  BY <1>5 DEF authorizeRole, UpdateMemberRole, afterRole, Abort, orgVars
<1>6. ASSUME NEW o \in OrgIds, NEW u \in Users, RoleExpires(o, u) PROVE Quiet
  BY <1>6 DEF RoleExpires
<1>7. ASSUME NEW c \in Clients, commitRole(c) PROVE UNCHANGED <<mailVars, inviteVars>>
  BY <1>7 DEF commitRole
<1>8. ASSUME NEW c \in Clients, NEW w \in Users, NEW s \in Slugs \cup {None}, CreateOrg(c, w, s)
      PROVE  UNCHANGED <<mailVars, inviteVars>>
  BY <1>8 DEF CreateOrg
<1> HIDE DEF Quiet
<1>9. Quiet \/ (\E c \in Clients : commitRole(c))
        \/ \E c \in Clients, w \in Users, s \in Slugs \cup {None} : CreateOrg(c, w, s)
  BY <1>1, <1>2, <1>3, <1>4, <1>5, <1>6 DEF RoleNext
<1> QED BY <1>7, <1>8, <1>9 DEF Quiet

LEMMA RolesSeats ==
  ASSUME All, topic = "roles", UNCHANGED topic, RoleNext, Inv'
  PROVE  Kept
<1>1. UNCHANGED <<mailVars, inviteVars>>
  BY RoleEffects
<1>2. invites = << >> /\ invites' = << >> /\ DOMAIN invites = {} /\ invites \in Seq(Invite)
  BY <1>1 DEF All, InviteFits, inviteVars
<1>3. InviteFits'
  BY <1>1, <1>2 DEF All, InviteFits, MailerFits, mailVars, inviteVars
<1>4. ReachInv'
  BY <1>1, <1>2 DEF All, ReachInv, HeldOnce, Holds, Lost, mailVars, inviteVars
<1>5. SeatInv'
  BY DEF SeatInv
<1>6. \A o : CountPendingInvitations(o)' = CountPendingInvitations(o)
  BY <1>1 DEF CountPendingInvitations, Pending, inviteVars
<1>7. ASSUME \A o \in DOMAIN orgs : MembersOf(o)' \subseteq MembersOf(o)
      PROVE  SeatsTaken
  <2> SUFFICES ASSUME NEW o \in DOMAIN orgs, Used(o)' > Used(o) PROVE FALSE
    BY DEF SeatsTaken
  <2>1. /\ IsFiniteSet(MembersOf(o)) /\ CountMembers(o) \in Nat /\ CountPendingInvitations(o) \in Nat
    BY <1>2, CountsAreNumbers
  <2>2. CountMembers(o)' <= CountMembers(o) /\ CountMembers(o)' \in Nat
    BY <1>7, <2>1, FS_Subset, FS_CardinalityType DEF CountMembers
  <2> QED BY <1>6, <2>1, <2>2 DEF Used
<1>8. ASSUME UNCHANGED <<orgs, members>> PROVE SeatsTaken
  BY <1>7, <1>8 DEF MembersOf, GetMembership
<1>9. ASSUME NEW c \in Clients, commitRole(c) PROVE SeatsTaken
  <2>1. Committing(c) /\ req[c] \in RoleReq
    BY <1>9 DEF commitRole, At, Committing, All, Inv, TypeOK, ReqOf
  <2>2. PICK o, x, new : o = req[c].p.org /\ x = req[c].user /\ new = req[c].new
    OBVIOUS
  <2>3. members[<<o, x>>] # None /\ x \in Users /\ o \in OrgIds
    BY <2>1, <2>2 DEF All, Inv, OwnerInv, RowsLocked, RoleReq, Actor
  <2>4. members' = [members EXCEPT ![<<o, x>>] = new] /\ members \in [OrgIds \X Users -> RoleOrNone]
    BY <1>9, <2>2 DEF commitRole, All, Inv, TypeOK
  <2>5. \A y \in OrgIds \X Users : members'[y] # None => members[y] # None
    BY <2>3, <2>4
  <2>6. \A q \in DOMAIN orgs : MembersOf(q)' \subseteq MembersOf(q)
    BY <2>5, OrgIdsOfRows DEF MembersOf, GetMembership, All, Inv
  <2> QED BY <1>7, <2>6
<1>10. ASSUME NEW c \in Clients, NEW w \in Users, NEW s \in Slugs \cup {None}, CreateOrg(c, w, s) PROVE SeatsTaken
  <2>1. CASE UNCHANGED <<orgs, members>>
    BY <1>8, <2>1
  <2>2. CASE CreateOrgWithOwner(w, IF s = None THEN deriveSlug ELSE s)
    <3>1. PICK n : n = Len(orgs)
      OBVIOUS
    <3>2. n \in Nat /\ DOMAIN orgs = 1..n /\ DOMAIN orgs \subseteq OrgIds
      BY <3>1, OrgIdsOfRows DEF All, Inv
    <3>3. members \in [OrgIds \X Users -> RoleOrNone] /\ members' = [members EXCEPT ![<<n + 1, w>>] = "owner"]
      BY <2>2, <3>1 DEF CreateOrgWithOwner, All, Inv, TypeOK
    <3>4. \A y \in OrgIds \X Users : y # <<n + 1, w>> => members'[y] = members[y]
      BY <3>3
    <3>5. \A o \in DOMAIN orgs, u \in Users : members'[<<o, u>>] = members[<<o, u>>]
      BY <3>2, <3>4
    <3> QED BY <1>7, <3>5 DEF MembersOf, GetMembership
  <2> QED BY <1>10, <2>1, <2>2 DEF CreateOrg
<1>11. SeatsTaken
  <2>1. UNCHANGED <<orgs, members>> \/ (\E c \in Clients : commitRole(c))
          \/ \E c \in Clients, w \in Users, s \in Slugs \cup {None} : CreateOrg(c, w, s)
    BY RoleEffects
  <2> QED BY <1>8, <1>9, <1>10, <2>1
<1> QED BY <1>3, <1>4, <1>5, <1>11 DEF All, Kept

LEMMA QuietStep ==
  ASSUME All, topic = "seats", UNCHANGED <<topic, orgs, members, overlapped, mailVars, inviteVars, req>>,
         rcache' \in CacheType
  PROVE  Kept
<1>1. req' \in [Clients -> SeatReq \cup {None}] /\ invites \in Seq(Invite)
  BY InviteTypes DEF All, MailTyped
<1>2. Touched /\ UNCHANGED overtaken
  BY <1>1, NothingTouched DEF inviteVars
<1>3. \A d \in Clients : req'[d] = req[d]
  OBVIOUS
<1> QED BY <1>1, <1>2, <1>3, RequestsStep

LEMMA PlanSet ==
  ASSUME All, NEW o, NEW plan \in Plans, SetOrganizationPlan(o, plan)
  PROVE  /\ orgs' \in Seq(OrgRow) /\ DOMAIN orgs' = DOMAIN orgs
         /\ \A x \in DOMAIN orgs : orgs[x].plan \in Plans /\ orgs'[x].plan = IF x = o THEN plan ELSE orgs[x].plan
<1>1. orgs \in Seq(OrgRow) /\ DOMAIN orgs = 1..Len(orgs)
  BY LenProperties DEF All, Inv, TypeOK
<1>2. \A x \in DOMAIN orgs : orgs[x] \in OrgRow
  BY <1>1, ElementOfSeq
<1>3. \A x \in DOMAIN orgs : orgs[x].plan \in Plans
  BY <1>2 DEF OrgRow
<1>4. CASE o \in DOMAIN orgs
  <2>1. PICK v : v = [orgs[o] EXCEPT !.plan = plan]
    OBVIOUS
  <2>2. v \in OrgRow /\ v.plan = plan
    BY <1>2, <1>4, <2>1 DEF OrgRow
  <2>3. orgs' = [orgs EXCEPT ![o] = v]
    BY <2>1 DEF SetOrganizationPlan
  <2> HIDE DEF OrgRow
  <2>4. /\ orgs' \in Seq(OrgRow) /\ Len(orgs') = Len(orgs)
        /\ \A x \in 1..Len(orgs) : orgs'[x] = IF x = o THEN v ELSE orgs[x]
    BY <1>1, <1>4, <2>2, <2>3, ExceptSeq
  <2>5. DOMAIN orgs' = DOMAIN orgs
    BY <1>1, <2>4, LenProperties
  <2> QED BY <1>1, <1>3, <2>2, <2>4, <2>5
<1>5. CASE o \notin DOMAIN orgs
  <2>1. orgs' = orgs
    <3>1. orgs = [x \in DOMAIN orgs |-> orgs[x]]
      BY <1>1
    <3>2. orgs' = [x \in DOMAIN orgs |-> orgs[x]]
      BY <1>5 DEF SetOrganizationPlan
    <3> QED BY <3>1, <3>2
  <2> QED BY <1>1, <1>3, <1>5, <2>1
<1> QED BY <1>4, <1>5

\* A change of plan takes no seat, and overtakes the invitations that were let
\* in under a greater cap.
LEMMA PlanStep ==
  ASSUME All, topic = "seats", NEW o, NEW plan \in Plans, SetOrganizationPlan(o, plan),
         UNCHANGED <<topic, members, overlapped, mailVars, invites, rcache>>,
         req' \in [Clients -> SeatReq \cup {None}], \A d \in Clients : req'[d] # None => req'[d] = req[d]
  PROVE  Kept
<1>1. /\ orgs' \in Seq(OrgRow) /\ DOMAIN orgs' = DOMAIN orgs
      /\ \A x \in DOMAIN orgs : orgs[x].plan \in Plans /\ orgs'[x].plan = IF x = o THEN plan ELSE orgs[x].plan
  BY PlanSet
<1>2. MailTyped /\ MailTyped' /\ invites \in Seq(Invite) /\ rcache' \in CacheType
      /\ members' \in [OrgIds \X Users -> RoleOrNone]
  BY InviteTypes DEF All, MailTyped, mailVars
<1>3. \A d \in Clients : req[d] # None =>
         /\ req[d].op \in InviteOps => req[d].p.org \in DOMAIN orgs
         /\ RequestKnows(req[d])
         /\ req[d].p.org \notin overtaken => CountsHold(req[d], req[d].p.org)
  BY AnyRequest
<1>4. Inv'
  BY <1>1, <1>2, <1>3, SeatStepInv DEF All
<1>5. InviteFits'
  <2>1. \A d \in Clients : req'[d] # None => RequestKnows(req[d])'
    <3> SUFFICES ASSUME NEW d \in Clients, req'[d] # None PROVE RequestKnows(req[d])'
      OBVIOUS
    <3>1. PICK q : q = req[d] /\ q = req'[d] /\ RequestKnows(q)
      BY <1>3
    <3>2. RequestKnows(q)'
      BY <3>1, KnowledgeKept
    <3> QED BY <3>1, <3>2 DEF RequestKnows
  <2>2. \A m \in Mailers : mailer'[m] # None => MailerFits(m)'
    BY DEF All, InviteFits, MailerFits, mailVars
  <2> QED BY <1>1, <2>1, <2>2 DEF All, InviteFits, mailVars
<1>6. ReachInv'
  BY DEF All, ReachInv, HeldOnce, Carries, Ahead, Holds, Lost, StillPending, mailVars
<1>7. \A q : CountMembers(q)' = CountMembers(q) /\ Used(q)' = Used(q) /\ Used(q) \in Nat
  <2> SUFFICES ASSUME NEW q PROVE CountMembers(q)' = CountMembers(q) /\ Used(q)' = Used(q) /\ Used(q) \in Nat
    OBVIOUS
  <2>1. Used(q) \in Nat
    BY <1>2, CountsAreNumbers
  <2> QED BY <2>1 DEF Used, CountPendingInvitations, Pending, CountMembers, MembersOf, GetMembership
<1>8. \A x \in DOMAIN orgs : Cap(x) = SeatCap(orgs[x].plan) /\ Cap(x)' = SeatCap(orgs'[x].plan)
                              /\ Cap(x) \in Nat /\ Cap(x)' \in Nat
  <2> SUFFICES ASSUME NEW x \in DOMAIN orgs
               PROVE  Cap(x) = SeatCap(orgs[x].plan) /\ Cap(x)' = SeatCap(orgs'[x].plan)
                      /\ Cap(x) \in Nat /\ Cap(x)' \in Nat
    OBVIOUS
  <2>1. orgs[x].plan \in Plans /\ orgs'[x].plan \in Plans
    BY <1>1
  <2>2. Cap(x) = SeatCap(orgs[x].plan) /\ Cap(x)' = SeatCap(orgs'[x].plan)
    BY <2>1 DEF Cap, orgPlan, ParsePlan
  <2> QED BY <2>2, CapsAreNumbers
<1>9. ASSUME NEW d \in Clients, req'[d] # None, req'[d].p.org \notin overtaken'
      PROVE  CountsHold(req[d], req[d].p.org)'
  <2>1. PICK q, x : q = req[d] /\ q = req'[d] /\ x = q.p.org
    BY <1>9
  <2>2. overtaken \subseteq overtaken'
    BY DEF SetOrganizationPlan, Overtake
  <2>3. CountsHold(q, x) /\ x \notin overtaken' /\ (q.op \in InviteOps => x \in DOMAIN orgs)
    BY <1>3, <1>9, <2>1, <2>2
  <2>4. ASSUME q.op = "insert" PROVE Used(x)' < Cap(x)'
    <3>1. x \in DOMAIN orgs /\ Used(x) < Cap(x)
      BY <2>3, <2>4 DEF CountsHold, InviteOps
    <3>2. CASE x # o
      <4>1. Cap(x)' = Cap(x)
        BY <1>1, <1>8, <3>1, <3>2
      <4> QED BY <1>7, <3>1, <4>1
    <3>3. CASE x = o
      <4>1. Waits(None, o, "insert")
        BY <1>9, <2>1, <2>4, <3>3, MembersAssumption DEF Waits
      <4>2. ~ (SeatCap(plan) < SeatCap(orgs[o].plan))
        BY <2>3, <3>3, <4>1 DEF SetOrganizationPlan, Overtake
      <4>3. Cap(x)' = SeatCap(plan) /\ Cap(x) = SeatCap(orgs[o].plan) /\ Cap(x) \in Nat /\ Cap(x)' \in Nat
        BY <1>1, <1>8, <3>1, <3>3
      <4>4. Cap(x) <= Cap(x)'
        BY <4>2, <4>3
      <4> QED BY <1>7, <3>1, <4>3, <4>4
    <3> QED BY <3>2, <3>3
  <2>5. CountsHold(q, x)'
    BY <1>7, <2>3, <2>4 DEF CountsHold
  <2> QED BY <2>1, <2>5 DEF CountsHold
<1>10. SeatInv'
  BY <1>1, <1>9 DEF All, SeatInv
<1>11. SeatsTaken
  BY <1>7 DEF SeatsTaken
<1> QED BY <1>4, <1>5, <1>6, <1>10, <1>11 DEF All, Kept

LEMMA WebhookStep ==
  ASSUME All, topic = "seats", NEW w \in Hooks,
         (\E e \in DOMAIN sent : ServeHTTP(w, e)) \/ RejectSignature(w) \/ Webhook(w) \/ HookFails(w)
  PROVE  Kept
<1>1. rcache \in CacheType /\ req \in [Clients -> SeatReq \cup {None}]
  BY InviteTypes DEF All
<1>2. CASE ApplySubscriptionEvent(w)
  <2>1. UNCHANGED <<topic, members, overlapped, mailVars, invites, rcache, req>>
    BY <1>2 DEF ApplySubscriptionEvent
  <2>2. UNCHANGED <<orgs, overtaken>> \/ SetOrganizationPlan(OrgOf(w), EventPlan(hook[w].ev))
    BY <1>2 DEF ApplySubscriptionEvent
  <2>3. EventPlan(hook[w].ev) \in Plans
    BY DEF EventPlan, ParsePlan, Plans
  <2>4. CASE UNCHANGED <<orgs, overtaken>>
    BY <1>1, <2>1, <2>4, QuietStep DEF inviteVars
  <2>5. CASE SetOrganizationPlan(OrgOf(w), EventPlan(hook[w].ev))
    <3>1. PICK plan \in Plans : SetOrganizationPlan(OrgOf(w), plan)
      BY <2>3, <2>5
    <3>2. PICK o : SetOrganizationPlan(o, plan)
      BY <3>1
    <3> QED BY <1>1, <2>1, <3>2, PlanStep
  <2> QED BY <2>2, <2>4, <2>5
<1>3. CASE UNCHANGED <<topic, memberVars>>
  <2>1. UNCHANGED <<topic, members, overlapped, mailVars, inviteVars, rcache, req, orgs>>
    BY <1>3 DEF memberVars, orgVars
  <2> QED BY <1>1, <2>1, QuietStep
<1>4. ASSUME NEW e \in DOMAIN sent, ServeHTTP(w, e) PROVE UNCHANGED <<topic, memberVars>>
  BY <1>4 DEF ServeHTTP
<1>5. RejectSignature(w) => UNCHANGED <<topic, memberVars>>
  BY DEF RejectSignature, vars
<1>6. HookFails(w) \/ resolveOrg(w) \/ ApplyPaymentEvent(w) \/ MarkBillingEventProcessed(w)
        => UNCHANGED <<topic, memberVars>>
  BY DEF HookFails, resolveOrg, ApplyPaymentEvent, MarkBillingEventProcessed
<1> QED BY <1>2, <1>3, <1>4, <1>5, <1>6 DEF Webhook

LEMMA AdminHeld ==
  ASSUME All, topic = "seats", NEW c \in Clients, NEW r \in AdminReq \cup {None},
         req' = [req EXCEPT ![c] = r] \/ UNCHANGED req, rcache' \in CacheType,
         UNCHANGED <<topic, orgs, members, overlapped, mailVars, inviteVars>>
  PROVE  Kept
<1>1. rcache' \in CacheType /\ r \in SeatReq \cup {None} /\ invites \in Seq(Invite)
  BY InviteTypes DEF SeatReq, All, MailTyped
<1>2. Touched /\ UNCHANGED overtaken
  BY <1>1, NothingTouched DEF inviteVars
<1>3. r # None => r.op \in {"orgPlan", "subPlan", "cancelNow", "cancelAtEnd"}
  BY DEF AdminReq
<1>4. r # None => r.op \notin InviteOps /\ RequestKnows(r) /\ CountsHold(r, r.p.org)
  BY <1>3 DEF InviteOps, RequestKnows, CountsHold
<1> QED BY <1>1, <1>2, <1>4, RequestStep

LEMMA AdminRequestTyped ==
  ASSUME NEW u \in Users, NEW o \in OrgIds
  PROVE  /\ \A op \in {"orgPlan", "subPlan"}, plan \in Plans : AdminRequest(op, u, o, plan) \in AdminReq
         /\ \A op \in {"cancelNow", "cancelAtEnd"} : AdminRequest(op, u, o, None) \in AdminReq
<1>1. [kind |-> "human", user |-> u, org |-> o, role |-> "out"] \in Actor
  BY DEF Actor, ActorKinds
<1> HIDE DEF Actor, Plans
<1> QED BY <1>1 DEF AdminRequest, AdminReq

LEMMA SelfServeStep ==
  ASSUME All, topic = "seats", NEW c \in Clients, NEW p \in Principals,
         (\E plan \in Plans : CreateBillingCheckout(c, p, plan)) \/ CreateBillingPortal(c, p)
  PROVE  Kept
<1>1. UNCHANGED <<topic, orgs, members, overlapped, mailVars, inviteVars>> /\ humanInOrg(c, p)
  BY DEF CreateBillingCheckout, CreateBillingPortal, BillingUnchanged
<1>2. UNCHANGED req
  BY DEF CreateBillingCheckout, CreateBillingPortal, Refuse, Once
<1> QED BY <1>1, <1>2, CacheKept, AdminHeld DEF All, Inv

LEMMA OperatorStep ==
  ASSUME All, topic = "seats", NEW c \in Clients, NEW u \in Users,
         \/ \E o \in OrgIds : \/ (\E plan \in OperatorPlans : SetAdminOrgPlan(c, u, o, plan))
                              \/ \E when \in {"cancelNow", "cancelAtEnd"} : CancelAdminOrgSubscription(c, u, o, when)
         \/ \E x \in DOMAIN payments, partial \in BOOLEAN : RefundAdminOrgPayment(c, u, x, partial)
  PROVE  Kept
<1>1. UNCHANGED <<topic, orgs, members, overlapped, mailVars, inviteVars, rcache>>
  BY DEF SetAdminOrgPlan, CancelAdminOrgSubscription, RefundAdminOrgPayment, BillingUnchanged
<1>2. rcache' \in CacheType
  BY <1>1, InviteTypes DEF All
<1>3. ASSUME NEW o \in OrgIds, NEW plan \in OperatorPlans, SetAdminOrgPlan(c, u, o, plan) PROVE Kept
  <2>1. PICK op \in {"orgPlan", "subPlan"} :
          req' = [req EXCEPT ![c] = AdminRequest(op, u, o, plan)] \/ UNCHANGED req
    BY <1>3 DEF SetAdminOrgPlan, Begin, Hold, Refuse
  <2>2. AdminRequest(op, u, o, plan) \in AdminReq
    BY AdminRequestTyped, StartsAssumption
  <2> QED BY <1>1, <1>2, <2>1, <2>2, AdminHeld
<1>4. ASSUME NEW o \in OrgIds, NEW when \in {"cancelNow", "cancelAtEnd"}, CancelAdminOrgSubscription(c, u, o, when)
      PROVE  Kept
  <2>1. req' = [req EXCEPT ![c] = AdminRequest(when, u, o, None)] \/ UNCHANGED req
    BY <1>4 DEF CancelAdminOrgSubscription, Begin, Hold, Refuse
  <2>2. AdminRequest(when, u, o, None) \in AdminReq
    BY AdminRequestTyped
  <2> QED BY <1>1, <1>2, <2>1, <2>2, AdminHeld
<1>5. ASSUME NEW x \in DOMAIN payments, NEW partial \in BOOLEAN, RefundAdminOrgPayment(c, u, x, partial)
      PROVE  Kept
  <2>1. UNCHANGED req
    BY <1>5 DEF RefundAdminOrgPayment, Once, Refuse
  <2> QED BY <1>1, <1>2, <2>1, AdminHeld
<1> QED BY <1>3, <1>4, <1>5

LEMMA OperatorWrites ==
  ASSUME All, topic = "seats", NEW c \in Clients,
         \/ UpdateSubscriptionPlan(c) \/ setOrgPlan(c) \/ CancelSubscriptionNow(c)
         \/ SetSubscriptionCancelAtPeriodEnd(c)
  PROVE  Kept
<1>1. UNCHANGED <<topic, members, overlapped, mailVars, invites, rcache>>
  BY DEF UpdateSubscriptionPlan, setOrgPlan, CancelSubscriptionNow, SetSubscriptionCancelAtPeriodEnd,
         BillingUnchanged, inviteVars
<1>2. rcache' \in CacheType /\ req \in [Clients -> SeatReq \cup {None}] /\ req[c] # None
      /\ req[c].op \in {"orgPlan", "subPlan", "cancelNow", "cancelAtEnd"}
  BY <1>1, InviteTypes DEF UpdateSubscriptionPlan, setOrgPlan, CancelSubscriptionNow,
     SetSubscriptionCancelAtPeriodEnd, At, All
<1>3. req[c] \in AdminReq
  BY <1>2 DEF SeatReq, InviteReq, InviteOps
<1>4. CASE UpdateSubscriptionPlan(c)
  <2>1. PICK r : r = [req[c] EXCEPT !.op = "orgPlan"]
    OBVIOUS
  <2>2. req[c].op = "subPlan"
    BY <1>4 DEF UpdateSubscriptionPlan, At
  <2>3. r \in AdminReq
    BY <1>3, <2>1, <2>2 DEF AdminReq
  <2>4. req' = [req EXCEPT ![c] = r]
    BY <1>4, <2>1 DEF UpdateSubscriptionPlan, Goto
  <2>5. UNCHANGED <<orgs, inviteVars>>
    BY <1>4 DEF UpdateSubscriptionPlan, BillingUnchanged
  <2> QED BY <1>1, <1>2, <2>3, <2>4, <2>5, AdminHeld
<1>5. CASE SetSubscriptionCancelAtPeriodEnd(c)
  <2>1. Done(c) /\ UNCHANGED <<orgs, inviteVars>>
    BY <1>5 DEF SetSubscriptionCancelAtPeriodEnd, BillingUnchanged
  <2> QED BY <1>1, <1>2, <2>1, AdminHeld DEF Done
<1>6. CASE setOrgPlan(c) \/ CancelSubscriptionNow(c)
  <2>1. Done(c)
    BY <1>6 DEF setOrgPlan, CancelSubscriptionNow
  <2>2. PICK plan \in Plans : SetOrganizationPlan(req[c].p.org, plan)
    <3>1. CASE setOrgPlan(c)
      <4>1. req[c].op = "orgPlan"
        BY <3>1 DEF setOrgPlan, At
      <4>2. req[c].plan \in Plans
        BY <1>3, <4>1 DEF AdminReq
      <4> QED BY <3>1, <4>2 DEF setOrgPlan
    <3>2. CASE CancelSubscriptionNow(c)
      BY <3>2 DEF CancelSubscriptionNow, Plans
    <3> QED BY <1>6, <3>1, <3>2
  <2>3. req' \in [Clients -> SeatReq \cup {None}] /\ \A d \in Clients : req'[d] # None => req'[d] = req[d]
    BY <1>2, <2>1 DEF Done
  <2>4. PICK o : SetOrganizationPlan(o, plan)
    BY <2>2
  <2> QED BY <1>1, <2>3, <2>4, PlanStep
<1> QED BY <1>4, <1>5, <1>6, SMTT(30)

LEMMA BillingStep ==
  ASSUME All, topic = "seats", BillingNext
  PROVE  Kept
<1>1. ASSUME NEW o \in DOMAIN orgs,
             \/ \E custom \in {o} \cup Customs, status \in Outcomes : ProviderBills(o, custom, status)
             \/ TrialWindowPasses(o)
      PROVE  Kept
  <2>1. UNCHANGED <<topic, memberVars>>
    BY <1>1 DEF ProviderBills, TrialWindowPasses
  <2>2. UNCHANGED <<topic, members, overlapped, mailVars, inviteVars, rcache, req, orgs>>
    BY <2>1 DEF memberVars, orgVars
  <2>3. rcache' \in CacheType
    BY <2>2, InviteTypes DEF All
  <2> QED BY <2>2, <2>3, QuietStep
<1>2. ASSUME NEW w \in Hooks,
             \/ \E e \in DOMAIN sent : ServeHTTP(w, e)
             \/ RejectSignature(w) \/ Webhook(w) \/ HookFails(w)
      PROVE  Kept
  BY <1>2, WebhookStep
<1>3. ASSUME NEW c \in Clients, NEW p \in Principals,
             (\E plan \in Plans : CreateBillingCheckout(c, p, plan)) \/ CreateBillingPortal(c, p)
      PROVE  Kept
  BY <1>3, SelfServeStep
<1>4. ASSUME NEW c \in Clients, NEW u \in Users,
             \/ \E o \in OrgIds :
                  \/ \E plan \in OperatorPlans : SetAdminOrgPlan(c, u, o, plan)
                  \/ \E when \in {"cancelNow", "cancelAtEnd"} : CancelAdminOrgSubscription(c, u, o, when)
             \/ \E x \in DOMAIN payments, partial \in BOOLEAN : RefundAdminOrgPayment(c, u, x, partial)
      PROVE  Kept
  BY <1>4, OperatorStep
<1>5. ASSUME NEW c \in Clients,
             \/ UpdateSubscriptionPlan(c) \/ setOrgPlan(c) \/ CancelSubscriptionNow(c)
             \/ SetSubscriptionCancelAtPeriodEnd(c)
             \/ Abort(c) /\ UNCHANGED <<topic, vendor, billVars>>
      PROVE  Kept
  BY <1>5, OperatorWrites, AbortStep
<1> HIDE DEF All
<1> QED BY <1>1, <1>2, <1>3, <1>4, <1>5 DEF BillingNext

-----------------------------------------------------------------------------
(* The invariant holds *)

LEMMA InitHolds ==
  ASSUME Init
  PROVE  All
<1>1. PICK s \in Starts :
       /\ topic = s.topic /\ vendor = s.vendor /\ bus = s.bus
       /\ orgs = <<[slug |-> 1, plan |-> s.plan]>>
       /\ members = [x \in OrgIds \X Users |-> IF x[1] = 1 THEN s.roles[x[2]] ELSE None]
       /\ invites = IF s.guest = None \/ topic = "roles" THEN << >>
                    ELSE <<[org |-> 1, email |-> s.guest, role |-> "viewer", state |-> "pending",
                            token |-> 1, over |-> FALSE]>>
  BY DEF Init
<1>2. PICK roles, plan, guest : roles = s.roles /\ plan = s.plan /\ guest = s.guest
  OBVIOUS
<1>3. /\ roles \in [Users -> RoleOrNone] /\ plan \in Plans /\ guest \in InviteEmails \cup {None}
      /\ topic \in Topics /\ bus \in {"kafka", "redis"} /\ \E u \in Users : roles[u] = "owner"
  <2>1. s \in StartRecord /\ \E u \in Users : s.roles[u] = "owner"
    BY StartsAssumption
  <2> QED BY <1>1, <1>2, <2>1 DEF StartRecord, RoleOrNone
<1>4. PICK row : row = [slug |-> 1, plan |-> plan]
  OBVIOUS
<1>5. row \in OrgRow /\ orgs = <<row>>
  BY <1>1, <1>2, <1>3, <1>4 DEF OrgRow
<1>6. orgs \in Seq(OrgRow) /\ Len(orgs) = 1 /\ DOMAIN orgs = {1}
  <2> HIDE DEF OrgRow
  <2> QED BY <1>5
<1>7. MaxOrgs \in Nat /\ MaxOrgs > 0 /\ 1 \in OrgIds /\ Len(orgs) \in 1..MaxOrgs
  BY <1>6, MembersAssumption DEF OrgIds
<1>8. members = [x \in OrgIds \X Users |-> IF x[1] = 1 THEN roles[x[2]] ELSE None] /\ rcache = members
  BY <1>1, <1>2 DEF Init
<1>9. members \in [OrgIds \X Users -> RoleOrNone] /\ rcache \in CacheType
  BY <1>3, <1>8 DEF RoleOrNone, CacheType
<1>10. \A o \in OrgIds, u \in Users : members[<<o, u>>] = IF o = 1 THEN roles[u] ELSE None
  BY <1>8
<1>11. PICK v : v = [org |-> 1, email |-> guest, role |-> "viewer", state |-> "pending", token |-> 1, over |-> FALSE]
  OBVIOUS
<1>12. v.org = 1 /\ v.token = 1
  BY <1>11
<1>13. \/ invites = << >> /\ DOMAIN invites = {} /\ invites \in Seq(Invite)
       \/ topic # "roles" /\ DOMAIN invites = {1} /\ invites[1] = v /\ invites \in Seq(Invite)
  <2>1. CASE guest = None \/ topic = "roles"
    BY <1>1, <1>2, <2>1
  <2>2. CASE guest # None /\ topic # "roles"
    <3>1. v \in Invite
      BY <1>3, <1>7, <1>11, <2>2 DEF Invite, Roles
    <3>2. invites = <<v>>
      BY <1>1, <1>2, <1>11, <2>2
    <3> HIDE DEF Invite
    <3> QED BY <2>2, <3>1, <3>2
  <2> QED BY <2>1, <2>2
<1>14. intents \in Seq(Intent) /\ \A k \in DOMAIN intents : intents[k].kind # "invitation"
  <2>1. CASE intents = << >>
    BY <2>1
  <2>2. CASE \E k \in OtherIntents : intents = <<[kind |-> k, inv |-> None]>>
    <3>1. PICK k \in OtherIntents : intents = <<[kind |-> k, inv |-> None]>>
      BY <2>2
    <3>2. PICK e : e = [kind |-> k, inv |-> None]
      OBVIOUS
    <3>3. e \in Intent /\ e.kind # "invitation"
      BY <3>2, MembersAssumption DEF Intent
    <3>4. intents = <<e>>
      BY <3>1, <3>2
    <3> HIDE DEF Intent
    <3> QED BY <3>3, <3>4
  <2> QED BY <2>1, <2>2 DEF Init
<1>15. /\ mailer = [m \in Mailers |-> None] /\ req = [c \in Clients |-> None] /\ minted = 1 /\ mailed = {1}
       /\ overlapped = {} /\ overtaken = {} /\ doubled = {} /\ acked = {} /\ dropped = {}
  BY DEF Init
<1>16. TypeOK
  BY <1>3, <1>6, <1>7, <1>9, <1>13, <1>14, <1>15 DEF TypeOK, CacheType
<1>17. RequestsFit /\ RowsLocked
  BY <1>15 DEF RequestsFit, RowsLocked, Committing
<1>18. NoGhosts
  BY <1>6, <1>10 DEF NoGhosts
<1>19. OwnerStays
  BY <1>3, <1>6, <1>7, <1>10, <1>15 DEF OwnerStays, Committing
<1>20. InviteFits
  BY <1>6, <1>12, <1>13, <1>14, <1>15 DEF InviteFits
<1>21. ReachInv
  BY <1>12, <1>13, <1>15 DEF ReachInv, HeldOnce, Holds, Lost
<1>22. SeatInv
  BY <1>6, <1>15 DEF SeatInv
<1> QED BY <1>16, <1>17, <1>18, <1>19, <1>20, <1>21, <1>22 DEF All, Inv, OwnerInv

LEMMA StillHolds ==
  ASSUME All, UNCHANGED vars
  PROVE  All'
<1>1. /\ UNCHANGED <<topic, orgs, members, rcache, overlapped, invites, overtaken, req>>
      /\ UNCHANGED <<bus, intents, acked, minted, mailed, mailer, doubled, dropped>>
  BY DEF vars, memberVars, orgVars, mailVars, inviteVars
<1>2. Inv'
  <2>1. TypeOK'
    BY <1>1 DEF All, Inv, TypeOK, ReqOf
  <2>2. RequestsFit' /\ NoGhosts'
    BY <1>1 DEF All, Inv, OwnerInv, RequestsFit, NoGhosts
  <2>3. \A d \in Clients : Committing(d)' => Committing(d) /\ req'[d] = req[d]
    BY <1>1 DEF Committing
  <2>4. OwnerStays'
    BY <1>1, <2>3, OwnersUnmoved DEF All, Inv, OwnerInv
  <2>5. RowsLocked'
    BY <1>1, <2>3 DEF All, Inv, OwnerInv, RowsLocked
  <2> QED BY <2>1, <2>2, <2>4, <2>5 DEF Inv, OwnerInv
<1>3. InviteFits'
  BY <1>1 DEF All, InviteFits, MailerFits, RequestKnows
<1>4. ReachInv'
  BY <1>1 DEF All, ReachInv, HeldOnce, Carries, Ahead, Holds, Lost, StillPending
<1>5. SeatInv'
  BY <1>1 DEF All, SeatInv, CountsHold, Used, Cap, CountMembers, CountPendingInvitations, MembersOf, Pending,
              GetMembership, orgPlan
<1> QED BY <1>2, <1>3, <1>4, <1>5 DEF All

LEMMA NextHolds ==
  ASSUME All, Next
  PROVE  Kept
<1>1. CASE topic = "roles" /\ RoleNext /\ UNCHANGED <<topic, vendor, billVars>>
  BY <1>1, RolesStep, RolesSeats DEF All
<1>2. CASE topic = "seats" /\ InviteNext /\ UNCHANGED <<topic, vendor, billVars>>
  BY <1>2, InvitesStep
<1>3. CASE topic = "seats" /\ BillingNext
  BY <1>3, BillingStep
<1> QED BY <1>1, <1>2, <1>3 DEF Next

\* The inductive invariant of orgs, members and invitations: the types, the
\* owner who stays, the rows that are locked, the counts a request still relies
\* on and the intent that carries each token.
THEOREM MembersInvariance == Spec => []All
<1>1. Init => All
  BY InitHolds
<1>2. All /\ [Next]_vars => All'
  BY NextHolds, StillHolds DEF Kept
<1> QED BY <1>1, <1>2, PTL DEF Spec

\* OwnerKept, for every org, every number of members and of requests at once:
\* the trigger keeps an owner in every org through stale roles, stale counts,
\* aborted transactions and transfers, unless two owners leave in transactions
\* that overlap.
THEOREM OwnersStay == Spec => []OwnerKept
<1>1. All => OwnerKept
  <2> SUFFICES ASSUME All, NEW o \in DOMAIN orgs \ overlapped
               PROVE  \E u \in DOMAIN ListMembers(o) : ListMembers(o)[u] = "owner"
    BY DEF OwnerKept
  <2>1. PICK u \in Users : members[<<o, u>>] = "owner"
    BY DEF All, Inv, OwnerInv, OwnerStays
  <2>2. None # "owner"
    BY MembersAssumption DEF Roles
  <2> QED BY <2>1, <2>2 DEF ListMembers, MembersOf, GetMembership
<1> QED BY <1>1, MembersInvariance, PTL

\* SeatsBounded, for every plan, every number of requests and of invitations and
\* any changes of plan in between: an org where no invitation request was
\* overtaken takes a seat only within the seats its plan has then.
THEOREM SeatsFit == Spec => SeatsBounded
<1> DEFINE Within == \A o \in DOMAIN orgs \ overtaken :
                       GetEntitlements(o)'.seatsUsed > GetEntitlements(o).seatsUsed =>
                         GetEntitlements(o)'.seatsUsed <= GetEntitlements(o)'.seatsCap
<1>1. \A o : /\ GetEntitlements(o).seatsUsed = Used(o)
             /\ GetEntitlements(o)'.seatsUsed = Used(o)' /\ GetEntitlements(o)'.seatsCap = Cap(o)'
  BY DEF GetEntitlements, seatUsage, Used, Cap
<1>2. All /\ [Next]_vars => [Within]_memberVars
  <2> SUFFICES ASSUME All, [Next]_vars PROVE [Within]_memberVars
    OBVIOUS
  <2>1. CASE UNCHANGED vars
    BY <2>1 DEF vars
  <2>2. CASE Next
    <3>1. SeatsTaken
      BY <2>2, NextHolds DEF Kept
    <3> QED BY <1>1, <3>1 DEF SeatsTaken
  <2> QED BY <2>1, <2>2
<1> QED BY <1>2, MembersInvariance, PTL DEF Spec, SeatsBounded

\* InviteReachable, for every number of mailers, intents and resends, batches of
\* any size and failures of any call: the token a pending invitation expects was
\* mailed, or an intent that is delivered again still stands for it; unless
\* Kafka read past that intent after an error or gave it to two consumers.
THEOREM InvitesArrive == Spec => []InviteReachable
<1>1. All => InviteReachable
  <2> SUFFICES ASSUME All, NEW i \in DOMAIN invites, StillPending(i), invites[i].token # None
               PROVE  \/ Arrived(i)
                      \/ \E k \in IntentsFor(i) : k \notin acked \/ (bus = "kafka" /\ k \in doubled \cup dropped)
    BY DEF InviteReachable
  <2>1. CASE invites[i].token \in mailed
    BY <2>1 DEF Arrived, GetInvitationPreview, GetInvitationByToken, StillPending
  <2>2. CASE invites[i].token \notin mailed
    <3>1. PICK k \in DOMAIN intents : Carries(k, i)
      BY <2>2 DEF All, ReachInv
    <3>2. k \in IntentsFor(i) /\ (k \in Lost \/ k \notin acked)
      BY <3>1 DEF Carries, IntentsFor
    <3>3. k \in Lost => bus = "kafka"
      BY DEF All, Inv, TypeOK, ReachInv, HeldOnce
    <3> QED BY <3>2, <3>3 DEF Lost
  <2> QED BY <2>1, <2>2
<1> QED BY <1>1, MembersInvariance, PTL

-----------------------------------------------------------------------------
(* The provider's events *)

Raw == [type : {"subscription.created", "subscription.updated", "subscription.canceled",
                "transaction.completed", "transaction.paid", "adjustment.created"},
        custom : OrgIds \cup Customs \cup {0}, customer : {1}, price : Prices \cup {None},
        status : Outcomes \cup {"active", "trialing", "canceled", "completed"},
        ending : BOOLEAN, pay : Nat \cup {None}]

Kind(e) == KindOf(sent[e].type)

\* What the provider sends of a subscription names a price, of a payment itself.
EventFits(e) ==
  /\ Kind(e) = "subscription" => sent[e].price \in Prices
  /\ Kind(e) = "payment" => sent[e].pay = e /\ sent[e].status = "completed" /\ e <= MaxEvents[vendor]

\* The newest of the events of the one customer's subscription.
IsCurrent(e) == e \in Subscribed(1) /\ \A f \in Subscribed(1) : f <= e

EventsFit ==
  /\ vendor \in {"stub", "paddle"} /\ sent \in Seq(Raw)
  /\ \A e \in DOMAIN sent : EventFits(e)
  /\ Subscribed(1) # {} => \E e \in Subscribed(1) : IsCurrent(e)

\* Whatever was marked processed was acted upon, or needs no act.
Settled(e) ==
  \/ e \in unresolved \/ Foreign(e) \/ Kind(e) = "unknown"
  \/ Kind(e) = "payment" /\ payments[e] # None
  \/ Kind(e) = "subscription" /\ (e <= newest[1] \/ 1 \in stale)

HookRow(e, pc, o) == [id |-> e, ev |-> VerifyWebhook(sent[e]), pc |-> pc, org |-> o]
StepFits(e, pc, o) ==
  /\ pc = "apply" => o = 1 /\ sent[e].custom = 0
  /\ pc = "mark" => Settled(e)
  /\ pc = "gone" => Foreign(e)
HookFits(w) ==
  hook[w] # None =>
    \E e \in DOMAIN sent, pc \in {"act", "apply", "mark", "gone"}, o \in {0, 1} :
      hook[w] = HookRow(e, pc, o) /\ StepFits(e, pc, o)

\* An operator's request is about the one org; a subscription is changed only
\* where the provider has one.
AdminOps == {"orgPlan", "subPlan", "cancelNow", "cancelAtEnd"}
OrderFits(r) ==
  r # None /\ r.op \in AdminOps => r.p.org = 1 /\ (r.op # "orgPlan" => Subscribed(1) # {})

RowsFit ==
  /\ subs = [o \in OrgIds |-> subs[o]] /\ \A o \in OrgIds : subs[o] # None => o = 1 /\ Subscribed(1) # {}
  /\ payments = [x \in 1..MaxEvents[vendor] |-> payments[x]]
  /\ \A x \in DOMAIN payments : payments[x] # None => payments[x].org = 1
  /\ \A c \in Clients : OrderFits(req[c])

\* The plan is the one of the last event applied.
PlanFits ==
  /\ newest \in [OrgIds -> Nat]
  /\ newest[1] # 0 =>
       /\ newest[1] \in DOMAIN sent /\ Kind(newest[1]) = "subscription" /\ ~ Foreign(newest[1])
       /\ 1 \notin override => orgs[1].plan = EventPlan(VerifyWebhook(sent[newest[1]]))

HooksFit == hook = [w \in Hooks |-> hook[w]] /\ \A w \in Hooks : HookFits(w)
ProcessedFit == processed \subseteq {e \in DOMAIN sent : Settled(e)}

MirrorInv ==
  /\ topic = "roles" => sent = << >>
  /\ topic = "seats" => EventsFit /\ HooksFit /\ ProcessedFit /\ RowsFit /\ PlanFits

LEMMA KindNames ==
  /\ KindOf("subscription.created") = "subscription" /\ KindOf("subscription.updated") = "subscription"
  /\ KindOf("subscription.canceled") = "subscription" /\ KindOf("transaction.completed") = "payment"
  /\ KindOf("transaction.paid") = "payment" /\ KindOf("adjustment.created") = "unknown"
BY DEF KindOf, subscriptionEvents, paymentEvents

LEMMA BoundKnown ==
  ASSUME EventsFit
  PROVE  MaxEvents[vendor] \in Nat /\ Len(sent) \in Nat /\ DOMAIN sent = 1..Len(sent)
BY BillingAssumption, LenProperties DEF EventsFit

\* The subscription the provider has, when it has one.
LEMMA CurrentFits ==
  ASSUME EventsFit, Subscribed(1) # {}
  PROVE  Current(1) \in Raw /\ Current(1).price \in Prices
<1>1. PICK e \in Subscribed(1) : \A f \in Subscribed(1) : f <= e
  BY DEF EventsFit, IsCurrent
<1> DEFINE m == CHOOSE x \in Subscribed(1) : \A f \in Subscribed(1) : f <= x
<1>2. m \in Subscribed(1)
  BY <1>1
<1>3. Current(1) = sent[m]
  BY DEF Current
<1> HIDE DEF m
<1>4. m \in DOMAIN sent /\ Kind(m) = "subscription"
  BY <1>2 DEF Subscribed, Kind
<1>5. sent[m] \in Raw
  BY <1>4, ElementOfSeq, BoundKnown DEF EventsFit
<1>6. sent[m].price \in Prices
  BY <1>4 DEF EventsFit, EventFits
<1> QED BY <1>3, <1>5, <1>6

\* What an event must be to be made as number e.
RawFits(r, e) ==
  /\ r \in Raw
  /\ KindOf(r.type) = "subscription" => r.price \in Prices
  /\ KindOf(r.type) = "payment" => r.pay = e /\ r.status = "completed"

Grows ==
  /\ sent' \in Seq(Raw) /\ Len(sent') <= MaxEvents[vendor]
  /\ Len(sent') = Len(sent) + 1 \/ Len(sent') = Len(sent) + 2
  /\ \A e \in DOMAIN sent : e \in DOMAIN sent' /\ sent'[e] = sent[e]
  /\ \A e \in DOMAIN sent' \ DOMAIN sent : RawFits(sent'[e], e)

LEMMA OneMade ==
  ASSUME EventsFit, NEW r, RawFits(r, Len(sent) + 1), Emit(<<r>>)
  PROVE  Grows
<1>1. Len(sent) \in Nat /\ DOMAIN sent = 1..Len(sent) /\ sent \in Seq(Raw) /\ MaxEvents[vendor] \in Nat
  BY BoundKnown DEF EventsFit
<1>2. r \in Raw
  BY DEF RawFits
<1>3. sent' = sent \o <<r>> /\ Len(sent) + 1 <= MaxEvents[vendor]
  BY DEF Emit
<1> HIDE DEF Raw
<1>4. PICK t : t = <<r>>
  OBVIOUS
<1>41. t \in Seq(Raw) /\ Len(t) = 1 /\ t[1] = r
  BY <1>2, <1>4
<1>5. sent' \in Seq(Raw) /\ Len(sent') = Len(sent) + 1
  BY <1>1, <1>3, <1>4, <1>41, ConcatProperties
<1>6. DOMAIN sent' = 1..Len(sent)+1
  BY <1>5, <1>1, LenProperties
<1>7. \A e \in 1..Len(sent)+1 : sent'[e] = IF e <= Len(sent) THEN sent[e] ELSE t[e - Len(sent)]
  BY <1>1, <1>3, <1>4, <1>41, ConcatProperties
<1>8. sent'[Len(sent) + 1] = r
  BY <1>7, <1>1, <1>41
<1> QED BY <1>1, <1>3, <1>5, <1>6, <1>7, <1>8 DEF Grows

LEMMA TwoMade ==
  ASSUME EventsFit, NEW r, NEW q, RawFits(r, Len(sent) + 1), RawFits(q, Len(sent) + 2), Emit(<<r, q>>)
  PROVE  Grows
<1>1. Len(sent) \in Nat /\ DOMAIN sent = 1..Len(sent) /\ sent \in Seq(Raw) /\ MaxEvents[vendor] \in Nat
  BY BoundKnown DEF EventsFit
<1>2. r \in Raw /\ q \in Raw
  BY DEF RawFits
<1>3. sent' = sent \o <<r, q>> /\ Len(sent) + 2 <= MaxEvents[vendor]
  BY DEF Emit
<1> HIDE DEF Raw
<1>4. PICK t : t = <<r, q>>
  OBVIOUS
<1>41. t \in Seq(Raw) /\ Len(t) = 2 /\ t[1] = r /\ t[2] = q
  BY <1>2, <1>4
<1>5. sent' \in Seq(Raw) /\ Len(sent') = Len(sent) + 2
  BY <1>1, <1>3, <1>4, <1>41, ConcatProperties
<1>6. DOMAIN sent' = 1..Len(sent)+2
  BY <1>5, <1>1, LenProperties
<1>7. \A e \in 1..Len(sent)+2 : sent'[e] = IF e <= Len(sent) THEN sent[e] ELSE t[e - Len(sent)]
  BY <1>1, <1>3, <1>4, <1>41, ConcatProperties
<1>8. sent'[Len(sent) + 1] = r /\ sent'[Len(sent) + 2] = q
  BY <1>7, <1>1, <1>41
<1> QED BY <1>1, <1>3, <1>5, <1>6, <1>7, <1>8 DEF Grows

\* What holds of the events made so far holds of more of them.
LEMMA EventsGrow ==
  ASSUME EventsFit, UNCHANGED vendor, Grows
  PROVE  EventsFit' /\ (Subscribed(1) # {} => Subscribed(1)' # {})
<1>0. PICK n, m, top \in Nat : n = Len(sent) /\ m = Len(sent') /\ top = MaxEvents[vendor]
  BY BoundKnown, LenProperties DEF Grows
<1>1. DOMAIN sent = 1..n /\ DOMAIN sent' = 1..m /\ m \in {n + 1, n + 2} /\ m <= top
      /\ MaxEvents[vendor'] = top
  BY <1>0, BoundKnown, LenProperties DEF Grows
<1>2. \A e \in DOMAIN sent' : EventFits(e)'
  <2> SUFFICES ASSUME NEW e \in DOMAIN sent' PROVE EventFits(e)'
    OBVIOUS
  <2>1. CASE e \in DOMAIN sent
    BY <2>1 DEF EventFits, Kind, EventsFit, Grows
  <2>2. CASE e \notin DOMAIN sent
    <3>1. RawFits(sent'[e], e) /\ e <= top
      BY <2>2, <1>1 DEF Grows
    <3> QED BY <3>1, <1>1 DEF EventFits, Kind, RawFits
  <2> QED BY <2>1, <2>2
<1>3. \A e \in DOMAIN sent : e \in Subscribed(1)' <=> e \in Subscribed(1)
  BY DEF Subscribed, Grows
<1>4. Subscribed(1)' \subseteq 1..m /\ Subscribed(1) \subseteq 1..n
  BY <1>1 DEF Subscribed
<1>5. Subscribed(1)' # {} => \E e \in Subscribed(1)' : \A f \in Subscribed(1)' : f <= e
  <2>1. CASE m \in Subscribed(1)'
    BY <2>1, <1>4, <1>1
  <2>2. CASE m \notin Subscribed(1)' /\ m = n + 2 /\ n + 1 \in Subscribed(1)'
    BY <2>2, <1>4, <1>1
  <2>3. CASE m \notin Subscribed(1)' /\ ~ (m = n + 2 /\ n + 1 \in Subscribed(1)')
    <3>1. \A e \in Subscribed(1)' : e \in 1..n
      BY <2>3, <1>4, <1>1
    <3>2. Subscribed(1)' = Subscribed(1)
      BY <3>1, <1>3, <1>4, <1>1
    <3> QED BY <3>2 DEF EventsFit, IsCurrent
  <2> QED BY <2>1, <2>2, <2>3
<1>6. (Subscribed(1) # {} => \E e \in Subscribed(1) : IsCurrent(e))'
  BY <1>5 DEF IsCurrent
<1> QED BY <1>1, <1>2, <1>3, <1>4, <1>6 DEF EventsFit, Grows

\* Nothing that was settled comes unsettled.
Keeps ==
  /\ \A e \in DOMAIN sent : e \in DOMAIN sent' /\ sent'[e] = sent[e]
  /\ vendor' = vendor /\ DOMAIN orgs' = DOMAIN orgs
  /\ unresolved \subseteq unresolved' /\ stale \subseteq stale'
  /\ \A e \in DOMAIN sent : Kind(e) = "payment" /\ payments[e] # None => payments'[e] # None
  /\ newest[1] \in Nat /\ newest'[1] \in Nat /\ (newest[1] <= newest'[1] \/ 1 \in stale')

LEMMA SettledKept ==
  ASSUME EventsFit, Keeps, NEW e \in DOMAIN sent, Settled(e)
  PROVE  Settled(e)'
<1>1. e \in Nat /\ Kind(e)' = Kind(e) /\ (Foreign(e) => Foreign(e)')
  BY BoundKnown DEF Keeps, Kind, Foreign
<1>2. CASE Kind(e) = "subscription" /\ e <= newest[1]
  BY <1>1, <1>2 DEF Keeps, Settled
<1>3. CASE Kind(e) = "subscription" /\ 1 \in stale
  BY <1>1, <1>3 DEF Keeps, Settled
<1>4. CASE Kind(e) = "payment" /\ payments[e] # None
  BY <1>1, <1>4 DEF Keeps, Settled
<1>5. CASE e \in unresolved \/ Foreign(e) \/ Kind(e) = "unknown"
  BY <1>1, <1>5 DEF Keeps, Settled
<1> QED BY <1>2, <1>3, <1>4, <1>5 DEF Settled

LEMMA HookKept ==
  ASSUME EventsFit, Keeps, NEW w \in Hooks, HookFits(w), hook'[w] = hook[w]
  PROVE  HookFits(w)'
<1> SUFFICES ASSUME hook[w] # None
             PROVE  (\E e \in DOMAIN sent, pc \in {"act", "apply", "mark", "gone"}, o \in {0, 1} :
                       hook[w] = HookRow(e, pc, o) /\ StepFits(e, pc, o))'
  BY DEF HookFits
<1>1. PICK e \in DOMAIN sent, pc \in {"act", "apply", "mark", "gone"}, o \in {0, 1} :
        hook[w] = HookRow(e, pc, o) /\ StepFits(e, pc, o)
  BY DEF HookFits
<1>2. e \in DOMAIN sent' /\ sent'[e] = sent[e] /\ VerifyWebhook(sent[e])' = VerifyWebhook(sent[e])
  BY DEF Keeps, VerifyWebhook, stubEvent, mapSubscription
<1>3. HookRow(e, pc, o)' = HookRow(e, pc, o)
  BY <1>2 DEF HookRow
<1>4. Settled(e) => Settled(e)'
  BY SettledKept
<1>5. Foreign(e) => Foreign(e)'
  BY <1>2 DEF Foreign, Keeps
<1>6. StepFits(e, pc, o)'
  BY <1>1, <1>2, <1>4, <1>5 DEF StepFits
<1> QED BY <1>1, <1>2, <1>3, <1>6

LEMMA ProcessedKept ==
  ASSUME EventsFit, Keeps, ProcessedFit, NEW e \in DOMAIN sent,
         processed' = processed \/ (processed' = processed \cup {e} /\ Settled(e))
  PROVE  ProcessedFit'
<1>1. \A f \in processed : f \in DOMAIN sent /\ Settled(f)
  BY DEF ProcessedFit
<1> SUFFICES ASSUME NEW f \in processed' PROVE f \in DOMAIN sent' /\ Settled(f)'
  BY DEF ProcessedFit
<1>2. f \in DOMAIN sent /\ Settled(f)
  BY <1>1
<1> QED BY <1>2, SettledKept DEF Keeps

\* Making events disturbs nothing.
LEMMA MadeStep ==
  ASSUME TypeOK, EventsFit, HooksFit, ProcessedFit, RowsFit, PlanFits, DOMAIN orgs = {1}, topic = "seats",
         UNCHANGED <<topic, vendor, orgs, subs, payments, override, hookVars>>, Grows \/ UNCHANGED sent,
         \A c \in Clients : OrderFits(req'[c])
  PROVE  MirrorInv'
<1>1. EventsFit' /\ (Subscribed(1) # {} => Subscribed(1)' # {})
  <2>1. CASE UNCHANGED sent
    BY <2>1 DEF EventsFit, EventFits, Kind, Subscribed, IsCurrent
  <2> QED BY <2>1, EventsGrow
<1>2. 1 \in OrgIds
  BY OrgIdsOfRows
<1>3. Keeps
  BY <1>2 DEF Keeps, Grows, hookVars, PlanFits
<1>4. HooksFit'
  BY <1>3, HookKept DEF HooksFit, hookVars
<1>5. ProcessedFit'
  <2>1. \A f \in processed : f \in DOMAIN sent /\ Settled(f)
    BY DEF ProcessedFit
  <2> QED BY <2>1, <1>3, SettledKept DEF ProcessedFit, hookVars, Keeps
<1>6. RowsFit'
  <2>1. \A c \in Clients : OrderFits(req[c])'
    BY <1>1 DEF OrderFits
  <2> QED BY <1>1, <2>1 DEF RowsFit
<1>7. PlanFits'
  <2>1. newest \in [OrgIds -> Nat] /\ newest' = newest
    BY DEF PlanFits, hookVars
  <2>2. PICK e : e = newest[1]
    OBVIOUS
  <2>3. CASE e = 0
    BY <2>1, <2>2, <2>3 DEF PlanFits
  <2>4. CASE e # 0
    <3>1. e \in DOMAIN sent /\ Kind(e) = "subscription" /\ ~ Foreign(e)
          /\ (1 \notin override => orgs[1].plan = EventPlan(VerifyWebhook(sent[e])))
      BY <2>2, <2>4 DEF PlanFits
    <3>2. e \in DOMAIN sent' /\ sent'[e] = sent[e] /\ VerifyWebhook(sent[e])' = VerifyWebhook(sent[e])
      BY <3>1, <1>3 DEF Keeps, VerifyWebhook, stubEvent, mapSubscription
    <3>3. Kind(e)' = "subscription" /\ ~ Foreign(e)'
      BY <3>1, <3>2 DEF Kind, Foreign
    <3>4. EventPlan(VerifyWebhook(sent[e]))' = EventPlan(VerifyWebhook(sent[e]))
      BY <3>2 DEF EventPlan
    <3> QED BY <2>1, <2>2, <3>1, <3>2, <3>3, <3>4 DEF PlanFits
  <2> QED BY <2>3, <2>4
<1> QED BY <1>1, <1>4, <1>5, <1>6, <1>7 DEF MirrorInv

Mirrors == All /\ MirrorInv /\ topic = "seats"

LEMMA MirrorFacts ==
  ASSUME Mirrors
  PROVE  /\ TypeOK /\ EventsFit /\ HooksFit /\ ProcessedFit /\ RowsFit /\ PlanFits
         /\ DOMAIN orgs = {1} /\ topic = "seats" /\ 1 \in OrgIds
         /\ \A c \in Clients : OrderFits(req[c])
<1>1. TypeOK /\ DOMAIN orgs = {1} /\ topic = "seats"
  BY DEF Mirrors, All, Inv, SeatInv
<1> QED BY <1>1, OrgIdsOfRows DEF Mirrors, MirrorInv, RowsFit

LEMMA StatusesTyped ==
  \A r \in Raw : r.status \in Outcomes \cup {"active", "trialing", "canceled", "completed"}
BY DEF Raw

\* An event of a subscription, and one of a payment.
LEMMA SubMade ==
  ASSUME NEW type \in {"subscription.created", "subscription.updated", "subscription.canceled"},
         NEW custom \in OrgIds \cup Customs \cup {0}, NEW price \in Prices, NEW ending \in BOOLEAN,
         NEW status \in Outcomes \cup {"active", "trialing", "canceled", "completed"}, NEW e
  PROVE  RawFits(RawSub(type, custom, 1, price, status, ending), e)
<1> DEFINE r == RawSub(type, custom, 1, price, status, ending)
<1>1. r.type = type /\ r.price = price
  BY DEF RawSub
<1>2. KindOf(type) = "subscription"
  BY KindNames
<1> HIDE DEF OrgIds
<1>3. r \in Raw
  BY DEF RawSub, Raw
<1> HIDE DEF r
<1>4. RawFits(r, e)
  BY <1>1, <1>2, <1>3 DEF RawFits
<1> QED BY <1>4 DEF r

LEMMA PaymentMade ==
  ASSUME NEW type \in {"transaction.completed", "transaction.paid", "adjustment.created"},
         NEW custom \in OrgIds \cup Customs \cup {0}, NEW x \in Nat, NEW e,
         type # "adjustment.created" => x = e
  PROVE  RawFits(RawPayment(type, custom, 1, x), e)
<1> DEFINE r == RawPayment(type, custom, 1, x)
<1>1. r.type = type /\ r.pay = x /\ r.status = "completed"
  BY DEF RawPayment
<1>2. KindOf(type) # "subscription" /\ (KindOf(type) = "payment" => type # "adjustment.created")
  BY KindNames
<1> HIDE DEF OrgIds
<1>3. r \in Raw
  BY DEF RawPayment, Raw
<1> HIDE DEF r
<1>4. RawFits(r, e)
  BY <1>1, <1>2, <1>3 DEF RawFits
<1> QED BY <1>4 DEF r

LEMMA BillsStep ==
  ASSUME Mirrors, NEW o \in DOMAIN orgs, NEW custom \in {o} \cup Customs, NEW status \in Outcomes,
         ProviderBills(o, custom, status)
  PROVE  MirrorInv'
<1>1. o = 1 /\ custom \in OrgIds \cup Customs \cup {0} /\ EventsFit
  BY MirrorFacts
<1>2. Current(1) \in Raw /\ Current(1).price \in Prices
  BY <1>1, CurrentFits DEF ProviderBills
<1>3. Len(sent) + 1 \in Nat
  BY <1>1, BoundKnown
<1>4. Grows
  <2>1. CASE status = "paid"
    <3>1. PICK r : r = RawPayment("transaction.paid", custom, 1, Len(sent) + 1)
      OBVIOUS
    <3>2. RawFits(r, Len(sent) + 1)
      BY <3>1, <1>1, <1>3, PaymentMade
    <3>3. Emit(<<r>>)
      BY <2>1, <3>1, <1>1 DEF ProviderBills
    <3> QED BY <1>1, <3>2, <3>3, OneMade
  <2>2. CASE status # "paid"
    <3>1. PICK r : r = RawSub("subscription.updated", custom, 1, Current(1).price, status, FALSE)
      OBVIOUS
    <3>2. RawFits(r, Len(sent) + 1)
      BY <3>1, <1>1, <1>2, SubMade
    <3>3. Emit(<<r>>)
      BY <2>2, <3>1, <1>1 DEF ProviderBills
    <3> QED BY <1>1, <3>2, <3>3, OneMade
  <2> QED BY <2>1, <2>2
<1>5. UNCHANGED <<topic, vendor, orgs, req, subs, payments, override, hookVars>>
  BY DEF ProviderBills, memberVars, orgVars
<1> QED BY <1>4, <1>5, MirrorFacts, MadeStep

LEMMA CheckoutStep ==
  ASSUME Mirrors, NEW c \in Clients, NEW p \in Principals, NEW plan \in Plans,
         CreateBillingCheckout(c, p, plan)
  PROVE  MirrorInv'
<1>1. p.org = 1 /\ EventsFit /\ 1 \in OrgIds
  BY MirrorFacts, PrincipalFacts
<1>2. UNCHANGED <<topic, vendor, orgs, req, subs, payments, override, hookVars>>
  BY DEF CreateBillingCheckout, BillingUnchanged, Refuse, Once
<1>3. Len(sent) + 1 \in Nat /\ Len(sent) + 2 \in Nat
  BY <1>1, BoundKnown
<1>4. Grows \/ UNCHANGED sent
  <2>1. CASE UNCHANGED sent
    BY <2>1
  <2>2. ASSUME NEW price \in priceFor(plan, trialEligible(p.user, orgPlan(p.org))),
               Emit(<<RawSub("subscription.created", p.org, p.org, price,
                             IF price.trial THEN "trialing" ELSE "active", FALSE),
                      RawPayment("transaction.completed", p.org, p.org, Len(sent) + 2)>>)
        PROVE  Grows
    <3>1. price \in Prices
      BY <2>2 DEF priceFor
    <3>2. PICK status \in {"trialing", "active"} : status = IF price.trial THEN "trialing" ELSE "active"
      OBVIOUS
    <3>3. PICK r : r = RawSub("subscription.created", 1, 1, price, status, FALSE)
      OBVIOUS
    <3>4. PICK q : q = RawPayment("transaction.completed", 1, 1, Len(sent) + 2)
      OBVIOUS
    <3>5. RawFits(r, Len(sent) + 1)
      BY <3>1, <3>3, <1>1, SubMade
    <3>6. RawFits(q, Len(sent) + 2)
      BY <3>4, <1>1, <1>3, PaymentMade
    <3>7. Emit(<<r, q>>)
      BY <2>2, <3>2, <3>3, <3>4, <1>1
    <3> QED BY <1>1, <3>5, <3>6, <3>7, TwoMade
  <2> QED BY <2>1, <2>2 DEF CreateBillingCheckout
<1> QED BY <1>2, <1>4, MirrorFacts, MadeStep

LEMMA PortalStep ==
  ASSUME Mirrors, NEW c \in Clients, NEW p \in Principals, CreateBillingPortal(c, p)
  PROVE  MirrorInv'
<1>1. p.org = 1 /\ EventsFit /\ 1 \in OrgIds /\ RowsFit
  BY MirrorFacts, PrincipalFacts
<1>2. UNCHANGED <<topic, vendor, orgs, req, subs, payments, override, hookVars>>
  BY DEF CreateBillingPortal, BillingUnchanged, Refuse, Once
<1>3. Grows \/ UNCHANGED sent
  <2>1. CASE UNCHANGED sent
    BY <2>1
  <2>2. ASSUME subs[1] # None,
               Emit(<<RawSub("subscription.canceled", 1, 1, Current(1).price, "canceled", FALSE)>>)
        PROVE  Grows
    <3>1. Current(1).price \in Prices
      BY <2>2, <1>1, CurrentFits DEF RowsFit
    <3>2. PICK r : r = RawSub("subscription.canceled", 1, 1, Current(1).price, "canceled", FALSE)
      OBVIOUS
    <3>3. RawFits(r, Len(sent) + 1)
      BY <3>1, <3>2, <1>1, SubMade
    <3> QED BY <2>2, <1>1, <3>2, <3>3, OneMade
  <2> QED BY <2>1, <2>2, <1>1 DEF CreateBillingPortal, GetSubscriptionByOrg
<1> QED BY <1>2, <1>3, MirrorFacts, MadeStep

LEMMA RequestOrg ==
  ASSUME Mirrors, NEW c \in Clients, NEW r, req' = [req EXCEPT ![c] = r], OrderFits(r)
  PROVE  \A d \in Clients : OrderFits(req'[d])
<1>1. req \in [Clients -> SeatReq \cup {None}]
  BY MirrorFacts DEF TypeOK, ReqOf
<1>2. \A d \in Clients : req'[d] = IF d = c THEN r ELSE req[d]
  BY <1>1
<1> QED BY <1>2, MirrorFacts

LEMMA CancelStep ==
  ASSUME Mirrors, NEW c \in Clients, NEW u \in Users, NEW o \in OrgIds,
         NEW when \in {"cancelNow", "cancelAtEnd"}, CancelAdminOrgSubscription(c, u, o, when)
  PROVE  MirrorInv'
<1>1. EventsFit /\ 1 \in OrgIds /\ RowsFit
  BY MirrorFacts
<1>2. UNCHANGED <<topic, vendor, orgs, subs, payments, override, hookVars>>
  BY DEF CancelAdminOrgSubscription, BillingUnchanged
<1>3. CASE Refuse(c) /\ UNCHANGED sent
  BY <1>2, <1>3, MirrorFacts, MadeStep DEF Refuse
<1>4. CASE /\ GetSubscriptionByOrg(o) # None /\ Begin(c, AdminRequest(when, u, o, None))
           /\ IF vendor = "paddle"
              THEN Emit(<<IF when = "cancelNow"
                          THEN RawSub("subscription.canceled", o, o, Current(o).price, "canceled", FALSE)
                          ELSE RawSub("subscription.updated", o, o, Current(o).price, Current(o).status, TRUE)>>)
              ELSE UNCHANGED sent
  <2>1. o = 1 /\ Subscribed(1) # {}
    BY <1>4, <1>1 DEF RowsFit, GetSubscriptionByOrg
  <2>2. Current(1) \in Raw /\ Current(1).price \in Prices
    BY <1>1, <2>1, CurrentFits
  <2>3. Grows \/ UNCHANGED sent
    <3>1. CASE vendor # "paddle"
      BY <1>4, <3>1
    <3>2. CASE vendor = "paddle" /\ when = "cancelNow"
      <4>1. PICK r : r = RawSub("subscription.canceled", 1, 1, Current(1).price, "canceled", FALSE)
        OBVIOUS
      <4>2. RawFits(r, Len(sent) + 1)
        BY <2>2, <4>1, <1>1, SubMade
      <4> QED BY <1>4, <3>2, <1>1, <2>1, <4>1, <4>2, OneMade
    <3>3. CASE vendor = "paddle" /\ when # "cancelNow"
      <4>1. PICK r : r = RawSub("subscription.updated", 1, 1, Current(1).price, Current(1).status, TRUE)
        OBVIOUS
      <4>2. RawFits(r, Len(sent) + 1)
        BY <2>2, <4>1, <1>1, SubMade, StatusesTyped
      <4> QED BY <1>4, <3>3, <1>1, <2>1, <4>1, <4>2, OneMade
    <3> QED BY <3>1, <3>2, <3>3
  <2>4. PICK r : r = AdminRequest(when, u, o, None)
    OBVIOUS
  <2>5. OrderFits(r) /\ req' = [req EXCEPT ![c] = r]
    BY <1>4, <2>1, <2>4 DEF AdminRequest, Begin, Hold, OrderFits
  <2>6. \A d \in Clients : OrderFits(req'[d])
    BY <2>5, RequestOrg
  <2> QED BY <1>2, <2>3, <2>6, MirrorFacts, MadeStep
<1> QED BY <1>3, <1>4 DEF CancelAdminOrgSubscription

LEMMA RefundStep ==
  ASSUME Mirrors, NEW c \in Clients, NEW u \in Users, NEW x \in DOMAIN payments, NEW partial \in BOOLEAN,
         RefundAdminOrgPayment(c, u, x, partial)
  PROVE  MirrorInv'
<1>1. EventsFit /\ 1 \in OrgIds /\ RowsFit
  BY MirrorFacts
<1>2. UNCHANGED <<topic, vendor, orgs, req, subs, payments, override, hookVars>>
  BY DEF RefundAdminOrgPayment, BillingUnchanged, Refuse, Once
<1>3. x \in Nat
  BY <1>1, BoundKnown DEF RowsFit
<1>4. Grows \/ UNCHANGED sent
  <2>1. CASE UNCHANGED sent
    BY <2>1
  <2>2. ASSUME payments[x] # None, Emit(<<RawPayment("adjustment.created", 0, payments[x].org, x)>>)
        PROVE  Grows
    <3>1. payments[x].org = 1
      BY <2>2, <1>1 DEF RowsFit
    <3>2. PICK r : r = RawPayment("adjustment.created", 0, 1, x)
      OBVIOUS
    <3>3. RawFits(r, Len(sent) + 1)
      BY <3>2, <1>3, PaymentMade
    <3> QED BY <2>2, <1>1, <3>1, <3>2, <3>3, OneMade
  <2> QED BY <2>1, <2>2 DEF RefundAdminOrgPayment
<1> QED BY <1>2, <1>4, MirrorFacts, MadeStep

\* A webhook request that ends, or moves on to a step it may be at.
LEMMA HookMoves ==
  ASSUME EventsFit, HooksFit, Keeps, NEW w \in Hooks, NEW h, hook' = [hook EXCEPT ![w] = h],
         \/ h = None
         \/ \E e \in DOMAIN sent, pc \in {"act", "apply", "mark", "gone"}, o \in {0, 1} :
              h = HookRow(e, pc, o) /\ StepFits(e, pc, o)'
  PROVE  HooksFit'
<1>1. hook = [v \in Hooks |-> hook[v]] /\ \A v \in Hooks : HookFits(v)
  BY DEF HooksFit
<1>2. \A v \in Hooks : hook'[v] = IF v = w THEN h ELSE hook[v]
  BY <1>1
<1>3. hook' = [v \in Hooks |-> hook'[v]]
  BY <1>1
<1>4. HookFits(w)'
  <2>1. CASE h = None
    BY <1>2, <2>1 DEF HookFits
  <2>2. ASSUME NEW e \in DOMAIN sent, NEW pc \in {"act", "apply", "mark", "gone"}, NEW o \in {0, 1},
               h = HookRow(e, pc, o), StepFits(e, pc, o)'
        PROVE  HookFits(w)'
    <3>1. e \in DOMAIN sent' /\ sent'[e] = sent[e] /\ VerifyWebhook(sent[e])' = VerifyWebhook(sent[e])
      BY DEF Keeps, VerifyWebhook, stubEvent, mapSubscription
    <3>2. HookRow(e, pc, o)' = HookRow(e, pc, o)
      BY <3>1 DEF HookRow
    <3>3. hook'[w] = HookRow(e, pc, o)'
      BY <1>2, <2>2, <3>2
    <3> QED BY <2>2, <3>1, <3>3 DEF HookFits
  <2> QED BY <2>1, <2>2
<1>5. \A v \in Hooks : v # w => HookFits(v)'
  BY <1>1, <1>2, HookKept
<1> QED BY <1>3, <1>4, <1>5 DEF HooksFit

\* What a request knows of its event.
LEMMA HookFacts ==
  ASSUME Mirrors, NEW w \in Hooks, hook[w] # None
  PROVE  \E e \in DOMAIN sent, pc \in {"act", "apply", "mark", "gone"}, o \in {0, 1} :
           /\ hook[w] = HookRow(e, pc, o) /\ StepFits(e, pc, o)
           /\ hook[w].id = e /\ hook[w].pc = pc /\ hook[w].org = o
           /\ hook[w].ev = VerifyWebhook(sent[e])
           /\ hook[w].ev.kind = Kind(e) /\ hook[w].ev.org = sent[e].custom
           /\ hook[w].ev.customer = 1 /\ hook[w].ev.pay = sent[e].pay /\ hook[w].ev.status = sent[e].status
<1>1. PICK e \in DOMAIN sent, pc \in {"act", "apply", "mark", "gone"}, o \in {0, 1} :
        hook[w] = HookRow(e, pc, o) /\ StepFits(e, pc, o)
  BY MirrorFacts DEF HooksFit, HookFits
<1>2. hook[w].id = e /\ hook[w].pc = pc /\ hook[w].org = o /\ hook[w].ev = VerifyWebhook(sent[e])
  BY <1>1 DEF HookRow
<1>3. sent[e] \in Raw
  BY ElementOfSeq, BoundKnown, MirrorFacts DEF EventsFit
<1>4. sent[e].customer = 1
  BY <1>3 DEF Raw
<1>5. PICK ev : ev = VerifyWebhook(sent[e])
  OBVIOUS
<1>6. ev.kind = Kind(e) /\ ev.org = sent[e].custom /\ ev.customer = 1 /\ ev.pay = sent[e].pay
      /\ ev.status = sent[e].status
  <2>1. PICK m : m = mapSubscription(sent[e])
    OBVIOUS
  <2>2. m.kind = Kind(e) /\ m.org = sent[e].custom /\ m.customer = 1 /\ m.pay = sent[e].pay
        /\ m.status = sent[e].status
    BY <2>1, <1>4 DEF mapSubscription, Kind
  <2>3. CASE ev = m
    BY <2>2, <2>3
  <2>4. CASE ev = [m EXCEPT !.plan = IF sent[e].price = None THEN "" ELSE sent[e].price.plan]
    <3>1. ev.kind = m.kind /\ ev.org = m.org /\ ev.customer = m.customer /\ ev.pay = m.pay /\ ev.status = m.status
      BY <2>1, <2>4 DEF mapSubscription
    <3> QED BY <2>2, <3>1
  <2> QED BY <1>5, <2>1, <2>3, <2>4 DEF VerifyWebhook, stubEvent
<1> QED BY <1>1, <1>2, <1>5, <1>6

\* A step of a webhook that leaves the rows alone.
LEMMA HookStep ==
  ASSUME Mirrors, NEW w \in Hooks, NEW h, hook' = [hook EXCEPT ![w] = h], NEW e \in DOMAIN sent,
         \/ h = None
         \/ \E pc \in {"act", "apply", "mark", "gone"}, o \in {0, 1} :
              h = HookRow(e, pc, o) /\ StepFits(e, pc, o)',
         processed' = processed \/ (processed' = processed \cup {e} /\ Settled(e)),
         unresolved \subseteq unresolved',
         UNCHANGED <<topic, vendor, orgs, req, subs, payments, sent, override, newest, stale>>
  PROVE  MirrorInv'
<1>1. EventsFit /\ HooksFit /\ ProcessedFit /\ RowsFit /\ PlanFits /\ 1 \in OrgIds
  BY MirrorFacts
<1>2. Keeps
  BY <1>1 DEF Keeps, PlanFits
<1>3. EventsFit'
  BY <1>1 DEF EventsFit, EventFits, Kind, Subscribed, IsCurrent
<1>4. HooksFit'
  BY <1>1, <1>2, HookMoves
<1>5. ProcessedFit'
  BY <1>1, <1>2, ProcessedKept
<1>6. RowsFit'
  BY <1>1 DEF RowsFit, OrderFits, Subscribed
<1>7. PlanFits'
  BY <1>1 DEF PlanFits, Kind, Foreign, VerifyWebhook, stubEvent, mapSubscription, EventPlan
<1> QED BY MirrorFacts, <1>3, <1>4, <1>5, <1>6, <1>7 DEF MirrorInv

LEMMA ServeStep ==
  ASSUME Mirrors, NEW w \in Hooks, NEW e \in DOMAIN sent, ServeHTTP(w, e)
  PROVE  MirrorInv'
<1>1. UNCHANGED <<topic, vendor, orgs, req, subs, payments, sent, override, newest, stale, processed, unresolved>>
  BY DEF ServeHTTP, memberVars, orgVars
<1>2. CASE hook' = [hook EXCEPT ![w] = [id |-> e, ev |-> VerifyWebhook(sent[e]), pc |-> "act", org |-> 0]]
  <2>1. hook' = [hook EXCEPT ![w] = HookRow(e, "act", 0)]
    BY <1>2 DEF HookRow
  <2>2. StepFits(e, "act", 0)'
    BY DEF StepFits
  <2> QED BY <1>1, <2>1, <2>2, HookStep
<1>3. CASE UNCHANGED hook
  <2>1. hook[w] = None /\ hook = [v \in Hooks |-> hook[v]]
    BY MirrorFacts DEF ServeHTTP, HooksFit
  <2>2. hook' = [hook EXCEPT ![w] = None]
    BY <1>3, <2>1
  <2> QED BY <1>1, <2>2, HookStep
<1> QED BY <1>2, <1>3 DEF ServeHTTP

LEMMA FailStep ==
  ASSUME Mirrors, NEW w \in Hooks, HookFails(w)
  PROVE  MirrorInv'
<1>1. PICK e \in DOMAIN sent : hook[w].id = e
  BY HookFacts DEF HookFails
<1>2. hook' = [hook EXCEPT ![w] = None]
      /\ UNCHANGED <<topic, vendor, orgs, req, subs, payments, sent, override, newest, stale, processed, unresolved>>
  BY DEF HookFails, HookEnd, memberVars, orgVars
<1> QED BY <1>1, <1>2, HookStep

LEMMA MarkStep ==
  ASSUME Mirrors, NEW w \in Hooks, MarkBillingEventProcessed(w)
  PROVE  MirrorInv'
<1>1. PICK e \in DOMAIN sent, pc \in {"act", "apply", "mark", "gone"}, o \in {0, 1} :
        StepFits(e, pc, o) /\ hook[w].id = e /\ hook[w].pc = pc
  BY HookFacts DEF MarkBillingEventProcessed, HookAt
<1>2. Settled(e)
  BY <1>1 DEF MarkBillingEventProcessed, HookAt, StepFits, Settled
<1>3. hook' = [hook EXCEPT ![w] = None]
      /\ UNCHANGED <<topic, vendor, orgs, req, subs, payments, sent, override, newest, stale, unresolved>>
  BY DEF MarkBillingEventProcessed, Answer200, HookEnd, memberVars, orgVars
<1>4. processed' = processed \/ processed' = processed \cup {e}
  BY <1>1 DEF MarkBillingEventProcessed
<1> QED BY <1>2, <1>3, <1>4, HookStep

\* Moving a request on keeps the rest of it.
HookSet(w, h)   == hook' = [hook EXCEPT ![w] = h]
HookFinds(w, o) == hook' = [hook EXCEPT ![w].pc = "apply", ![w].org = o]

LEMMA HookWent ==
  ASSUME Mirrors, NEW w \in Hooks, NEW e, NEW pc, NEW o, hook[w] = HookRow(e, pc, o), NEW pc2, HookGo(w, pc2)
  PROVE  HookSet(w, HookRow(e, pc2, o))
<1>1. hook = [v \in Hooks |-> hook[v]]
  BY MirrorFacts DEF HooksFit
<1>2. PICK r : r = hook[w]
  OBVIOUS
<1>3. PICK ev : ev = VerifyWebhook(sent[e])
  OBVIOUS
<1>4. r = [id |-> e, ev |-> ev, pc |-> pc, org |-> o]
  BY <1>2, <1>3 DEF HookRow
<1>5. [r EXCEPT !.pc = pc2] = [id |-> e, ev |-> ev, pc |-> pc2, org |-> o]
  BY <1>4
<1> QED BY <1>1, <1>2, <1>3, <1>5 DEF HookRow, HookGo, HookSet

LEMMA HookFound ==
  ASSUME Mirrors, NEW w \in Hooks, NEW e, NEW pc, NEW o, hook[w] = HookRow(e, pc, o), NEW o2, HookFinds(w, o2)
  PROVE  HookSet(w, HookRow(e, "apply", o2))
<1>1. hook = [v \in Hooks |-> hook[v]]
  BY MirrorFacts DEF HooksFit
<1>2. PICK r : r = hook[w]
  OBVIOUS
<1>3. PICK ev : ev = VerifyWebhook(sent[e])
  OBVIOUS
<1>4. r = [id |-> e, ev |-> ev, pc |-> pc, org |-> o]
  BY <1>2, <1>3 DEF HookRow
<1>5. [r EXCEPT !.pc = "apply"] = [id |-> e, ev |-> ev, pc |-> "apply", org |-> o]
  BY <1>4
<1>6. PICK g : g = [hook EXCEPT ![w].pc = "apply"]
  OBVIOUS
<1>7. g = [v \in Hooks |-> g[v]] /\ g[w] = [id |-> e, ev |-> ev, pc |-> "apply", org |-> o]
      /\ \A v \in Hooks : v # w => g[v] = hook[v]
  BY <1>1, <1>2, <1>5, <1>6
<1>8. PICK q : q = g[w]
  OBVIOUS
<1>9. [q EXCEPT !.org = o2] = [id |-> e, ev |-> ev, pc |-> "apply", org |-> o2]
  BY <1>7, <1>8
<1>10. hook' = [g EXCEPT ![w].org = o2]
  BY <1>6 DEF HookFinds
<1> QED BY <1>1, <1>3, <1>7, <1>8, <1>9, <1>10 DEF HookRow, HookSet

LEMMA ResolveStep ==
  ASSUME Mirrors, NEW w \in Hooks, resolveOrg(w)
  PROVE  MirrorInv'
<1>1. PICK e \in DOMAIN sent, pc \in {"act", "apply", "mark", "gone"}, o \in {0, 1} :
        /\ hook[w] = HookRow(e, pc, o) /\ hook[w].id = e
        /\ hook[w].ev.kind = Kind(e) /\ hook[w].ev.org = sent[e].custom /\ hook[w].ev.customer = 1
  BY HookFacts DEF resolveOrg, HookAt
<1>2. UNCHANGED <<topic, vendor, orgs, req, subs, payments, sent, override, newest, stale, processed>>
  BY DEF resolveOrg, memberVars, orgVars
<1>3. CASE Kind(e) = "unknown" /\ HookGo(w, "mark") /\ UNCHANGED unresolved
  <2>1. hook' = [hook EXCEPT ![w] = HookRow(e, "mark", o)]
    BY <1>1, <1>3, HookWent DEF HookSet
  <2>2. StepFits(e, "mark", o)'
    BY <1>2, <1>3 DEF StepFits, Settled, Kind
  <2> QED BY <1>2, <1>3, <2>1, <2>2, HookStep
<1>4. CASE HookGo(w, "mark") /\ unresolved' = unresolved \cup {e}
  <2>1. hook' = [hook EXCEPT ![w] = HookRow(e, "mark", o)]
    BY <1>1, <1>4, HookWent DEF HookSet
  <2>2. StepFits(e, "mark", o)'
    BY <1>4 DEF StepFits, Settled
  <2> QED BY <1>2, <1>4, <2>1, <2>2, HookStep
<1>5. ASSUME sent[e].custom = 0, NEW o2 \in OrgByCustomer(1), UNCHANGED unresolved, HookFinds(w, o2)
      PROVE  MirrorInv'
  <2>1. o2 = 1
    BY <1>5, MirrorFacts DEF OrgByCustomer, RowsFit
  <2>2. hook' = [hook EXCEPT ![w] = HookRow(e, "apply", 1)]
    BY <1>1, <1>5, <2>1, HookFound DEF HookSet
  <2>3. StepFits(e, "apply", 1)'
    BY <1>2, <1>5 DEF StepFits
  <2> QED BY <1>2, <1>5, <2>2, <2>3, HookStep
<1> QED BY <1>1, <1>3, <1>4, <1>5 DEF resolveOrg, HookFinds

\* A step that writes rows.
LEMMA RowStep ==
  ASSUME Mirrors, UNCHANGED <<topic, vendor, sent, processed>>, Keeps, HooksFit', RowsFit', PlanFits'
  PROVE  MirrorInv'
<1>1. EventsFit /\ ProcessedFit /\ topic = "seats"
  BY MirrorFacts
<1>2. EventsFit'
  BY <1>1 DEF EventsFit, EventFits, Kind, Subscribed, IsCurrent
<1>3. \A f \in processed : f \in DOMAIN sent /\ Settled(f)
  BY <1>1 DEF ProcessedFit
<1>4. ProcessedFit'
  BY <1>1, <1>3, SettledKept DEF ProcessedFit, Keeps
<1> QED BY <1>1, <1>2, <1>4 DEF MirrorInv

\* The plan of the one org, once it is written.
LEMMA PlanWritten ==
  ASSUME Mirrors, NEW plan \in Plans, SetOrganizationPlan(1, plan)
  PROVE  DOMAIN orgs' = DOMAIN orgs /\ orgs'[1].plan = plan
<1>1. 1 \in DOMAIN orgs
  BY MirrorFacts
<1> QED BY <1>1, PlanSet DEF Mirrors

LEMMA Resolved ==
  ASSUME Mirrors, NEW w \in Hooks, NEW e \in DOMAIN sent, NEW kind, Applying(w, kind),
         hook[w].ev.org = sent[e].custom, \E pc \in {"act", "apply", "mark", "gone"}, o \in {0, 1} :
           hook[w].pc = pc /\ hook[w].org = o /\ StepFits(e, pc, o)
  PROVE  /\ OrgOf(w) \in DOMAIN orgs => OrgOf(w) = 1 /\ ~ Foreign(e)
         /\ OrgOf(w) \notin DOMAIN orgs => Foreign(e)
<1>1. DOMAIN orgs = {1}
  BY MirrorFacts
<1>2. CASE sent[e].custom # 0
  BY <1>1, <1>2 DEF OrgOf, Foreign
<1>3. CASE sent[e].custom = 0
  <2>1. OrgOf(w) = 1
    BY <1>3 DEF OrgOf, Applying, HookAt, StepFits
  <2> QED BY <2>1, <1>1, <1>3 DEF Foreign
<1> QED BY <1>2, <1>3

LEMMA ApplyPaymentStep ==
  ASSUME Mirrors, NEW w \in Hooks, ApplyPaymentEvent(w)
  PROVE  MirrorInv'
<1>1. PICK e \in DOMAIN sent, pc \in {"act", "apply", "mark", "gone"}, o \in {0, 1} :
        /\ hook[w] = HookRow(e, pc, o) /\ StepFits(e, pc, o) /\ hook[w].pc = pc /\ hook[w].org = o
        /\ hook[w].ev.kind = Kind(e) /\ hook[w].ev.org = sent[e].custom
        /\ hook[w].ev.pay = sent[e].pay /\ hook[w].ev.status = sent[e].status
  BY HookFacts DEF ApplyPaymentEvent, Applying, HookAt
<1>2. UNCHANGED <<topic, vendor, orgs, req, subs, sent, override, newest, stale, processed, unresolved>>
  BY DEF ApplyPaymentEvent, memberVars, orgVars
<1>3. EventsFit /\ HooksFit /\ RowsFit /\ PlanFits /\ 1 \in OrgIds /\ DOMAIN orgs = {1}
  BY MirrorFacts
<1>4. Kind(e) = "payment"
  BY <1>1 DEF ApplyPaymentEvent, Applying
<1>5. /\ OrgOf(w) \in DOMAIN orgs => OrgOf(w) = 1
      /\ OrgOf(w) \notin DOMAIN orgs => Foreign(e)
  BY <1>1, Resolved DEF ApplyPaymentEvent
<1>6. CASE OrgOf(w) \notin DOMAIN orgs
  <2>1. UNCHANGED payments /\ HookGo(w, "gone")
    BY <1>6 DEF ApplyPaymentEvent
  <2>2. hook' = [hook EXCEPT ![w] = HookRow(e, "gone", o)]
    BY <1>1, <2>1, HookWent DEF HookSet
  <2>3. StepFits(e, "gone", o)'
    BY <1>2, <1>5, <1>6 DEF StepFits, Foreign
  <2> QED BY <1>2, <2>1, <2>2, <2>3, HookStep
<1>7. CASE OrgOf(w) \in DOMAIN orgs
  <2>1. sent[e].pay = e /\ sent[e].status = "completed" /\ e <= MaxEvents[vendor]
    BY <1>3, <1>4 DEF EventsFit, EventFits
  <2>2. PICK row : row = [org |-> 1, status |-> "completed"]
    OBVIOUS
  <2>3. payments' = [payments EXCEPT ![e] = row] /\ HookGo(w, "mark")
    BY <1>1, <1>5, <1>7, <2>1, <2>2 DEF ApplyPaymentEvent
  <2>4. row # None /\ row.org = 1
    BY <2>2, <1>3, BillingAssumption
  <2>5. e \in 1..MaxEvents[vendor]
    BY <2>1, <1>3, BoundKnown
  <2>6. payments = [x \in 1..MaxEvents[vendor] |-> payments[x]]
    BY <1>3 DEF RowsFit
  <2>7. /\ payments' = [x \in 1..MaxEvents[vendor] |-> payments'[x]]
        /\ \A x \in 1..MaxEvents[vendor] : payments'[x] = IF x = e THEN row ELSE payments[x]
    BY <2>3, <2>5, <2>6
  <2>8. \A f \in DOMAIN sent : Kind(f) = "payment" /\ payments[f] # None => payments'[f] # None
    <3> SUFFICES ASSUME NEW f \in DOMAIN sent, Kind(f) = "payment", payments[f] # None
                 PROVE  payments'[f] # None
      OBVIOUS
    <3>1. f \in 1..MaxEvents[vendor]
      BY <1>3, BoundKnown DEF EventsFit, EventFits
    <3> QED BY <3>1, <2>4, <2>7
  <2>9. Keeps
    BY <1>2, <1>3, <2>8 DEF Keeps, PlanFits
  <2>10. StepFits(e, "mark", o)'
    BY <1>2, <1>4, <2>4, <2>5, <2>7 DEF StepFits, Settled, Kind
  <2>11. hook' = [hook EXCEPT ![w] = HookRow(e, "mark", o)]
    BY <1>1, <2>3, HookWent DEF HookSet
  <2>12. HooksFit'
    BY <1>3, <2>9, <2>10, <2>11, HookMoves
  <2>13. RowsFit'
    <3>1. \A x \in DOMAIN payments' : payments'[x] # None => payments'[x].org = 1
      BY <1>3, <2>4, <2>6, <2>7 DEF RowsFit
    <3>2. payments' = [x \in 1..MaxEvents[vendor'] |-> payments'[x]]
      BY <2>7, <1>2
    <3> QED BY <1>2, <1>3, <3>1, <3>2 DEF RowsFit, OrderFits, Subscribed
  <2>14. PlanFits'
    BY <1>2, <1>3 DEF PlanFits, Kind, Foreign, VerifyWebhook, stubEvent, mapSubscription, EventPlan
  <2> QED BY <1>2, <2>9, <2>12, <2>13, <2>14, RowStep
<1> QED BY <1>6, <1>7

LEMMA ApplySubscriptionStep ==
  ASSUME Mirrors, NEW w \in Hooks, ApplySubscriptionEvent(w)
  PROVE  MirrorInv'
<1>1. PICK e \in DOMAIN sent, pc \in {"act", "apply", "mark", "gone"}, o \in {0, 1} :
        /\ hook[w] = HookRow(e, pc, o) /\ StepFits(e, pc, o) /\ hook[w].pc = pc /\ hook[w].org = o
        /\ hook[w].id = e /\ hook[w].ev = VerifyWebhook(sent[e])
        /\ hook[w].ev.kind = Kind(e) /\ hook[w].ev.org = sent[e].custom
  BY HookFacts DEF ApplySubscriptionEvent, Applying, HookAt
<1>2. UNCHANGED <<topic, vendor, req, payments, sent, processed, unresolved>>
  BY DEF ApplySubscriptionEvent
<1>3. EventsFit /\ HooksFit /\ RowsFit /\ PlanFits /\ 1 \in OrgIds /\ DOMAIN orgs = {1}
  BY MirrorFacts
<1>4. Kind(e) = "subscription"
  BY <1>1 DEF ApplySubscriptionEvent, Applying
<1>5. OrgOf(w) \in DOMAIN orgs => OrgOf(w) = 1 /\ ~ Foreign(e)
  BY <1>1, Resolved DEF ApplySubscriptionEvent
<1>6. CASE OrgOf(w) \notin DOMAIN orgs
  <2>1. HookEnd(w) /\ UNCHANGED <<subs, orgs, newest, stale, override>>
    BY <1>6 DEF ApplySubscriptionEvent
  <2> QED BY <1>2, <2>1, HookStep DEF HookEnd
<1>7. CASE OrgOf(w) \in DOMAIN orgs
  <2>1. PICK ev : ev = VerifyWebhook(sent[e])
    OBVIOUS
  <2>2. /\ upsertSubscriptionTx(1, EventPlan(ev), ev) /\ SetOrganizationPlan(1, EventPlan(ev))
        /\ stale' = IF e < newest[1] THEN stale \cup {1} ELSE stale
        /\ newest' = [newest EXCEPT ![1] = e]
        /\ override' = override \ {1} /\ HookGo(w, "mark")
    BY <1>1, <1>5, <1>7, <2>1 DEF ApplySubscriptionEvent
  <2>3. EventPlan(ev) \in Plans
    BY DEF EventPlan, ParsePlan, Plans
  <2>4. DOMAIN orgs' = DOMAIN orgs /\ orgs'[1].plan = EventPlan(ev)
    BY <2>2, <2>3, PlanWritten
  <2>5. e \in Nat /\ e # 0
    BY <1>3, BoundKnown
  <2>6. newest' \in [OrgIds -> Nat] /\ newest'[1] = e /\ newest[1] \in Nat
    BY <1>3, <2>2, <2>5 DEF PlanFits
  <2>7. Keeps
    BY <1>2, <2>2, <2>4, <2>5, <2>6 DEF Keeps
  <2>8. StepFits(e, "mark", o)'
    BY <1>2, <1>4, <2>5, <2>6 DEF StepFits, Settled, Kind
  <2>9. hook' = [hook EXCEPT ![w] = HookRow(e, "mark", o)]
    BY <1>1, <2>2, HookWent DEF HookSet
  <2>10. HooksFit'
    BY <1>3, <2>7, <2>8, <2>9, HookMoves
  <2>11. RowsFit'
    <3>1. sent[e] \in Raw
      BY ElementOfSeq, BoundKnown, <1>3 DEF EventsFit
    <3>2. e \in Subscribed(1)
      BY <1>4, <3>1 DEF Subscribed, Kind, Raw
    <3>3. PICK row : subs' = [subs EXCEPT ![1] = row]
      BY <2>2 DEF upsertSubscriptionTx
    <3>4. subs' = [x \in OrgIds |-> subs'[x]] /\ \A x \in OrgIds : x # 1 => subs'[x] = subs[x]
      BY <3>3, <1>3 DEF RowsFit
    <3>5. Subscribed(1)' = Subscribed(1)
      BY <1>2 DEF Subscribed
    <3>6. \A c \in Clients : OrderFits(req[c])'
      BY <3>2, <3>5, <1>2, <1>3 DEF OrderFits, RowsFit
    <3>7. \A x \in OrgIds : subs'[x] # None => x = 1 /\ Subscribed(1)' # {}
      BY <3>2, <3>4, <3>5, <1>3 DEF RowsFit
    <3> QED BY <1>2, <1>3, <3>4, <3>6, <3>7 DEF RowsFit
  <2>12. PlanFits'
    <3>1. Kind(e)' = "subscription" /\ ~ Foreign(e)'
      BY <1>2, <1>4, <1>5, <1>7, <2>4 DEF Kind, Foreign
    <3>2. VerifyWebhook(sent[e])' = ev
      BY <2>1, <1>2 DEF VerifyWebhook, stubEvent, mapSubscription
    <3>3. EventPlan(VerifyWebhook(sent[e]))' = EventPlan(ev)
      BY <3>2 DEF EventPlan
    <3> QED BY <1>2, <2>4, <2>6, <3>1, <3>3 DEF PlanFits
  <2> QED BY <1>2, <2>7, <2>10, <2>11, <2>12, RowStep
<1> QED BY <1>6, <1>7

\* The subscription of the one org is written, the plan stays as it was or an
\* operator sets it, and the request goes on or ends.
LEMMA WriteStep ==
  ASSUME Mirrors, UNCHANGED <<topic, vendor, payments, sent, hookVars>>,
         subs' = [x \in OrgIds |-> subs'[x]], \A x \in OrgIds : x # 1 => subs'[x] = subs[x],
         subs' = subs \/ Subscribed(1) # {},
         \A d \in Clients : OrderFits(req'[d]),
         DOMAIN orgs' = DOMAIN orgs, override \subseteq override', orgs' = orgs \/ 1 \in override'
  PROVE  MirrorInv'
<1>1. EventsFit /\ HooksFit /\ RowsFit /\ PlanFits /\ 1 \in OrgIds /\ DOMAIN orgs = {1}
  BY MirrorFacts
<1>2. Keeps
  BY <1>1 DEF Keeps, PlanFits, hookVars
<1>3. HooksFit'
  BY <1>1, <1>2, HookKept DEF HooksFit, hookVars
<1>4. RowsFit'
  <2>1. Subscribed(1)' = Subscribed(1)
    BY DEF Subscribed
  <2>2. \A d \in Clients : OrderFits(req[d])'
    BY <2>1 DEF OrderFits
  <2>3. \A x \in OrgIds : subs'[x] # None => x = 1 /\ Subscribed(1)' # {}
    BY <1>1, <2>1 DEF RowsFit
  <2> QED BY <1>1, <2>2, <2>3 DEF RowsFit
<1>5. PlanFits'
  <2>1. newest' = newest
    BY DEF hookVars
  <2>2. PICK e : e = newest[1]
    OBVIOUS
  <2>3. VerifyWebhook(sent[e])' = VerifyWebhook(sent[e])
    BY DEF VerifyWebhook, stubEvent, mapSubscription
  <2>4. EventPlan(VerifyWebhook(sent[e]))' = EventPlan(VerifyWebhook(sent[e]))
    BY <2>3 DEF EventPlan
  <2> QED BY <1>1, <2>1, <2>2, <2>4 DEF PlanFits, Kind, Foreign
<1>6. UNCHANGED processed
  BY DEF hookVars
<1> QED BY <1>2, <1>3, <1>4, <1>5, <1>6, RowStep

LEMMA OrderStep ==
  ASSUME Mirrors, NEW c \in Clients, NEW u \in Users, NEW o \in OrgIds, NEW plan \in Plans,
         SetAdminOrgPlan(c, u, o, plan)
  PROVE  MirrorInv'
<1>1. UNCHANGED <<topic, vendor, orgs, subs, payments, sent, override, hookVars>>
  BY DEF SetAdminOrgPlan, BillingUnchanged, billVars
<1>2. DOMAIN orgs = {1} /\ RowsFit
  BY MirrorFacts
<1>3. CASE Refuse(c)
  BY <1>1, <1>3, MirrorFacts, MadeStep DEF Refuse
<1>4. CASE /\ o \in DOMAIN orgs
           /\ Begin(c, AdminRequest(IF GetSubscriptionByOrg(o) = None THEN "orgPlan" ELSE "subPlan", u, o, plan))
  <2>1. PICK r : r = AdminRequest(IF GetSubscriptionByOrg(o) = None THEN "orgPlan" ELSE "subPlan", u, o, plan)
    OBVIOUS
  <2>2. o = 1
    BY <1>2, <1>4
  <2>3. r.p.org = 1 /\ r.op = IF subs[1] = None THEN "orgPlan" ELSE "subPlan"
    BY <2>1, <2>2 DEF AdminRequest, GetSubscriptionByOrg
  <2>4. 1 \in OrgIds
    BY MirrorFacts
  <2>5. OrderFits(r)
    BY <2>3, <2>4, <1>2 DEF OrderFits, RowsFit
  <2>6. \A d \in Clients : OrderFits(req'[d])
    BY <1>4, <2>1, <2>5, RequestOrg DEF Begin, Hold
  <2> QED BY <1>1, <2>6, MirrorFacts, MadeStep
<1> QED BY <1>3, <1>4 DEF SetAdminOrgPlan

LEMMA WritesStep ==
  ASSUME Mirrors, NEW c \in Clients,
         \/ UpdateSubscriptionPlan(c) \/ setOrgPlan(c) \/ CancelSubscriptionNow(c)
         \/ SetSubscriptionCancelAtPeriodEnd(c)
  PROVE  MirrorInv'
<1>1. RowsFit /\ 1 \in OrgIds /\ DOMAIN orgs = {1} /\ req \in [Clients -> SeatReq \cup {None}]
  BY MirrorFacts DEF TypeOK, ReqOf
<1>2. req[c] # None /\ OrderFits(req[c]) /\ req[c].p.org = 1 /\ req[c] \in AdminReq
  <2>1. req[c] # None /\ req[c].op \in AdminOps
    BY DEF UpdateSubscriptionPlan, setOrgPlan, CancelSubscriptionNow, SetSubscriptionCancelAtPeriodEnd, At, AdminOps
  <2>2. req[c] \in InviteReq \/ req[c] \in AdminReq
    BY <1>1, <2>1 DEF SeatReq
  <2>3. req[c] \notin InviteReq
    BY <2>1, SMTT(30) DEF AdminOps, InviteReq, InviteOps
  <2> QED BY <1>1, <2>1, <2>2, <2>3, SMTT(30) DEF RowsFit, OrderFits
<1>3. UNCHANGED <<topic, vendor, payments, sent, hookVars>>
  BY DEF UpdateSubscriptionPlan, setOrgPlan, CancelSubscriptionNow, SetSubscriptionCancelAtPeriodEnd,
     BillingUnchanged
<1>4. Done(c) => \A d \in Clients : OrderFits(req'[d])
  BY RequestOrg DEF Done, OrderFits
<1>5. subs = [x \in OrgIds |-> subs[x]]
  BY <1>1 DEF RowsFit
<1>6. CASE UpdateSubscriptionPlan(c)
  <2>1. subs' = [subs EXCEPT ![1].plan = req[c].plan] /\ Subscribed(1) # {}
    BY <1>2, <1>6 DEF UpdateSubscriptionPlan, At, OrderFits, AdminOps
  <2>2. PICK v : v = [subs[1] EXCEPT !.plan = req[c].plan]
    OBVIOUS
  <2>3. subs' = [subs EXCEPT ![1] = v]
    BY <2>1, <2>2
  <2>4. subs' = [x \in OrgIds |-> subs'[x]] /\ \A x \in OrgIds : x # 1 => subs'[x] = subs[x]
    BY <1>5, <2>3
  <2>5. PICK r : r = [req[c] EXCEPT !.op = "orgPlan"]
    OBVIOUS
  <2>6. OrderFits(r)
    <3>1. PICK q \in AdminReq : q = req[c]
      BY <1>2
    <3>2. r = [q EXCEPT !.op = "orgPlan"]
      BY <2>5, <3>1
    <3>3. r.op = "orgPlan" /\ r.p = q.p
      BY <3>2 DEF AdminReq
    <3> QED BY <1>2, <3>1, <3>3 DEF OrderFits
  <2>7. req' = [req EXCEPT ![c] = r]
    BY <1>6, <2>5 DEF UpdateSubscriptionPlan, Goto
  <2>8. UNCHANGED <<orgs, override>>
    BY <1>6 DEF UpdateSubscriptionPlan, BillingUnchanged
  <2>9. \A d \in Clients : OrderFits(req'[d])
    BY <2>6, <2>7, RequestOrg
  <2> QED BY <1>3, <2>1, <2>4, <2>8, <2>9, WriteStep
<1>7. CASE setOrgPlan(c)
  <2>1. UNCHANGED subs /\ Done(c) /\ override' = override \cup {1} /\ SetOrganizationPlan(1, req[c].plan)
    BY <1>2, <1>7 DEF setOrgPlan
  <2>2. req[c].plan \in Plans
    BY <1>2, <1>7 DEF setOrgPlan, At, AdminReq
  <2>3. DOMAIN orgs' = DOMAIN orgs
    BY <2>1, <2>2, PlanWritten
  <2> QED BY <1>3, <1>4, <1>5, <2>1, <2>3, WriteStep
<1>8. CASE CancelSubscriptionNow(c)
  <2>1. /\ subs' = [subs EXCEPT ![1].status = "canceled", ![1].atEnd = FALSE,
                                ![1].ended = IF subs[1].status \in Running THEN "recent" ELSE @]
        /\ SetOrganizationPlan(1, "tier1") /\ override' = override \cup {1} /\ Done(c)
    BY <1>2, <1>8 DEF CancelSubscriptionNow
  <2>2. Subscribed(1) # {}
    BY <1>2, <1>8 DEF CancelSubscriptionNow, At, OrderFits, AdminOps
  <2>3. DOMAIN orgs' = DOMAIN orgs
    BY <2>1, PlanWritten DEF Plans
  <2>4. PICK f : f = [subs EXCEPT ![1].status = "canceled"]
    OBVIOUS
  <2>5. PICK g : g = [f EXCEPT ![1].atEnd = FALSE]
    OBVIOUS
  <2>6. f = [x \in OrgIds |-> f[x]] /\ \A x \in OrgIds : x # 1 => f[x] = subs[x]
    BY <1>5, <2>4
  <2>7. g = [x \in OrgIds |-> g[x]] /\ \A x \in OrgIds : x # 1 => g[x] = subs[x]
    BY <2>5, <2>6
  <2>8. PICK v : subs' = [g EXCEPT ![1].ended = v]
    <3>1. subs' = [g EXCEPT ![1].ended = IF subs[1].status \in Running THEN "recent" ELSE @]
      BY <2>1, <2>4, <2>5
    <3>2. subs' = [g EXCEPT ![1].ended = IF subs[1].status \in Running THEN "recent" ELSE g[1].ended]
      BY <3>1
    <3> QED BY <3>2
  <2>9. subs' = [x \in OrgIds |-> subs'[x]] /\ \A x \in OrgIds : x # 1 => subs'[x] = subs[x]
    BY <2>7, <2>8
  <2> QED BY <1>3, <1>4, <2>1, <2>2, <2>3, <2>9, WriteStep
<1>9. CASE SetSubscriptionCancelAtPeriodEnd(c)
  <2>1. subs' = [subs EXCEPT ![1].atEnd = TRUE] /\ Subscribed(1) # {} /\ Done(c)
    BY <1>2, <1>9 DEF SetSubscriptionCancelAtPeriodEnd, At, OrderFits, AdminOps
  <2>2. subs' = [x \in OrgIds |-> subs'[x]] /\ \A x \in OrgIds : x # 1 => subs'[x] = subs[x]
    BY <1>5, <2>1
  <2>3. UNCHANGED <<orgs, override>>
    BY <1>9 DEF SetSubscriptionCancelAtPeriodEnd, BillingUnchanged
  <2> QED BY <1>3, <1>4, <2>1, <2>2, <2>3, WriteStep
<1> QED BY <1>6, <1>7, <1>8, <1>9

\* A step of a member, or of the mail: no operator's request comes of it.
LEMMA InviteRequests ==
  ASSUME Mirrors, InviteNext
  PROVE  /\ UNCHANGED orgs
         /\ \A d \in Clients : req'[d] = req[d] \/ req'[d] = None \/ req'[d].op \in InviteOps
<1>1. req \in [Clients -> SeatReq \cup {None}]
  BY MirrorFacts DEF TypeOK, ReqOf
<1>2. ASSUME NEW c \in Clients, NEW r, r = None \/ r.op \in InviteOps, req' = [req EXCEPT ![c] = r]
      PROVE  \A d \in Clients : req'[d] = req[d] \/ req'[d] = None \/ req'[d].op \in InviteOps
  BY <1>1, <1>2
<1>3. ASSUME NEW c \in Clients, NEW op, NEW p, NEW i, NEW email, NEW role, NEW n, op \in InviteOps,
             Begin(c, InviteRequest(op, p, i, email, role, n))
      PROVE  \A d \in Clients : req'[d] = req[d] \/ req'[d] = None \/ req'[d].op \in InviteOps
  <2>1. PICK r : r = InviteRequest(op, p, i, email, role, n)
    OBVIOUS
  <2>2. r.op = op
    BY <2>1 DEF InviteRequest
  <2> QED BY <1>2, <1>3, <2>1, <2>2 DEF Begin, Hold
<1>4. ASSUME NEW c \in Clients, Done(c)
      PROVE  \A d \in Clients : req'[d] = req[d] \/ req'[d] = None \/ req'[d].op \in InviteOps
  BY <1>2, <1>4 DEF Done
<1>5. ASSUME NEW c \in Clients, NEW op \in InviteOps, req[c] # None, req[c].op \in InviteOps, Goto(c, op)
      PROVE  \A d \in Clients : req'[d] = req[d] \/ req'[d] = None \/ req'[d].op \in InviteOps
  <2>1. PICK r : r = [req[c] EXCEPT !.op = op]
    OBVIOUS
  <2>2. req[c] \in InviteReq
    BY <1>5, MirrorFacts, RequestFacts DEF Mirrors
  <2>3. r.op = op
    BY <2>1, <2>2 DEF InviteReq
  <2> QED BY <1>2, <1>5, <2>1, <2>3 DEF Goto
<1>6. ASSUME NEW c \in Clients,
             \/ \E p \in Principals, e \in InviteEmails, r \in {"viewer", "owner"} : CreateInvitation(c, p, e, r)
             \/ \E p \in Principals, i \in DOMAIN invites : RevokeInvitation(c, p, i) \/ ResendInvitation(c, p, i)
             \/ \E u \in Users, t \in mailed : AcceptInvitation(c, u, t)
      PROVE  /\ UNCHANGED orgs
             /\ \A d \in Clients : req'[d] = req[d] \/ req'[d] = None \/ req'[d].op \in InviteOps
  <2>1. "seats" \in InviteOps /\ "publish" \in InviteOps /\ "member" \in InviteOps
    BY DEF InviteOps
  <2>2. ASSUME NEW p \in Principals, NEW e \in InviteEmails, NEW r \in {"viewer", "owner"}, CreateInvitation(c, p, e, r)
        PROVE  UNCHANGED orgs /\ \A d \in Clients : req'[d] = req[d] \/ req'[d] = None \/ req'[d].op \in InviteOps
    <3>1. UNCHANGED orgs /\ (Refuse(c) \/ Begin(c, InviteRequest("seats", p, None, e, r, CountMembers(p.org))))
      BY <2>2 DEF CreateInvitation
    <3> QED BY <1>3, <2>1, <3>1 DEF Refuse
  <2>3. ASSUME NEW p \in Principals, NEW i \in DOMAIN invites, RevokeInvitation(c, p, i)
        PROVE  UNCHANGED <<orgs, req>>
    BY <2>3 DEF RevokeInvitation, Refuse, Once
  <2>4. ASSUME NEW p \in Principals, NEW i \in DOMAIN invites, ResendInvitation(c, p, i)
        PROVE  UNCHANGED orgs /\ \A d \in Clients : req'[d] = req[d] \/ req'[d] = None \/ req'[d].op \in InviteOps
    <3>1. UNCHANGED orgs /\ (Refuse(c) \/ Begin(c, InviteRequest("publish", p, i, None, None, 0)))
      BY <2>4 DEF ResendInvitation
    <3> QED BY <1>3, <2>1, <3>1 DEF Refuse
  <2>5. ASSUME NEW u \in Users, NEW t \in mailed, AcceptInvitation(c, u, t)
        PROVE  UNCHANGED orgs /\ \A d \in Clients : req'[d] = req[d] \/ req'[d] = None \/ req'[d].op \in InviteOps
    <3>1. UNCHANGED orgs
      BY <2>5 DEF AcceptInvitation, orgVars
    <3>2. Refuse(c) \/ \E p, i : Begin(c, InviteRequest("member", p, i, None, None, 0))
      BY <2>5 DEF AcceptInvitation
    <3> QED BY <1>3, <2>1, <3>1, <3>2 DEF Refuse
  <2> QED BY <1>6, <2>2, <2>3, <2>4, <2>5
<1>7. ASSUME NEW c \in Clients,
             \/ seatGate(c) \/ acceptAsMember(c) \/ dropInvitation(c) \/ joinOrg(c)
             \/ publishInviteEmail(c) \/ Abort(c)
      PROVE  /\ UNCHANGED orgs
             /\ \A d \in Clients : req'[d] = req[d] \/ req'[d] = None \/ req'[d].op \in InviteOps
  BY <1>4, <1>5, <1>7
     DEF seatGate, acceptAsMember, dropInvitation, joinOrg, publishInviteEmail, Abort, At, orgVars, InviteOps
<1>8. ASSUME NEW c \in Clients, insertInvitation(c)
      PROVE  /\ UNCHANGED orgs
             /\ \A d \in Clients : req'[d] = req[d] \/ req'[d] = None \/ req'[d].op \in InviteOps
  <2>1. UNCHANGED orgs /\ req[c] \in InviteReq
    BY <1>8, MirrorFacts, RequestFacts DEF Mirrors, insertInvitation, At, orgVars, InviteOps
  <2>2. PICK k : k = Len(invites) + 1
    OBVIOUS
  <2>3. PICK r : r = [req[c] EXCEPT !.op = "publish", !.inv = k]
    OBVIOUS
  <2>4. r.op = "publish"
    BY <2>1, <2>3 DEF InviteReq
  <2>5. CASE Done(c)
    BY <1>4, <2>1, <2>5
  <2>6. CASE Hold(c, r)
    BY <1>2, <2>1, <2>4, <2>6 DEF Hold, InviteOps
  <2> QED BY <1>8, <2>2, <2>3, <2>5, <2>6 DEF insertInvitation
<1>9. ASSUME NEW m \in Mailers,
             \/ \E batch \in SUBSET DOMAIN intents : EmailRunner(m, batch)
             \/ setInvitationToken(m) \/ sendInvitation(m) \/ sendOther(m) \/ MailerDies(m)
      PROVE  UNCHANGED <<orgs, req>>
  BY <1>9 DEF EmailRunner, setInvitationToken, sendInvitation, sendOther, MailerDies, orgVars
<1>10. ASSUME NEW i \in DOMAIN invites, InviteExpires(i)
       PROVE  UNCHANGED <<orgs, req>>
  BY <1>10 DEF InviteExpires, orgVars
<1> QED BY <1>6, <1>7, <1>8, <1>9, <1>10 DEF InviteNext

LEMMA MemberStep ==
  ASSUME Mirrors, UNCHANGED <<topic, vendor, billVars>>, UNCHANGED orgs,
         \A d \in Clients : req'[d] = req[d] \/ req'[d] = None \/ req'[d].op \in InviteOps
  PROVE  MirrorInv'
<1>1. RowsFit /\ \A d \in Clients : OrderFits(req[d])
  BY MirrorFacts
<1>2. UNCHANGED <<subs, payments, sent, override, hookVars>>
  BY DEF billVars
<1>3. \A d \in Clients : OrderFits(req'[d])
  BY <1>1 DEF OrderFits, AdminOps, InviteOps
<1>4. subs' = [x \in OrgIds |-> subs'[x]]
  BY <1>1, <1>2 DEF RowsFit
<1> QED BY <1>2, <1>3, <1>4, WriteStep

LEMMA WindowStep ==
  ASSUME Mirrors, NEW o \in DOMAIN orgs, TrialWindowPasses(o)
  PROVE  MirrorInv'
<1>1. RowsFit /\ 1 \in OrgIds /\ o = 1 /\ \A d \in Clients : OrderFits(req[d])
  BY MirrorFacts
<1>2. subs = [x \in OrgIds |-> subs[x]] /\ Subscribed(1) # {} /\ subs' = [subs EXCEPT ![1].ended = "old"]
  BY <1>1 DEF RowsFit, TrialWindowPasses
<1>3. subs' = [x \in OrgIds |-> subs'[x]] /\ \A x \in OrgIds : x # 1 => subs'[x] = subs[x]
  BY <1>2
<1>4. UNCHANGED <<topic, vendor, payments, sent, hookVars, orgs, override, req>>
  BY DEF TrialWindowPasses, memberVars, orgVars
<1> QED BY <1>1, <1>2, <1>3, <1>4, WriteStep

LEMMA MirrorStill ==
  ASSUME MirrorInv, UNCHANGED vars
  PROVE  MirrorInv'
<1>1. UNCHANGED <<topic, vendor, orgs, req, subs, payments, sent, override, hook, processed, newest, stale, unresolved>>
  BY DEF vars, memberVars, orgVars, billVars, hookVars
<1>2. EventsFit => EventsFit'
  BY <1>1 DEF EventsFit, EventFits, Kind, Subscribed, IsCurrent
<1>3. HooksFit => HooksFit'
  <2>1. ASSUME NEW e, NEW pc, NEW o
        PROVE  HookRow(e, pc, o)' = HookRow(e, pc, o) /\ (StepFits(e, pc, o) => StepFits(e, pc, o)')
    BY <1>1 DEF HookRow, StepFits, Settled, Kind, Foreign, VerifyWebhook, stubEvent, mapSubscription
  <2>2. \A w \in Hooks : HookFits(w) => HookFits(w)'
    BY <1>1, <2>1 DEF HookFits
  <2> QED BY <1>1, <2>2 DEF HooksFit
<1>4. ProcessedFit => ProcessedFit'
  <2>1. \A e \in DOMAIN sent : Settled(e) => Settled(e)'
    BY <1>1 DEF Settled, Kind, Foreign
  <2> QED BY <1>1, <2>1 DEF ProcessedFit
<1>5. RowsFit => RowsFit'
  BY <1>1 DEF RowsFit, OrderFits, Subscribed
<1>6. PlanFits => PlanFits'
  BY <1>1 DEF PlanFits, Kind, Foreign, VerifyWebhook, stubEvent, mapSubscription, EventPlan
<1> QED BY <1>1, <1>2, <1>3, <1>4, <1>5, <1>6 DEF MirrorInv

LEMMA MirrorNext ==
  ASSUME All, MirrorInv, [Next]_vars
  PROVE  MirrorInv'
<1>1. CASE UNCHANGED vars
  BY <1>1, MirrorStill
<1>2. CASE topic = "roles" /\ UNCHANGED <<topic, vendor, billVars>>
  BY <1>2 DEF MirrorInv, billVars
<1>4. CASE topic = "seats" /\ InviteNext /\ UNCHANGED <<topic, vendor, billVars>>
  BY <1>4, InviteRequests, MemberStep DEF Mirrors
<1>3. CASE topic = "seats" /\ BillingNext
  <2> Mirrors
    BY <1>3 DEF Mirrors
  <2>1. ASSUME NEW w \in Hooks,
               \/ \E e \in DOMAIN sent : ServeHTTP(w, e)
               \/ RejectSignature(w) \/ Webhook(w) \/ HookFails(w)
        PROVE  MirrorInv'
    BY <2>1, ServeStep, MirrorStill, FailStep, ResolveStep, ApplySubscriptionStep, ApplyPaymentStep, MarkStep
       DEF RejectSignature, Webhook
  <2>2. ASSUME NEW o \in DOMAIN orgs,
               \/ \E custom \in {o} \cup Customs, status \in Outcomes : ProviderBills(o, custom, status)
               \/ TrialWindowPasses(o)
        PROVE  MirrorInv'
    BY <2>2, BillsStep, WindowStep
  <2>3. ASSUME NEW c \in Clients, NEW p \in Principals,
               (\E plan \in Plans : CreateBillingCheckout(c, p, plan)) \/ CreateBillingPortal(c, p)
        PROVE  MirrorInv'
    BY <2>3, CheckoutStep, PortalStep
  <2>4. ASSUME NEW c \in Clients, NEW u \in Users,
               \/ \E o \in OrgIds :
                    \/ \E plan \in OperatorPlans : SetAdminOrgPlan(c, u, o, plan)
                    \/ \E when \in {"cancelNow", "cancelAtEnd"} : CancelAdminOrgSubscription(c, u, o, when)
               \/ \E x \in DOMAIN payments, partial \in BOOLEAN : RefundAdminOrgPayment(c, u, x, partial)
        PROVE  MirrorInv'
    BY <2>4, OrderStep, CancelStep, RefundStep, StartsAssumption
  <2>5. ASSUME NEW c \in Clients,
               \/ UpdateSubscriptionPlan(c) \/ setOrgPlan(c) \/ CancelSubscriptionNow(c)
               \/ SetSubscriptionCancelAtPeriodEnd(c)
               \/ Abort(c) /\ UNCHANGED <<topic, vendor, billVars>>
        PROVE  MirrorInv'
    <3>1. CASE Abort(c) /\ UNCHANGED <<topic, vendor, billVars>>
      <4>1. InviteNext
        BY <3>1 DEF InviteNext
      <4> QED BY <3>1, <4>1, InviteRequests, MemberStep
    <3> QED BY <2>5, <3>1, WritesStep
  <2> HIDE DEF MirrorInv
  <2> QED BY <1>3, <2>1, <2>2, <2>3, <2>4, <2>5 DEF BillingNext
<1> HIDE DEF MirrorInv
<1> QED BY <1>1, <1>2, <1>3, <1>4 DEF Next

LEMMA MirrorInit ==
  ASSUME Init
  PROVE  MirrorInv
<1>1. /\ sent = << >> /\ processed = {} /\ hook = [w \in Hooks |-> None] /\ newest = [o \in OrgIds |-> 0]
      /\ subs = [o \in OrgIds |-> None] /\ payments = [x \in 1..MaxEvents[vendor] |-> None]
      /\ req = [c \in Clients |-> None]
  BY DEF Init
<1>11. vendor \in {"stub", "paddle"} /\ topic \in {"roles", "seats"}
  BY StartsAssumption DEF Init, StartRecord, Topics
<1>2. EventsFit
  <2>1. DOMAIN sent = {} /\ sent \in Seq(Raw)
    BY <1>1
  <2> QED BY <1>1, <1>11, <2>1 DEF EventsFit, Subscribed
<1>3. HooksFit
  BY <1>1 DEF HooksFit, HookFits
<1>4. ProcessedFit
  BY <1>1 DEF ProcessedFit
<1>5. RowsFit
  BY <1>1 DEF RowsFit, OrderFits
<1>6. PlanFits
  <2>1. 1 \in OrgIds
    BY MembersAssumption DEF OrgIds
  <2> QED BY <1>1, <2>1 DEF PlanFits
<1> QED BY <1>1, <1>2, <1>3, <1>4, <1>5, <1>6 DEF MirrorInv

\* The plan an event stands for, as the provider knows it.
LEMMA EventsPlan ==
  ASSUME EventsFit, NEW e \in DOMAIN sent, Kind(e) = "subscription"
  PROVE  /\ EventPlan(VerifyWebhook(sent[e])) =
              IF sent[e].status = "canceled" THEN "tier1" ELSE sent[e].price.plan
         /\ EventPlan(VerifyWebhook(sent[e])) \in Plans
<1>1. sent[e].price \in Prices /\ sent[e].price.plan \in Plans /\ sent[e].price # None
  BY BillingAssumption DEF EventsFit, EventFits
<1>2. PICK m : m = mapSubscription(sent[e])
  OBVIOUS
<1>3. m.plan = sent[e].price.plan /\ m.status = sent[e].status
  BY <1>1, <1>2 DEF mapSubscription
<1>4. PICK ev : ev = VerifyWebhook(sent[e])
  OBVIOUS
<1>5. ev.plan = sent[e].price.plan /\ ev.status = sent[e].status
  <2>1. CASE ev = m
    BY <1>3, <2>1
  <2>2. CASE ev = [m EXCEPT !.plan = IF sent[e].price = None THEN "" ELSE sent[e].price.plan]
    <3>1. ev.plan = (IF sent[e].price = None THEN "" ELSE sent[e].price.plan) /\ ev.status = m.status
      BY <1>2, <2>2 DEF mapSubscription
    <3> QED BY <1>1, <1>3, <3>1
  <2> QED BY <1>2, <1>4, <2>1, <2>2 DEF VerifyWebhook, stubEvent
<1>6. EventPlan(ev) = IF ev.status = "canceled" THEN "tier1" ELSE ev.plan
  BY <1>1, <1>5 DEF EventPlan, ParsePlan
<1>7. "tier1" \in Plans
  BY DEF Plans
<1> QED BY <1>1, <1>4, <1>5, <1>6, <1>7

\* MirrorsProvider, for every number of events, webhook requests at once and
\* operators' requests: once the events of an org are processed its payments are
\* listed and its plan is the one of its newest subscription event, unless an
\* event was applied after a newer one, none was known to be its org's, or an
\* operator set the plan.
THEOREM PlanFollowsProvider == Spec => []MirrorsProvider
<1>1. All /\ MirrorInv => MirrorsProvider
  <2> SUFFICES ASSUME All, MirrorInv, NEW o \in DOMAIN orgs PROVE
        LET mine == {e \in DOMAIN sent : sent[e].customer = o /\ ~ Foreign(e)}
            news == {e \in mine : KindOf(sent[e].type) = "subscription"} IN
        mine \subseteq processed \ unresolved =>
          /\ \A e \in mine : KindOf(sent[e].type) = "payment" => sent[e].pay \in ListBillingPayments(o)
          /\ o \notin stale \cup override /\ news # {} =>
               LET last == sent[CHOOSE e \in news : \A f \in news : f <= e] IN
               GetEntitlements(o).plan = IF last.status = "canceled" THEN "tier1" ELSE last.price.plan
    BY DEF MirrorsProvider
  <2> DEFINE mine == {e \in DOMAIN sent : sent[e].customer = o /\ ~ Foreign(e)}
             news == {e \in mine : KindOf(sent[e].type) = "subscription"}
             m    == CHOOSE e \in news : \A f \in news : f <= e
  <2>1. CASE sent = << >>
    BY <2>1
  <2>2. CASE topic = "seats"
    <3> SUFFICES ASSUME mine \subseteq processed \ unresolved
                 PROVE  /\ \A e \in mine : KindOf(sent[e].type) = "payment" => sent[e].pay \in ListBillingPayments(o)
                        /\ o \notin stale \cup override /\ news # {} =>
                             GetEntitlements(o).plan = IF sent[m].status = "canceled" THEN "tier1" ELSE sent[m].price.plan
      OBVIOUS
    <3>1. Mirrors
      BY <2>2 DEF Mirrors
    <3>2. EventsFit /\ ProcessedFit /\ RowsFit /\ PlanFits /\ DOMAIN orgs = {1} /\ o = 1 /\ 1 \in OrgIds
      BY <3>1, MirrorFacts
    <3>3. \A e \in mine : Settled(e) /\ e \notin unresolved /\ ~ Foreign(e) /\ e \in DOMAIN sent
      BY <3>2 DEF ProcessedFit
    <3>4. ASSUME NEW e \in mine, KindOf(sent[e].type) = "payment"
          PROVE  sent[e].pay \in ListBillingPayments(o)
      <4>1. Kind(e) = "payment" /\ e \in DOMAIN sent
        BY <3>4 DEF Kind
      <4>2. sent[e].pay = e /\ e \in 1..MaxEvents[vendor]
        BY <4>1, <3>2, BoundKnown DEF EventsFit, EventFits
      <4>3. payments[e] # None
        BY <4>1, <3>3 DEF Settled
      <4>4. e \in DOMAIN payments /\ payments[e].org = 1
        BY <4>2, <4>3, <3>2 DEF RowsFit
      <4> QED BY <4>2, <4>3, <4>4, <3>2 DEF ListBillingPayments
    <3>5. ASSUME o \notin stale \cup override, news # {}
          PROVE  GetEntitlements(o).plan = IF sent[m].status = "canceled" THEN "tier1" ELSE sent[m].price.plan
      <4>1. PICK e : e = newest[1]
        OBVIOUS
      <4>2. \A f \in news : f \in Nat /\ f <= e /\ f # 0
        <5> SUFFICES ASSUME NEW f \in news PROVE f \in Nat /\ f <= e /\ f # 0
          OBVIOUS
        <5>1. Kind(f) = "subscription" /\ f \in DOMAIN sent
          BY DEF Kind
        <5>2. f <= e
          BY <5>1, <3>2, <3>3, <3>5, <4>1 DEF Settled
        <5> QED BY <5>1, <5>2, <3>2, BoundKnown
      <4>3. e \in Nat /\ e # 0
        <5>1. PICK f \in news : TRUE
          BY <3>5
        <5>2. e \in Nat
          BY <3>2, <4>1 DEF PlanFits
        <5> QED BY <5>1, <5>2, <4>2
      <4>4. /\ e \in DOMAIN sent /\ Kind(e) = "subscription" /\ ~ Foreign(e)
            /\ orgs[1].plan = EventPlan(VerifyWebhook(sent[e]))
        BY <3>2, <3>5, <4>1, <4>3 DEF PlanFits
      <4>5. e \in news
        <5>1. sent[e] \in Raw
          BY <4>4, ElementOfSeq, BoundKnown, <3>2 DEF EventsFit
        <5> QED BY <4>4, <5>1, <3>2 DEF Kind, Raw
      <4>6. m = e
        <5>1. m \in news /\ \A f \in news : f <= m
          BY <4>2, <4>5
        <5> HIDE DEF m
        <5> QED BY <5>1, <4>2, <4>3, <4>5
      <4>7. GetEntitlements(o).plan = orgs[1].plan
        BY <3>2, <4>4, EventsPlan DEF GetEntitlements, orgPlan, ParsePlan
      <4>8. orgs[1].plan = IF sent[e].status = "canceled" THEN "tier1" ELSE sent[e].price.plan
        BY <3>2, <4>4, EventsPlan
      <4> HIDE DEF m
      <4> QED BY <4>6, <4>7, <4>8
    <3> QED BY <3>4, <3>5
  <2>3. topic \in {"roles", "seats"}
    BY DEF All, Inv, TypeOK, Topics
  <2> QED BY <2>1, <2>2, <2>3 DEF MirrorInv
<1>2. Init => MirrorInv
  BY MirrorInit
<1>3. All /\ MirrorInv /\ [Next]_vars => MirrorInv'
  BY MirrorNext
<1> QED BY <1>1, <1>2, <1>3, MembersInvariance, PTL DEF Spec
=============================================================================
