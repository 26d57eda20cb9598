------------------------------ MODULE Members -------------------------------
(***************************************************************************)
(* Organizations, members and invitations: internal/api/members.go and the *)
(* org handlers of api.go, internal/store/memberships.go, invitations.go   *)
(* and organizations.go, the role lookup in front of them                  *)
(* (internal/authn/middleware.go) and the consumer that mails invitations  *)
(* (internal/notify/emailintent.go).  A handler makes several calls, each  *)
(* its own transaction; a role change is a transaction whose statement     *)
(* runs the last-owner trigger and holds the row until it commits.         *)
(*                                                                         *)
(* A user's address is the user; an address nobody has is any other value. *)
(***************************************************************************)
EXTENDS Authz, Entitlements, FiniteSets

CONSTANTS
  None,
  Users,
  Clients,           \* requests the api serves at once
  Mailers,           \* consumers of e-mail intents
  KeyRoles,          \* roles of API keys of org 1
  InviteEmails,      \* addresses that are invited
  Slugs,             \* slugs asked for by name
  OtherIntents,      \* kinds of e-mail intents besides invitations
  MaxOrgs, MaxInvites, MaxTokens, MaxIntents,   \* bounds: ever made
  MaxRequests        \* bound: requests served

ASSUME MembersAssumption ==
  /\ {MaxOrgs, MaxInvites, MaxTokens, MaxIntents, MaxRequests} \subseteq Nat
  /\ OtherIntents \subseteq {"magic_link", "channel_test", "unknown"}
  /\ MaxOrgs > 0 /\ IsFiniteSet(Users) /\ KeyRoles \subseteq Roles
  /\ None \notin Nat \cup Roles \cup {"out"} \cup Clients

VARIABLES
  orgs,              \* organizations: id -> [slug, plan]
  members,           \* memberships: <<org, user>> -> role, or None
  rcache,            \* member:<user>:<org> in Redis: role, "out", or None
  invites,           \* id -> [org, email, role, state, token, over]
  bus,               \* PULSE_BUS: "kafka" or "redis"
  intents,           \* email.events: id -> [kind, inv]
  acked,             \* intents that are not delivered again
  minted,            \* tokens made so far: 1..minted
  mailed,            \* tokens that reached their addressee
  mailer,            \* mailer -> [batch, rest, id, token]: the intents it fetched, the
                     \*   ones it has yet to handle, the one it handles; or None
  req,               \* client -> the request it is in the middle of, or None
  served,            \* requests so far that were not refused
  overlapped,        \* history: orgs two owners left in transactions that overlapped
  doubled,           \* history: intents two mailers held at once
  dropped,           \* history: intents read past after an error
  overtaken          \* history: orgs where a join came between the two counts of an
                     \*   invitation, or an insert or a smaller plan between its
                     \*   counts and its insert

orgVars  == <<orgs, members, rcache, overlapped>>
mailVars == <<bus, intents, acked, minted, mailed, mailer, doubled, dropped>>
inviteVars == <<invites, overtaken>>
memberVars == <<orgVars, mailVars, inviteVars, req, served>>

OrgIds == 1..MaxOrgs

-----------------------------------------------------------------------------
(* Requests *)

Request(c) == req[c] = None /\ served < MaxRequests
At(c, op)  == req[c] # None /\ req[c].op = op /\ UNCHANGED served
Hold(c, r) == req' = [req EXCEPT ![c] = r]
Goto(c, op) == req' = [req EXCEPT ![c].op = op]
Done(c)    == req' = [req EXCEPT ![c] = None]
Begin(c, r) == Hold(c, r) /\ served' = served + 1
Once(c)    == UNCHANGED req /\ served' = served + 1    \* one call and an answer
Refuse(c)  == UNCHANGED <<req, served>>                 \* answered without a change

\* The process ends or a call fails: the transaction that is open is rolled back.
Abort(c) == req[c] # None /\ Done(c) /\ UNCHANGED <<orgVars, mailVars, inviteVars, served>>

GetMembership(o, u) == members[<<o, u>>]

\* RequireOrg: the cached role, else the row's, which is cached.  A lookup that
\* caches a row read before a change leaves what a lost invalidation leaves.
resolveRole(o, u) ==
  IF rcache[<<o, u>>] # None THEN rcache[<<o, u>>]
  ELSE IF GetMembership(o, u) = None THEN "out" ELSE GetMembership(o, u)
RequireOrg(o, u) == rcache' = [rcache EXCEPT ![<<o, u>>] = resolveRole(o, u)]

Human(o, u) == [kind |-> "human", user |-> u, org |-> o, role |-> resolveRole(o, u)]
Key(r)      == [kind |-> "api_key", user |-> 0, org |-> 1, role |-> r]
Principals  == {Human(o, u) : o \in DOMAIN orgs, u \in Users} \cup {Key(r) : r \in KeyRoles}

\* humanInOrg asks for an org and a role only, so keys pass; a person who is no
\* member is turned away before.
humanInOrg(c, p) ==
  /\ Request(c) /\ p.role # "out"
  /\ IF p.kind = "human" THEN RequireOrg(p.org, p.user) ELSE UNCHANGED rcache

\* DEL, best effort; the entry's time to live ends otherwise.
InvalidateMemberRole(o, u) ==
  \/ rcache' = IF <<o, u>> \in DOMAIN rcache THEN [rcache EXCEPT ![<<o, u>>] = None] ELSE rcache
  \/ UNCHANGED rcache
RoleExpires(o, u) ==
  /\ rcache[<<o, u>>] # None /\ rcache' = [rcache EXCEPT ![<<o, u>>] = None]
  /\ UNCHANGED <<orgs, members, overlapped, mailVars, inviteVars, req, served>>

-----------------------------------------------------------------------------
(* Organizations *)

SlugTaken(s) == \E o \in DOMAIN orgs : orgs[o].slug = s
\* A derived slug ends in random characters, drawn again when it is taken.
deriveSlug == Len(orgs) + 1

CreateOrgWithOwner(u, slug) ==
  /\ orgs' = Append(orgs, [slug |-> slug, plan |-> "tier1"])
  /\ members' = [members EXCEPT ![<<Len(orgs) + 1, u>>] = "owner"]

CreateOrg(c, u, slug) ==
  /\ Request(c) /\ Len(orgs) < MaxOrgs
  /\ IF slug # None /\ SlugTaken(slug) THEN Refuse(c) /\ UNCHANGED <<orgs, members>>
     ELSE Once(c) /\ CreateOrgWithOwner(u, IF slug = None THEN deriveSlug ELSE slug)
  /\ UNCHANGED <<rcache, overlapped, mailVars, inviteVars>>

MembersOf(o)  == {u \in Users : GetMembership(o, u) # None}
ListMembers(o) == [u \in MembersOf(o) |-> GetMembership(o, u)]
CountMembers(o) == Cardinality(MembersOf(o))
Owners(o)      == {u \in Users : GetMembership(o, u) = "owner"}
CountOwners(o) == Cardinality(Owners(o))

-----------------------------------------------------------------------------
(* Role changes.  new = None removes the member. *)

RoleRequest(op, p, u, new) ==
  [op |-> op, p |-> p, user |-> u, new |-> new, seen |-> GetMembership(p.org, u),
   strict |-> TRUE, stepDown |-> FALSE]

ChangeMemberRole(c, p, u, new) ==
  /\ humanInOrg(c, p)
  /\ IF new \in Roles /\ GetMembership(p.org, u) # None
     THEN Begin(c, RoleRequest("change", p, u, new)) ELSE Refuse(c)
  /\ UNCHANGED <<orgs, members, overlapped, mailVars, inviteVars>>

RemoveMember(c, p, u) ==
  /\ humanInOrg(c, p)
  /\ IF GetMembership(p.org, u) # None
     THEN Begin(c, RoleRequest("remove", p, u, None)) ELSE Refuse(c)
  /\ UNCHANGED <<orgs, members, overlapped, mailVars, inviteVars>>

\* The owners are counted and the rules asked about what was read before.
authorizeRole(c) ==
  /\ At(c, "change") \/ At(c, "remove")
  /\ LET r == req[c]
         res == [org |-> r.p.org, target |-> r.seen, owners |-> CountOwners(r.p.org),
                 new |-> IF r.op = "remove" THEN "none" ELSE r.new] IN
     IF Can(r.p, IF r.op = "remove" THEN "remove_member" ELSE "change_member_role", res) /\ r.new # r.seen
     THEN Goto(c, "write") ELSE Done(c)
  /\ UNCHANGED <<orgVars, mailVars, inviteVars>>

\* A key has no row to leave with.
LeaveOrg(c, p) ==
  /\ humanInOrg(c, p)
  /\ IF EnsureNotLastOwner(p.role, CountOwners(p.org)) /\ p.kind = "human"
     THEN Begin(c, RoleRequest("write", p, p.user, None)) ELSE Refuse(c)
  /\ UNCHANGED <<orgs, members, overlapped, mailVars, inviteVars>>

\* The member becomes an owner; with step_down the caller then an admin.  Both
\* updates go on when they find no row.
TransferOwnership(c, p, u, stepDown) ==
  /\ humanInOrg(c, p)
  /\ IF CanInOrg(p, "transfer_ownership") /\ u # p.user /\ GetMembership(p.org, u) # None
     THEN Begin(c, [RoleRequest("write", p, u, "owner") EXCEPT !.strict = FALSE, !.stepDown = stepDown])
     ELSE Refuse(c)
  /\ UNCHANGED <<orgs, members, overlapped, mailVars, inviteVars>>

\* Open transactions that changed a row of the org.
Uncommitted(o) == {d \in Clients : req[d] # None /\ req[d].op = "commit" /\ req[d].p.org = o}
Locked(o, u)   == \E d \in Uncommitted(o) : req[d].user = u
LeavesOwners(d) == GetMembership(req[d].p.org, req[d].user) = "owner" /\ req[d].new # "owner"

\* Mutant: the trigger is not there.
noTrigger(o, u, new) == TRUE
\* enforce_last_owner sees committed rows, and takes no lock on them.
enforce_last_owner(o, u, new) == new = "owner" \/ Owners(o) \ {u} # {}

UpdateMemberRole(c) ==
  /\ At(c, "write")
  /\ LET r == req[c]  o == r.p.org IN
     /\ ~ Locked(o, r.user)
     /\ IF GetMembership(o, r.user) = None
        THEN IF r.strict THEN Done(c) ELSE Goto(c, "invalidate")
        ELSE IF enforce_last_owner(o, r.user, r.new) THEN Goto(c, "commit") ELSE Done(c)
     /\ overlapped' = IF req'[c] # None /\ req'[c].op = "commit" /\ LeavesOwners(c)
                         /\ \E d \in Uncommitted(o) : LeavesOwners(d)
                      THEN overlapped \cup {o} ELSE overlapped
  /\ UNCHANGED <<orgs, members, rcache, mailVars, inviteVars>>

commitRole(c) ==
  /\ At(c, "commit")
  /\ members' = [members EXCEPT ![<<req[c].p.org, req[c].user>>] = req[c].new]
  /\ Goto(c, "invalidate")
  /\ UNCHANGED <<orgs, rcache, overlapped, mailVars, inviteVars>>

afterRole(c) ==
  /\ At(c, "invalidate")
  /\ LET r == req[c] IN
     /\ InvalidateMemberRole(r.p.org, r.user)
     /\ IF r.stepDown
        THEN Hold(c, [r EXCEPT !.op = "write", !.user = r.p.user, !.new = "admin", !.stepDown = FALSE])
        ELSE Done(c)
  /\ UNCHANGED <<orgs, members, overlapped, mailVars, inviteVars>>

-----------------------------------------------------------------------------
(* Invitations *)

Pending(o) == {i \in DOMAIN invites : invites[i].org = o /\ invites[i].state = "pending"}
ListInvitations(o) == Pending(o)
CountPendingInvitations(o) == Cardinality(Pending(o))
GetInvitationByToken(t) == {i \in DOMAIN invites : invites[i].token = t}
\* What GetInvitationPreview shows, and AcceptInvitation lets in.
GetInvitationPreview(t) == {i \in GetInvitationByToken(t) : invites[i].state = "pending" /\ ~ invites[i].over}

orgPlan(o) == ParsePlan(orgs[o].plan)

InviteRequest(op, p, i, email, role, n) ==
  [op |-> op, p |-> p, inv |-> i, email |-> email, role |-> role, n |-> n]

\* CreateInvitation up to the first of the two counts.
CreateInvitation(c, p, email, role) ==
  /\ humanInOrg(c, p)
  /\ IF CanInOrg(p, "invite_member") /\ role \in Roles \ {"owner"}
     THEN Begin(c, InviteRequest("seats", p, None, email, role, CountMembers(p.org))) ELSE Refuse(c)
  /\ UNCHANGED <<orgs, members, overlapped, mailVars, inviteVars>>

\* Seats in use: the members counted before and the invitations counted now.
seatUsage(o, n) == n + CountPendingInvitations(o)

\* What the billing screen shows of the plan and the seats.
GetEntitlements(o) ==
  [plan |-> orgPlan(o), seatsUsed |-> seatUsage(o, CountMembers(o)), seatsCap |-> SeatCap(orgPlan(o))]

seatGate(c) ==
  /\ At(c, "seats")
  /\ LET o == req[c].p.org IN
     IF HasFreeSeat(seatUsage(o, req[c].n), SeatCap(orgPlan(o))) THEN Goto(c, "insert") ELSE Done(c)
  /\ UNCHANGED <<orgVars, mailVars, inviteVars>>

\* A client of the org other than c waits at op: what it counted is old news.
Waits(c, o, op) == \E d \in Clients \ {c} : req[d] # None /\ req[d].op = op /\ req[d].p.org = o
Overtake(c, o, op) == overtaken' = IF Waits(c, o, op) THEN overtaken \cup {o} ELSE overtaken

\* One pending invitation per address; a key's created_by names no user.
insertInvitation(c) ==
  /\ At(c, "insert") /\ Len(invites) < MaxInvites
  /\ LET r == req[c] IN
     IF r.p.kind = "human" /\ \A i \in Pending(r.p.org) : invites[i].email # r.email
     THEN /\ invites' = Append(invites, [org |-> r.p.org, email |-> r.email, role |-> r.role,
                                         state |-> "pending", token |-> None, over |-> FALSE])
          /\ Hold(c, [r EXCEPT !.op = "publish", !.inv = Len(invites) + 1])
          /\ Overtake(c, r.p.org, "insert")
     ELSE UNCHANGED inviteVars /\ Done(c)
  /\ UNCHANGED <<orgVars, mailVars>>

\* The error of a publish is dropped.
publishInviteEmail(c) ==
  /\ At(c, "publish") /\ Len(intents) < MaxIntents
  /\ \/ intents' = Append(intents, [kind |-> "invitation", inv |-> req[c].inv])
     \/ UNCHANGED intents
  /\ Done(c)
  /\ UNCHANGED <<orgVars, bus, acked, minted, mailed, mailer, doubled, dropped, inviteVars>>

MayManageInvitation(p, i) == CanInOrg(p, "manage_invitation") /\ invites[i].org = p.org
StillPending(i) == invites[i].state = "pending"

\* Reads by id, then an UPDATE that asks again for the pending state.
RevokeInvitation(c, p, i) ==
  /\ humanInOrg(c, p)
  /\ IF MayManageInvitation(p, i) /\ StillPending(i)
     THEN Once(c) /\ invites' = [invites EXCEPT ![i].state = "revoked"]
     ELSE Refuse(c) /\ UNCHANGED invites
  /\ UNCHANGED <<orgs, members, overlapped, mailVars, overtaken>>

ResendInvitation(c, p, i) ==
  /\ humanInOrg(c, p)
  /\ IF MayManageInvitation(p, i) /\ StillPending(i)
     THEN /\ invites' = [invites EXCEPT ![i].over = FALSE]
          /\ Begin(c, InviteRequest("publish", p, i, None, None, 0))
     ELSE UNCHANGED invites /\ Refuse(c)
  /\ UNCHANGED <<orgs, members, overlapped, mailVars, overtaken>>

\* Nothing moves an invitation past its expiry out of the pending state.
InviteExpires(i) ==
  /\ StillPending(i) /\ ~ invites[i].over
  /\ invites' = [invites EXCEPT ![i].over = TRUE]
  /\ UNCHANGED <<orgVars, mailVars, overtaken, req, served>>

\* The invitation is read by its token; only its addressee may take it.
AcceptInvitation(c, u, t) ==
  /\ Request(c)
  /\ LET found == {i \in GetInvitationPreview(t) : invites[i].email = u} IN
     IF found = {} THEN Refuse(c)
     ELSE \E i \in found :
            Begin(c, InviteRequest("member", [kind |-> "human", user |-> u, org |-> invites[i].org,
                                             role |-> "out"], i, None, None, 0))
  /\ UNCHANGED <<orgVars, mailVars, inviteVars>>

acceptAsMember(c) ==
  /\ At(c, "member")
  /\ Goto(c, IF GetMembership(req[c].p.org, req[c].p.user) = None THEN "join" ELSE "drop")
  /\ UNCHANGED <<orgVars, mailVars, inviteVars>>

\* A member already: the invitation is revoked.
dropInvitation(c) ==
  /\ At(c, "drop")
  /\ invites' = IF StillPending(req[c].inv) THEN [invites EXCEPT ![req[c].inv].state = "revoked"] ELSE invites
  /\ Done(c) /\ UNCHANGED <<orgVars, mailVars, overtaken>>

\* One transaction, then the cached "not a member" is dropped.
joinOrg(c) ==
  /\ At(c, "join")
  /\ LET i == req[c].inv  o == req[c].p.org  u == req[c].p.user IN
     IF StillPending(i) /\ GetMembership(o, u) = None
     THEN /\ invites' = [invites EXCEPT ![i].state = "accepted"]
          /\ members' = [members EXCEPT ![<<o, u>>] = invites[i].role]
          /\ InvalidateMemberRole(o, u)
          /\ Overtake(c, o, "seats")
     ELSE UNCHANGED <<inviteVars, members, rcache>>
  /\ Done(c) /\ UNCHANGED <<orgs, overlapped, mailVars>>

-----------------------------------------------------------------------------
(* Mailing.  On Redis one consumer with a stable name takes an intent at a  *)
(* time and acks it.  On Kafka a consumer handles a batch, which is          *)
(* committed when it polls again; after a rebalance a second consumer takes  *)
(* what the first still holds.                                               *)

Holds(m, k) == mailer[m] # None /\ k \in mailer[m].batch
Take(m, batch, rest) ==
  \E k \in rest :
    mailer' = [mailer EXCEPT ![m] = [batch |-> batch, rest |-> rest \ {k}, id |-> k, token |-> None]]
Free(m) == mailer' = [mailer EXCEPT ![m] = None]

EmailRunner(m, batch) ==
  /\ mailer[m] = None /\ batch \cap acked = {}
  /\ bus = "redis" => /\ \A n \in Mailers : mailer[n] = None
                      /\ \A j, k \in batch : j = k
  /\ Take(m, batch, batch)
  /\ doubled' = doubled \cup {k \in batch : \E n \in Mailers : Holds(n, k)}
  /\ UNCHANGED <<orgVars, bus, intents, acked, minted, mailed, dropped, inviteVars, req, served>>

\* The handler returned nil.  The last of a batch is acked, or the next poll
\* commits; XACK may fail, and the process may end before it polls.
Handled(m) ==
  /\ IF mailer[m].rest # {} THEN Take(m, mailer[m].batch, mailer[m].rest) /\ UNCHANGED acked
     ELSE Free(m) /\ (acked' = acked \cup mailer[m].batch \/ UNCHANGED acked)
  /\ UNCHANGED dropped

\* Mutant: dispatch acks whatever the handler returned.
ackAlways(m) == Free(m) /\ acked' = acked \cup mailer[m].batch /\ UNCHANGED dropped
\* The handler returned an error.  Redis delivers the intent again; on Kafka
\* poll leaves the rest of the fetch alone, and the next poll reads, and
\* commits, past all of it.
HandlerErr(m) ==
  /\ Free(m)
  /\ IF bus = "redis" THEN UNCHANGED <<acked, dropped>>
     ELSE /\ acked' = acked \cup mailer[m].batch
          /\ dropped' = dropped \cup mailer[m].rest \cup {mailer[m].id}

Handles(m, kinds) == mailer[m] # None /\ intents[mailer[m].id].kind \in kinds
SetToken(i) ==
  /\ minted < MaxTokens /\ minted' = minted + 1
  /\ invites' = [invites EXCEPT ![i].token = minted + 1]

\* SetInvitationToken: an invitation that is not pending any more is skipped.
\* The call may fail, and may have been carried out all the same.
setInvitationToken(m) ==
  /\ Handles(m, {"invitation"}) /\ mailer[m].token = None
  /\ LET i == intents[mailer[m].id].inv IN
     \/ /\ StillPending(i) /\ SetToken(i)
        /\ \/ mailer' = [mailer EXCEPT ![m].token = minted + 1] /\ UNCHANGED <<acked, dropped>>
           \/ HandlerErr(m)
     \/ ~ StillPending(i) /\ Handled(m) /\ UNCHANGED <<minted, invites>>
     \/ HandlerErr(m) /\ UNCHANGED <<minted, invites>>
  /\ UNCHANGED <<orgVars, bus, intents, mailed, doubled, overtaken, req, served>>

\* The mail goes out, or the send fails, or both.
sendInvitation(m) ==
  /\ mailer[m] # None /\ mailer[m].token # None
  /\ \/ mailed' = mailed \cup {mailer[m].token} /\ (Handled(m) \/ HandlerErr(m))
     \/ UNCHANGED mailed /\ HandlerErr(m)
  /\ UNCHANGED <<orgVars, bus, intents, minted, doubled, inviteVars, req, served>>

\* Magic links and channel tests are made and sent in one go, unknown kinds
\* dropped.
sendOther(m) ==
  /\ \/ Handles(m, OtherIntents) /\ Handled(m)
     \/ Handles(m, OtherIntents \ {"unknown"}) /\ HandlerErr(m)
  /\ UNCHANGED <<orgVars, bus, intents, minted, mailed, doubled, inviteVars, req, served>>

MailerDies(m) ==
  /\ mailer[m] # None /\ Free(m)
  /\ UNCHANGED <<orgVars, bus, intents, acked, minted, mailed, doubled, dropped, inviteVars, req, served>>

-----------------------------------------------------------------------------

RoleNext ==
  \/ \E c \in Clients :
       \/ \E p \in Principals, u \in Users :
            \/ \E new \in Roles : ChangeMemberRole(c, p, u, new)
            \/ RemoveMember(c, p, u)
            \/ \E down \in BOOLEAN : TransferOwnership(c, p, u, down)
       \/ \E p \in Principals : LeaveOrg(c, p)
       \/ \E u \in Users, s \in Slugs \cup {None} : CreateOrg(c, u, s)
       \/ authorizeRole(c) \/ UpdateMemberRole(c) \/ commitRole(c) \/ afterRole(c) \/ Abort(c)
  \/ \E o \in OrgIds, u \in Users : RoleExpires(o, u)

InviteNext ==
  \/ \E c \in Clients :
       \/ \E p \in Principals, e \in InviteEmails, r \in {"viewer", "owner"} : CreateInvitation(c, p, e, r)
       \/ \E p \in Principals, i \in DOMAIN invites : RevokeInvitation(c, p, i) \/ ResendInvitation(c, p, i)
       \/ \E u \in Users, t \in mailed : AcceptInvitation(c, u, t)
       \/ seatGate(c) \/ insertInvitation(c) \/ publishInviteEmail(c)
       \/ acceptAsMember(c) \/ dropInvitation(c) \/ joinOrg(c) \/ Abort(c)
  \/ \E m \in Mailers :
       \/ \E batch \in SUBSET DOMAIN intents : EmailRunner(m, batch)
       \/ setInvitationToken(m) \/ sendInvitation(m) \/ sendOther(m) \/ MailerDies(m)
  \/ \E i \in DOMAIN invites : InviteExpires(i)

-----------------------------------------------------------------------------
(* Correctness *)

\* An org keeps an owner through every interleaving of demotions, removals,
\* departures and transfers with stale roles and stale counts, because of the
\* trigger; except where two owners are leaving in transactions that overlap,
\* which the trigger, counting committed rows without a lock, lets pass.
OwnerKept ==
  \A o \in DOMAIN orgs \ overlapped : \E u \in DOMAIN ListMembers(o) : ListMembers(o)[u] = "owner"

\* A seat is taken only within the seats of the plan, through any mix of
\* invitations, acceptances, revocations, expiries and changes of plan, so an
\* org has more members and pending invitations than seats only because its
\* plan was lowered after they were taken.  Except where a request was
\* overtaken: the members and the invitations are counted apart, an acceptance
\* between the two is counted in neither, and the insert comes later still.
SeatsBounded ==
  [][\A o \in DOMAIN orgs \ overtaken :
       GetEntitlements(o)'.seatsUsed > GetEntitlements(o).seatsUsed =>
         GetEntitlements(o)'.seatsUsed <= GetEntitlements(o)'.seatsCap]_memberVars

Arrived(i) ==
  /\ invites[i].token \in mailed
  /\ ~ invites[i].over => i \in GetInvitationPreview(invites[i].token)
IntentsFor(i) == {k \in DOMAIN intents : intents[k].kind = "invitation" /\ intents[k].inv = i}

\* The token a pending invitation expects was mailed or still will be: mailing
\* replaces the token first and may then fail (sendInvitation).  Two things
\* break it, both on Kafka: an error, past which the consumer reads on although
\* the comments on handle and SetInvitationToken say that the intent is delivered
\* again, and two consumers that hold one intent at once.
InviteReachable ==
  \A i \in DOMAIN invites :
    StillPending(i) /\ invites[i].token # None =>
      \/ Arrived(i)
      \/ \E k \in IntentsFor(i) : k \notin acked \/ (bus = "kafka" /\ k \in doubled \cup dropped)
=============================================================================
