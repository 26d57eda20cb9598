------------------------------ MODULE Accounts ------------------------------
(***************************************************************************)
(* Who a person is: users and identities (internal/store/users.go), the    *)
(* OAuth flow (internal/authn/login.go, google.go, github.go), magic links *)
(* (internal/authn/magiclink.go, internal/maglink) and the development     *)
(* login (internal/api/devlogin.go).  A sign-in is a request that makes    *)
(* several calls to Redis and the database, none of them in one            *)
(* transaction; it ends, for the module Sessions, at "issue" with a user.  *)
(*                                                                         *)
(* A provider account is [provider, sub, emails], where emails is what the *)
(* provider reports: a sequence of [email, primary, verified].             *)
(***************************************************************************)
EXTENDS Integers, Sequences, FiniteSets

CONSTANTS
  None,
  Clients,           \* requests the api serves at once
  Browsers,
  Configured,        \* OAuth providers with credentials
  ProviderAccounts,
  DevLogin,          \* PULSE_DEV_LOGIN
  LinkEmails,        \* addresses magic links and dev logins are asked for
  MaxUsers, MaxFlows, MaxLinks,   \* bounds: rows and keys ever made
  MaxRequests        \* bound: requests served

ASSUME AccountsAssumption ==
  /\ None \notin Nat /\ DevLogin \in BOOLEAN
  /\ {MaxUsers, MaxFlows, MaxLinks, MaxRequests} \subseteq Nat

VARIABLES
  users,             \* users table: id -> email
  identities,        \* user_identities: set of [user, provider, sub]
  flows,             \* oauth_flow keys: state -> [provider, flow, user], or None
  links,             \* magiclink keys: token -> email, or None once it is gone
  jar,               \* browser -> its cookies [access, refresh, state]
  req,               \* client -> the request it is in the middle of, or None
  served             \* requests begun so far

accountVars == <<users, identities, flows, links, jar, req, served>>

NoCookies == [access |-> None, refresh |-> None, state |-> None]

Request(c) ==
  /\ req[c] = None
  /\ served < MaxRequests /\ served' = served + 1
At(c, op)      == req[c] # None /\ req[c].op = op /\ UNCHANGED served
Hold(c, r)     == req' = [req EXCEPT ![c] = r]
Goto(c, op)    == req' = [req EXCEPT ![c].op = op]
Done(c)        == req' = [req EXCEPT ![c] = None]
Cookies(b, ck) == jar' = [jar EXCEPT ![b] = ck]

-----------------------------------------------------------------------------
(* store/users.go; the unique indexes refuse an insert *)

GetIdentity(provider, sub) == {i \in identities : i.provider = provider /\ i.sub = sub}
ListIdentitiesForUser(u)   == {i \in identities : i.user = u}
GetUserByEmail(email)      == {u \in DOMAIN users : users[u] = email}

IdentityFree(u, provider, sub) ==
  /\ GetIdentity(provider, sub) = {}
  /\ \A i \in ListIdentitiesForUser(u) : i.provider # provider
LinkIdentity(u, provider, sub) ==
  identities' = identities \cup {[user |-> u, provider |-> provider, sub |-> sub]}
UnlinkIdentity(u, provider) ==
  identities' = {i \in identities : ~ (i.user = u /\ i.provider = provider)}

\* One transaction: the user, the identity if there is one, a personal org and
\* its owner membership.
CanCreate(email, idn) ==
  /\ GetUserByEmail(email) = {} /\ Len(users) < MaxUsers
  /\ idn # None => GetIdentity(idn.provider, idn.sub) = {}
CreateUserWithPersonalOrg(email, idn) ==
  /\ users' = Append(users, email)
  /\ IF idn = None THEN UNCHANGED identities
     ELSE LinkIdentity(Len(users) + 1, idn.provider, idn.sub)

-----------------------------------------------------------------------------
(* OAuth *)

\* The profile's verified address, or None: a provider without one is refused.
googleExchange(a) == IF a.emails[1].verified THEN a.emails[1].email ELSE None
githubExchange(a) ==
  LET verified == SelectSeq(a.emails, LAMBDA e : e.verified)
      primary  == SelectSeq(verified, LAMBDA e : e.primary) IN
  IF primary # << >> THEN primary[1].email
  ELSE IF verified # << >> THEN verified[1].email ELSE None
Exchange(a) == IF a.provider = "github" THEN githubExchange(a) ELSE googleExchange(a)

\* A state is a fresh random token: here the next number.
StartLogin(b, provider, flow, u) ==
  /\ Len(flows) < MaxFlows
  /\ flows' = Append(flows, [provider |-> provider, flow |-> flow, user |-> u])
  /\ Cookies(b, [jar[b] EXCEPT !.state = Len(flows) + 1])

handleLogin(c, b, provider) ==
  /\ Request(c)
  /\ IF provider \in Configured THEN StartLogin(b, provider, "login", None)
     ELSE UNCHANGED <<flows, jar>>
  /\ UNCHANGED <<users, identities, links, req>>

\* Linking is for a signed-in person; the flow remembers who.
handleLinkStart(c, b, provider) ==
  /\ Request(c)
  /\ IF jar[b].access # None /\ provider \in Configured
     THEN StartLogin(b, provider, "link", jar[b].access)
     ELSE UNCHANGED <<flows, jar>>
  /\ UNCHANGED <<users, identities, links, req>>

SignInRequest(op, b) ==
  [op |-> op, b |-> b, user |-> None, email |-> None, idn |-> None, rec |-> None, link |-> None]

\* HandleCallback: the state in the query must be the one in the cookie and
\* name a flow; the flow is read now and deleted in the next step.
handleCallback(c, b, state) ==
  /\ Request(c)
  /\ IF state # None /\ state = jar[b].state /\ flows[state] # None
     THEN /\ Hold(c, [SignInRequest("exchange", b) EXCEPT !.rec = flows[state], !.link = state])
          /\ UNCHANGED jar
     ELSE UNCHANGED req /\ Cookies(b, [jar[b] EXCEPT !.state = None])
  /\ UNCHANGED <<users, identities, flows, links>>

\* The provider tells which account came back, or fails.
HandleCallback(c) ==
  /\ At(c, "exchange")
  /\ flows' = [flows EXCEPT ![req[c].link] = None]
  /\ \/ Done(c)
     \/ \E a \in ProviderAccounts :
          /\ a.provider = req[c].rec.provider /\ Exchange(a) # None
          /\ Hold(c, [req[c] EXCEPT !.op = IF req[c].rec.flow = "link" THEN "resolveLink" ELSE "resolveLogin",
                                    !.email = Exchange(a), !.link = None,
                                    !.idn = [provider |-> a.provider, sub |-> a.sub]])
  /\ UNCHANGED <<users, identities, links, jar>>

Unchanged == UNCHANGED <<users, identities, flows, links, jar>>

\* resolveLogin: by identity, else by address, else a new user.
resolveLogin(c) ==
  /\ At(c, "resolveLogin")
  /\ LET found == GetIdentity(req[c].idn.provider, req[c].idn.sub) IN
     IF found = {} THEN Goto(c, "byEmail")
     ELSE \E i \in found : Hold(c, [req[c] EXCEPT !.op = "issue", !.user = i.user])
  /\ Unchanged

\* The user with the address: found, the identity is linked to it (a magic
\* link and a dev login have none to link), else the user is created.
byEmail(c) ==
  /\ At(c, "byEmail")
  /\ LET found == GetUserByEmail(req[c].email) IN
     IF found = {} THEN Goto(c, "create")
     ELSE \E u \in found :
            Hold(c, [req[c] EXCEPT !.user = u,
                       !.op = IF req[c].idn = None \/ req[c].idn.provider = "dev" THEN "issue" ELSE "link"])
  /\ Unchanged

linkIdentity(c) ==
  /\ At(c, "link")
  /\ LET idn == req[c].idn  u == req[c].user IN
     IF IdentityFree(u, idn.provider, idn.sub)
     THEN LinkIdentity(u, idn.provider, idn.sub) /\ Goto(c, "issue")
     ELSE UNCHANGED identities /\ Done(c)
  /\ UNCHANGED <<users, flows, links, jar>>

createUser(c) ==
  /\ At(c, "create")
  /\ IF CanCreate(req[c].email, req[c].idn)
     THEN /\ CreateUserWithPersonalOrg(req[c].email, req[c].idn)
          /\ Hold(c, [req[c] EXCEPT !.op = "issue", !.user = Len(users) + 1])
     ELSE UNCHANGED <<users, identities>> /\ Done(c)
  /\ UNCHANGED <<flows, links, jar>>

\* resolveLink: an account linked to somebody else is refused.
resolveLink(c) ==
  /\ At(c, "resolveLink")
  /\ LET found == GetIdentity(req[c].idn.provider, req[c].idn.sub)
         u     == req[c].rec.user IN
     IF found = {} THEN Hold(c, [req[c] EXCEPT !.op = "link", !.user = u])
     ELSE IF \E i \in found : i.user = u THEN Hold(c, [req[c] EXCEPT !.op = "issue", !.user = u])
     ELSE Done(c)
  /\ Unchanged

-----------------------------------------------------------------------------
(* Magic links and the development login *)

\* Mint, from the consumer of e-mail intents; a redelivery mints another.
Mint(email) ==
  /\ Len(links) < MaxLinks
  /\ links' = Append(links, email)
  /\ UNCHANGED <<users, identities, flows, jar, req, served>>

LinkExpires(t) ==
  /\ links[t] # None
  /\ links' = [links EXCEPT ![t] = None]
  /\ UNCHANGED <<users, identities, flows, jar, req, served>>

\* Mutant: the link is read, and left to expire.
GetCache(t) == UNCHANGED links
\* GETDEL: of two requests with one link, one finds it.
GetDelCache(t) == links' = [links EXCEPT ![t] = None]
handleEmailVerify(c, b, t) ==
  /\ Request(c)
  /\ GetDelCache(t)
  /\ IF links[t] = None THEN UNCHANGED req
     ELSE Hold(c, [SignInRequest("byEmail", b) EXCEPT !.email = links[t], !.link = t])
  /\ UNCHANGED <<users, identities, flows, jar>>

\* resolveDevUser, where the dev login is on: known by address, or created
\* with an identity of its own.
handleDevLogin(c, b, email) ==
  /\ DevLogin /\ Request(c)
  /\ Hold(c, [SignInRequest("byEmail", b) EXCEPT !.email = email,
                !.idn = [provider |-> "dev", sub |-> email]])
  /\ UNCHANGED <<users, identities, flows, links, jar>>

-----------------------------------------------------------------------------
(* The signed-in person's identities *)

\* UnlinkMyIdentity lists the identities, refuses the last one, and deletes in
\* a second statement.
UnlinkMyIdentity(c, b, provider) ==
  /\ Request(c)
  /\ LET mine == ListIdentitiesForUser(jar[b].access) IN
     IF jar[b].access # None /\ Cardinality(mine) > 1 /\ \E i \in mine : i.provider = provider
     THEN Hold(c, [SignInRequest("unlink", b) EXCEPT !.user = jar[b].access, !.rec = provider])
     ELSE UNCHANGED req
  /\ Unchanged

unlinkIdentity(c) ==
  /\ At(c, "unlink")
  /\ UnlinkIdentity(req[c].user, req[c].rec) /\ Done(c)
  /\ UNCHANGED <<users, flows, links, jar>>

AccountRequest(c, b) ==
  \/ \E p \in {a.provider : a \in ProviderAccounts} \cup {"other"} :
       handleLogin(c, b, p) \/ handleLinkStart(c, b, p) \/ UnlinkMyIdentity(c, b, p)
  \/ \E s \in DOMAIN flows \cup {None} : handleCallback(c, b, s)
  \/ \E t \in DOMAIN links : handleEmailVerify(c, b, t)
  \/ \E e \in LinkEmails : handleDevLogin(c, b, e)

AccountStep(c) ==
  HandleCallback(c) \/ resolveLogin(c) \/ byEmail(c) \/ linkIdentity(c) \/ createUser(c)
    \/ resolveLink(c) \/ unlinkIdentity(c)
=============================================================================
