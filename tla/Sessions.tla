------------------------------ MODULE Sessions ------------------------------
(***************************************************************************)
(* Sessions: what a sign-in issues and how it is kept and ended            *)
(* (internal/api/router.go, internal/authn/refresh.go, jwt.go, cookies.go, *)
(* internal/store/refreshtokens.go), over the sign-ins of module Accounts. *)
(* Refresh tokens form families: a rotation replaces a token by a new one, *)
(* and a token used twice revokes its family.  RotateRefreshToken is a     *)
(* READ COMMITTED transaction whose first statement reads without a lock,  *)
(* so it is two steps here.                                                *)
(***************************************************************************)
EXTENDS Accounts

CONSTANT MaxTokens   \* bound: refresh tokens ever issued

VARIABLES
  tokens,            \* refresh_tokens: id -> [user, family, replaced, revoked]
  expired,           \* families past their expiry
  signins,           \* history: link -> sessions issued for it
  dead,              \* history: families revoked
  raced              \* history: families with a rotation open while another
                     \*   rotation of theirs, or their revocation, ran

tokenVars == <<tokens, expired, signins, dead, raced>>

\* A person who signed in once before, and a link that was mailed.
SessionsInit ==
  /\ LET a == CHOOSE x \in ProviderAccounts : Exchange(x) # None  b == CHOOSE x \in Browsers : TRUE IN
     /\ users = <<Exchange(a)>>
     /\ identities = {[user |-> 1, provider |-> a.provider, sub |-> a.sub]}
     /\ jar = [x \in Browsers |-> IF x = b THEN [access |-> 1, refresh |-> 1, state |-> None]
                                  ELSE NoCookies]
  /\ tokens = <<[user |-> 1, family |-> 1, replaced |-> None, revoked |-> FALSE]>>
  /\ flows = << >> /\ links = << >>
  /\ req = [c \in Clients |-> None] /\ served = 0
  /\ expired = {} /\ dead = {} /\ raced = {}
  /\ signins = [t \in 1..MaxLinks |-> 0]

-----------------------------------------------------------------------------
(* store/refreshtokens.go *)

\* A token that has no family yet is the first of its own.
FamilyOf(i) == IF tokens[i].family = None THEN i ELSE tokens[i].family

\* Rotations of family f between their first statement and their commit.
Open(f) == {c \in Clients : req[c] # None /\ req[c].op = "rotate" /\ FamilyOf(req[c].tok) = f}

RevokeWhere(ids) ==
  /\ tokens' = [i \in DOMAIN tokens |->
                  IF i \in ids THEN [tokens[i] EXCEPT !.revoked = TRUE] ELSE tokens[i]]
  /\ LET fs == {FamilyOf(i) : i \in ids} IN
     /\ dead' = dead \cup fs
     /\ raced' = raced \cup {f \in fs : Open(f) # {}}
RevokeRefreshTokenFamily(f) == RevokeWhere({i \in DOMAIN tokens : tokens[i].family = f})
RevokeAllForUser(u)         == RevokeWhere({i \in DOMAIN tokens : tokens[i].user = u})

-----------------------------------------------------------------------------
(* issueSession *)

SetSession(b, u, i) == Cookies(b, [jar[b] EXCEPT !.access = u, !.refresh = i, !.state = None])
ClearSession(b)     == Cookies(b, [jar[b] EXCEPT !.access = None, !.refresh = None])

\* CreateRefreshToken inserts the row, then makes it the head of its family.
insertToken(c) ==
  /\ At(c, "issue") /\ Len(tokens) < MaxTokens
  /\ tokens' = Append(tokens, [user |-> req[c].user, family |-> None, replaced |-> None, revoked |-> FALSE])
  /\ Hold(c, [op |-> "family", b |-> req[c].b, tok |-> Len(tokens) + 1, user |-> req[c].user,
              link |-> req[c].link, end |-> "session"])
  /\ UNCHANGED <<users, identities, flows, links, jar, expired, signins, dead, raced>>

issueSession(c) ==
  /\ At(c, "family")
  /\ LET r == req[c] IN
     /\ tokens' = [tokens EXCEPT ![r.tok].family = r.tok]
     /\ SetSession(r.b, r.user, r.tok)
     /\ signins' = IF r.link = None THEN signins ELSE [signins EXCEPT ![r.link] = @ + 1]
  /\ Done(c)
  /\ UNCHANGED <<users, identities, flows, links, expired, dead, raced>>

-----------------------------------------------------------------------------
(* Rotate: handleRefresh, and handleLogoutAll without an access token. *)

TokenRequest(op, b, i, end) ==
  [op |-> op, b |-> b, tok |-> i, user |-> tokens[i].user, link |-> None, end |-> end]

Refused(b, end) == IF end = "session" THEN ClearSession(b) ELSE UNCHANGED jar

\* GetRefreshTokenByHash and the checks on what it returned: a token replaced
\* before is a reuse; a revoked or expired one is refused.
Rotate(c, b, end) ==
  LET i == jar[b].refresh IN
  IF i = None THEN UNCHANGED <<req, jar>>
  ELSE IF tokens[i].replaced # None THEN Hold(c, TokenRequest("reuse", b, i, end)) /\ UNCHANGED jar
  ELSE IF tokens[i].revoked \/ FamilyOf(i) \in expired THEN UNCHANGED req /\ Refused(b, end)
  ELSE Hold(c, TokenRequest("select", b, i, end)) /\ UNCHANGED jar

handleRefresh(c, b) ==
  /\ Request(c) /\ Rotate(c, b, "session")
  /\ UNCHANGED <<users, identities, flows, links, tokenVars>>

\* Mutant: the statement asks only whether the token was replaced.
unreplaced(t) == t.replaced = None
stillCurrent(t) == t.replaced = None /\ ~ t.revoked

\* RotateRefreshToken, first statement: no row means a reuse.
selectToken(c) ==
  /\ At(c, "select")
  /\ LET f == FamilyOf(req[c].tok) IN
     IF stillCurrent(tokens[req[c].tok])
     THEN /\ Goto(c, "rotate")
          /\ raced' = IF Open(f) = {} THEN raced ELSE raced \cup {f}
     ELSE Goto(c, "reuse") /\ UNCHANGED raced
  /\ UNCHANGED <<users, identities, flows, links, jar, tokens, expired, signins, dead>>

\* The rest of the transaction: the new token, and the old one's replaced_by.
RotateRefreshToken(c) ==
  /\ At(c, "rotate") /\ Len(tokens) < MaxTokens
  /\ LET r == req[c]  new == Len(tokens) + 1 IN
     /\ tokens' = Append([tokens EXCEPT ![r.tok].replaced = new],
                    [user |-> r.user, family |-> tokens[r.tok].family, replaced |-> None, revoked |-> FALSE])
     /\ IF r.end = "session" THEN SetSession(r.b, r.user, new) /\ Done(c)
        ELSE Goto(c, "revokeAll") /\ UNCHANGED jar
  /\ UNCHANGED <<users, identities, flows, links, expired, signins, dead, raced>>

reuseDetected(c) ==
  /\ At(c, "reuse")
  /\ RevokeRefreshTokenFamily(FamilyOf(req[c].tok))
  /\ Refused(req[c].b, req[c].end) /\ Done(c)
  /\ UNCHANGED <<users, identities, flows, links, expired, signins>>

-----------------------------------------------------------------------------
(* Ending sessions *)

handleLogout(c, b) ==
  /\ Request(c)
  /\ IF jar[b].refresh = None THEN UNCHANGED req /\ ClearSession(b)
     ELSE Hold(c, TokenRequest("logout", b, jar[b].refresh, "logout")) /\ UNCHANGED jar
  /\ UNCHANGED <<users, identities, flows, links, tokenVars>>

RevokeFamily(c) ==
  /\ At(c, "logout")
  /\ RevokeRefreshTokenFamily(FamilyOf(req[c].tok))
  /\ ClearSession(req[c].b) /\ Done(c)
  /\ UNCHANGED <<users, identities, flows, links, expired, signins>>

\* The person is known by the access token, else by rotating the refresh token.
handleLogoutAll(c, b) ==
  /\ Request(c)
  /\ IF jar[b].access = None THEN Rotate(c, b, "logoutAll")
     ELSE /\ Hold(c, [op |-> "revokeAll", b |-> b, tok |-> None, user |-> jar[b].access,
                      link |-> None, end |-> "logoutAll"])
          /\ UNCHANGED jar
  /\ UNCHANGED <<users, identities, flows, links, tokenVars>>

\* The api's LogoutAll, for a signed-in person; it leaves the cookies.
LogoutAll(c, b) ==
  /\ Request(c) /\ jar[b].access # None
  /\ Hold(c, [op |-> "revokeAll", b |-> b, tok |-> None, user |-> jar[b].access,
              link |-> None, end |-> "api"])
  /\ UNCHANGED <<users, identities, flows, links, jar, tokenVars>>

RevokeAll(c) ==
  /\ At(c, "revokeAll")
  /\ RevokeAllForUser(req[c].user)
  /\ IF req[c].end = "logoutAll" THEN ClearSession(req[c].b) ELSE UNCHANGED jar
  /\ Done(c)
  /\ UNCHANGED <<users, identities, flows, links, expired, signins>>

-----------------------------------------------------------------------------
(* Time and failures *)

AccessExpires(b) ==
  /\ jar[b].access # None
  /\ Cookies(b, [jar[b] EXCEPT !.access = None])
  /\ UNCHANGED <<users, identities, flows, links, req, served, tokenVars>>

\* A rotated token keeps its family's expiry.
FamilyExpires(f) ==
  /\ f \notin expired /\ expired' = expired \cup {f}
  /\ UNCHANGED <<accountVars, tokens, signins, dead, raced>>

\* The process ends or a call fails; the browser gets no cookies.
Abort(c) == req[c] # None /\ Done(c) /\ UNCHANGED <<users, identities, flows, links, jar, served, tokenVars>>

PeopleNext ==
  \/ \E c \in Clients, b \in Browsers :
       \/ AccountRequest(c, b) /\ UNCHANGED tokenVars
       \/ handleRefresh(c, b) \/ handleLogout(c, b) \/ handleLogoutAll(c, b) \/ LogoutAll(c, b)
  \/ \E c \in Clients :
       \/ AccountStep(c) /\ UNCHANGED tokenVars
       \/ insertToken(c) \/ issueSession(c) \/ selectToken(c) \/ RotateRefreshToken(c)
       \/ reuseDetected(c) \/ RevokeFamily(c) \/ RevokeAll(c) \/ Abort(c)
  \/ (\E e \in LinkEmails : Mint(e)) /\ UNCHANGED tokenVars
  \/ (\E t \in DOMAIN links : LinkExpires(t)) /\ UNCHANGED tokenVars
  \/ \E b \in Browsers : AccessExpires(b)
  \/ \E f \in {FamilyOf(i) : i \in DOMAIN tokens} : FamilyExpires(f)

-----------------------------------------------------------------------------
(* Correctness. *)

Live(f) == {i \in DOMAIN tokens : tokens[i].family = f /\ tokens[i].replaced = None /\ ~ tokens[i].revoked}

\* A login has one token that works at a time, and none once it was ended by a
\* logout or by the reuse of an old token, whatever rotations, reuses and
\* logouts of several browsers come in which order.  The exception is a family
\* with a rotation between its read and its commit when another rotation of it
\* reads, or when it is revoked: the read takes no lock.
ChainIntact ==
  \A f \in {FamilyOf(i) : i \in DOMAIN tokens} \ raced :
    /\ Cardinality(Live(f)) <= 1
    /\ f \in dead => Live(f) = {}

\* A mailed link signs in once, however many requests carry it at once.
OneSignInPerLink == \A t \in 1..MaxLinks : signins[t] <= 1
=============================================================================
