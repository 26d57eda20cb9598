------------------------------ MODULE Checker -------------------------------
(***************************************************************************)
(* internal/checker: one check of a monitor.  Pure operators: what the     *)
(* network does during the check is an argument w,                         *)
(*   lookup   the kinds of address the host resolves to, {} on failure;    *)
(*   dials    the kind of address of each connection it makes: a redirect  *)
(*            or a changed DNS answer makes it differ from lookup;         *)
(*   answer   "refused", "timeout" or "reply"; with a reply its status,    *)
(*            ms, how reading the body ends (read) and whether it has the  *)
(*            text asked for (has);                                        *)
(*   cert     the peer's certificate: "none", "ok", "expired", "invalid",  *)
(*            and days, whole days until it expires.                       *)
(* A list of status codes is a sequence of entries [kind, n]: a code, a    *)
(* range nxx, or junk.                                                     *)
(***************************************************************************)
EXTENDS Integers, Sequences

CONSTANT None

\* A list parses when every entry is a code in 100..599 or a range 1xx..5xx.
ParseStatusCodes(spec) ==
  /\ spec # << >>
  /\ \A i \in 1..Len(spec) :
       \/ spec[i].kind = "range" /\ spec[i].n \in 1..5
       \/ spec[i].kind = "code"  /\ spec[i].n \in 100..599

\* Mutant: a range takes in the first code of the next one.
rangeInclusive(spec, code) ==
  \E i \in 1..Len(spec) :
    \/ spec[i].kind = "code"  /\ spec[i].n = code
    \/ spec[i].kind = "range" /\ code \in (spec[i].n * 100)..(spec[i].n * 100 + 100)
Matches(spec, code) ==
  \E i \in 1..Len(spec) :
    \/ spec[i].kind = "code"  /\ spec[i].n = code
    \/ spec[i].kind = "range" /\ spec[i].n = code \div 100

isBlockedIP(ip) == ip \in {"loopback", "link-local", "private"}

resolveAndCheck(w) ==
  CASE w.lookup = {}                          -> "connection_error"
    [] \E ip \in w.lookup : isBlockedIP(ip)   -> "blocked_target"
    [] OTHER                                  -> None

dialControl(ip) == ~ isBlockedIP(ip)

\* The connections that are made: up to the first refused one when block is on.
Connections(w, block) ==
  IF block /\ resolveAndCheck(w) # None THEN << >>
  ELSE LET ok == {n \in 0..Len(w.dials) : \A i \in 1..n : block => dialControl(w.dials[i])}
       IN SubSeq(w.dials, 1, CHOOSE n \in ok : \A k \in ok : k <= n)

DialRefused(w, block) == Connections(w, block) # w.dials

isTimeoutErr(err) == err = "timeout"
failed(err) == IF isTimeoutErr(err) THEN "timeout" ELSE "connection_error"

Result(healthy, reason, status, snapshot, cert) ==
  [healthy |-> healthy, reason |-> reason, status |-> status, snapshot |-> snapshot, cert |-> cert]
withReason(reason) == Result(FALSE, reason, None, FALSE, FALSE)

\* The assertions in their order: status, latency, body.
responseReason(m, w) ==
  IF m.expected # << >> /\ ~ (ParseStatusCodes(m.expected) /\ Matches(m.expected, w.status))
  THEN "status_mismatch"
  ELSE IF m.latency # None /\ w.ms > m.latency THEN "latency_exceeded"
  ELSE IF m.contains /\ ~ w.has THEN "body_assertion_failed"
  ELSE None

checkHTTP(m, w, block, capture) ==
  LET pre  == resolveAndCheck(w)
      fail == responseReason(m, w) IN
  IF block /\ pre # None THEN withReason(pre)
  ELSE IF DialRefused(w, block) THEN withReason("connection_error")
  ELSE IF w.answer # "reply" THEN withReason(failed(w.answer))
  ELSE IF m.contains /\ w.read # "ok" THEN Result(FALSE, failed(w.read), w.status, FALSE, FALSE)
  ELSE Result(fail = None, fail, w.status, fail # None /\ capture, FALSE)

\* SSLWarnLevel >= 1: at the instant of expiry the level is 0.
expiringSoon(w) == w.days \in 1..7
checkSSL(m, w, block) ==
  LET pre == resolveAndCheck(w)
      certReason == CASE w.cert = "expired" -> "cert_expired"
                      [] w.cert = "invalid" -> "cert_invalid"
                      [] expiringSoon(w)    -> "cert_expiring_soon"
                      [] OTHER              -> None IN
  IF block /\ pre # None THEN withReason(pre)
  ELSE IF DialRefused(w, block) THEN withReason("connection_error")
  ELSE IF w.answer # "reply" THEN withReason(failed(w.answer))
  ELSE IF w.cert = "none" THEN withReason("connection_error")
  ELSE Result(certReason = None, certReason, None, FALSE, TRUE)

Check(m, w, block, capture) ==
  IF m.type = "ssl" THEN checkSSL(m, w, block) ELSE checkHTTP(m, w, block, capture)
=============================================================================
