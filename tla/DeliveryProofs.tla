--------------------------- MODULE DeliveryProofs ---------------------------
(***************************************************************************)
(* The fan-out of one event, for any channels, members, webhooks, events   *)
(* and retry policy, and a shutdown at any point: what is recorded is what *)
(* happened, Team email reaches the team, and a recovery that went through *)
(* leaves no alert open.                                                   *)
(*                                                                         *)
(* The goroutines share the collector only, so the invariant speaks of one *)
(* channel at a time (ChannelFits), and a step of one leaves the others'   *)
(* as they are (OneChannel).                                               *)
(***************************************************************************)
EXTENDS Delivery, FiniteSetTheorems, SequenceTheorems, TLAPS

\* How far a goroutine is: its attempts are the sends made, the collector has
\* the last of them, and it goes on only after an error.
GoFits(g, k, s) ==
  /\ g = [at |-> g.at, n |-> g.n, todo |-> g.todo] /\ g.n \in 0..maxRetries
  /\ g.at \in {"off", "send", "mail", "backoff", "hung", "done"}
  /\ g.at \in {"send", "mail", "backoff", "hung"} => g.n < maxRetries
  /\ s \in Seq(BOOLEAN) /\ Len(s) = g.n
  /\ k # None => /\ g.n > 0 /\ k.attempts = g.n /\ k.err = s[g.n]
                 /\ g.at \in {"send", "mail", "backoff", "hung"} => k.err

\* Mails of a Team email, with b the copies each member got and on who is active:
\* one per attempt, and in this attempt for those who are not waiting for it.
Waits(g, m) == g.at = "mail" /\ \E i \in DOMAIN g.todo : g.todo[i] = m
Copies(g, m) == IF g.at = "hung" \/ (g.at = "mail" /\ ~ Waits(g, m)) THEN g.n + 1 ELSE g.n
MailFits(ch, g, k, b, on) ==
  /\ g.todo \in Seq(Members) /\ (g.at = "mail" => g.todo # << >> /\ ch.type = "email")
  /\ \A i, j \in DOMAIN g.todo : g.todo[i] = g.todo[j] => i = j
  /\ b \in [Members -> Nat] /\ \A m \in Members : b[m] <= Copies(g, m)
  /\ \A m \in memberIDs(ch.cfg) \cap on :
       /\ g.at = "mail" => Waits(g, m) \/ b[m] > 0
       /\ ch.type = "email" /\ k # None /\ ~ k.err => b[m] > 0

\* The on-call tool's alert after a recovery that was accepted.
OnCall == {"pagerduty", "opsgenie"}
AlertFits(ch, e, k, alert) ==
  ch.type \in OnCall /\ e.type = "recovery" /\ k # None /\ ~ k.err => alert[e.inc] = "closed"

\* The row of the channel is what the collector says.
Row(k) == [status |-> IF k.err THEN "failed" ELSE "delivered", attempts |-> k.attempts]

Incs  == {Script[e].inc : e \in Steps}
Alerts == [Incs -> {"none", "open", "closed"}]
Tables ==
  /\ cur \in Nat /\ active \subseteq Members /\ stage \in {"load", "dispatch", "hooks", "stopped"}
  /\ gor = [c \in DOMAIN Channels |-> gor[c]] /\ col = [c \in DOMAIN Channels |-> col[c]]
  /\ calls = [c \in DOMAIN Channels |-> calls[c]] /\ inbox = [c \in DOMAIN Channels |-> inbox[c]]
  /\ remote \in [DOMAIN Channels -> Alerts]
  /\ stage \in {"load", "stopped"} => rows = NoRows /\ calls = NoCalls /\ inbox = NoMail
  /\ stage \in {"dispatch", "hooks"} => cur \in Steps
ChannelFits(c) ==
  /\ GoFits(gor[c], col[c], calls[c])
  /\ MailFits(Channels[c], gor[c], col[c], inbox[c], active)
  /\ AlertFits(Channels[c], ev, col[c], remote[c])
  /\ stage = "dispatch" => rows[c] = None
  /\ stage = "hooks" => /\ gor[c].at \in {"off", "done"}
                        /\ rows[c] # None => col[c] # None /\ rows[c] = Row(col[c])
DeliveryInv ==
  Tables /\ (stage \in {"dispatch", "hooks"} => \A c \in DOMAIN Channels : ChannelFits(c))

-----------------------------------------------------------------------------
(* One channel *)

LEMMA Retries == maxRetries \in Nat \ {0}
<1>1. Attempts \in Int
  BY DeliveryAssumption, Zenon
<1> QED BY <1>1 DEF maxRetries, SetRetryPolicy

\* The goroutine, the collector and the sends after an attempt.
After(g, err) == [at |-> IF err /\ g.n + 1 < maxRetries THEN "backoff" ELSE "done",
                  n  |-> g.n + 1, todo |-> << >>]
Noted(g, err) == [attempts |-> g.n + 1, err |-> err]

LEMMA AttemptFits ==
  ASSUME NEW g, NEW k, NEW s, GoFits(g, k, s), g.at \in {"send", "mail"}, NEW err \in BOOLEAN
  PROVE  GoFits(After(g, err), Noted(g, err), Append(s, err))
<1>1. PICK h, q, t : h = After(g, err) /\ q = Noted(g, err) /\ t = Append(s, err)
  OBVIOUS
<1>2. g.n \in Nat /\ g.n < maxRetries /\ maxRetries \in Nat /\ s \in Seq(BOOLEAN) /\ Len(s) = g.n
  BY Retries DEF GoFits
<1>3. t \in Seq(BOOLEAN) /\ Len(t) = g.n + 1 /\ t[g.n + 1] = err
  BY <1>1, <1>2, AppendProperties
<1>4. /\ h.n = g.n + 1 /\ h.at = IF err /\ g.n + 1 < maxRetries THEN "backoff" ELSE "done"
      /\ h = [at |-> h.at, n |-> h.n, todo |-> h.todo] /\ q.attempts = g.n + 1 /\ q.err = err
  BY <1>1 DEF After, Noted
<1> QED BY <1>1, <1>2, <1>3, <1>4 DEF GoFits

\* A channel after an attempt: everybody it mailed has one copy more at most.
LEMMA MailAfter ==
  ASSUME NEW ch, NEW g, NEW k, NEW b, NEW on, MailFits(ch, g, k, b, on), g.n \in Nat, NEW err \in BOOLEAN,
         NEW d \in [Members -> Nat],
         \A m \in Members : d[m] <= g.n + 1,
         ch.type = "email" /\ ~ err => \A m \in memberIDs(ch.cfg) \cap on : d[m] > 0
  PROVE  MailFits(ch, After(g, err), Noted(g, err), d, on)
<1>1. PICK h, q : h = After(g, err) /\ q = Noted(g, err)
  OBVIOUS
<1>2. h.n = g.n + 1 /\ h.at \notin {"mail", "hung"} /\ h.todo = << >> /\ q.err = err
  BY <1>1 DEF After, Noted
<1>3. \A m : Copies(h, m) = g.n + 1
  BY <1>2 DEF Copies
<1>4. h.todo \in Seq(Members) /\ DOMAIN h.todo = {}
  BY <1>2
<1> QED BY <1>1, <1>2, <1>3, <1>4 DEF MailFits

\* Nobody has more copies than attempts were made, this one included.
LEMMA CopiesBound ==
  ASSUME NEW ch, NEW g, NEW k, NEW b, NEW on, MailFits(ch, g, k, b, on), g.n \in Nat, NEW m \in Members
  PROVE  b[m] \in Nat /\ b[m] <= g.n + 1 /\ (g.at = "send" \/ Waits(g, m) => b[m] <= g.n)
BY DEF MailFits, Copies, Waits

\* A step of the goroutine of c changes what is c's.
Moves(c, g, k, s, b, alert) ==
  /\ gor'    = [d \in DOMAIN Channels |-> IF d = c THEN g ELSE gor[d]]
  /\ col'    = [d \in DOMAIN Channels |-> IF d = c THEN k ELSE col[d]]
  /\ calls'  = [d \in DOMAIN Channels |-> IF d = c THEN s ELSE calls[d]]
  /\ inbox'  = [d \in DOMAIN Channels |-> IF d = c THEN b ELSE inbox[d]]
  /\ remote' = [d \in DOMAIN Channels |-> IF d = c THEN alert ELSE remote[d]]

LEMMA OneChannel ==
  ASSUME DeliveryInv, stage = "dispatch", UNCHANGED <<cur, stage, active, rows>>, NEW c \in DOMAIN Channels,
         NEW g, NEW k, NEW s, NEW b, NEW alert \in Alerts, Moves(c, g, k, s, b, alert),
         GoFits(g, k, s), MailFits(Channels[c], g, k, b, active), AlertFits(Channels[c], ev, k, alert)
  PROVE  DeliveryInv'
<1>1. ev' = ev
  BY DEF ev
<1>2. Tables'
  <2>1. /\ gor' = [d \in DOMAIN Channels |-> gor'[d]] /\ col' = [d \in DOMAIN Channels |-> col'[d]]
        /\ calls' = [d \in DOMAIN Channels |-> calls'[d]] /\ inbox' = [d \in DOMAIN Channels |-> inbox'[d]]
    BY DEF Moves
  <2>2. remote' \in [DOMAIN Channels -> Alerts]
    BY DEF Moves, DeliveryInv, Tables
  <2> QED BY <2>1, <2>2 DEF Tables, DeliveryInv
<1>3. ASSUME NEW d \in DOMAIN Channels PROVE ChannelFits(d)'
  <2>1. CASE d = c
    <3>1. gor'[d] = g /\ col'[d] = k /\ calls'[d] = s /\ inbox'[d] = b /\ remote'[d] = alert
      BY <2>1 DEF Moves
    <3>2. GoFits(gor'[d], col'[d], calls'[d]) /\ MailFits(Channels[d], gor'[d], col'[d], inbox'[d], active')
      BY <2>1, <3>1
    <3>3. AlertFits(Channels[d], ev', col'[d], remote'[d]) /\ rows'[d] = None
      BY <1>1, <2>1, <3>1 DEF DeliveryInv, ChannelFits
    <3> QED BY <3>2, <3>3 DEF ChannelFits
  <2>2. CASE d # c
    <3>1. gor'[d] = gor[d] /\ col'[d] = col[d] /\ calls'[d] = calls[d] /\ inbox'[d] = inbox[d] /\ remote'[d] = remote[d]
      BY <2>2 DEF Moves
    <3> QED BY <1>1, <3>1 DEF DeliveryInv, ChannelFits
  <2> QED BY <2>1, <2>2
<1> QED BY <1>2, <1>3 DEF DeliveryInv

\* What an attempt changes, said with Moves.
LEMMA AttemptMoves ==
  ASSUME DeliveryInv, NEW c \in DOMAIN Channels, NEW err, Attempted(c, err), NEW b, NEW alert,
         inbox' = [inbox EXCEPT ![c] = b], remote' = [remote EXCEPT ![c] = alert]
  PROVE  Moves(c, After(gor[c], err), Noted(gor[c], err), Append(calls[c], err), b, alert)
<1>1. /\ gor = [d \in DOMAIN Channels |-> gor[d]] /\ col = [d \in DOMAIN Channels |-> col[d]]
      /\ calls = [d \in DOMAIN Channels |-> calls[d]] /\ inbox = [d \in DOMAIN Channels |-> inbox[d]]
      /\ remote \in [DOMAIN Channels -> Alerts]
  BY DEF DeliveryInv, Tables
<1>2. PICK h, q, t : h = After(gor[c], err) /\ q = Noted(gor[c], err) /\ t = Append(calls[c], err)
  OBVIOUS
<1>3. gor' = [gor EXCEPT ![c] = h] /\ col' = [col EXCEPT ![c] = q] /\ calls' = [calls EXCEPT ![c] = t]
  BY <1>2 DEF Attempted, collect, After, Noted
<1>4. Moves(c, h, q, t, b, alert)
  BY <1>1, <1>3 DEF Moves
<1> QED BY <1>2, <1>4

-----------------------------------------------------------------------------
(* The steps of a goroutine *)

LEMMA SendKeeps ==
  ASSUME DeliveryInv, NEW c \in DOMAIN Channels, Send(c)
  PROVE  DeliveryInv'
<1>1. stage = "dispatch" /\ gor[c].at = "send" /\ UNCHANGED <<cur, stage, active, rows, inbox>> /\ Channels[c].type # "email"
  BY DEF Send, outside
<1>2. ChannelFits(c) /\ cur \in Steps /\ remote \in [DOMAIN Channels -> Alerts]
  BY <1>1 DEF DeliveryInv, Tables
<1>3. PICK g, b : g = gor[c] /\ b = inbox[c]
  OBVIOUS
<1>4. GoFits(g, col[c], calls[c]) /\ MailFits(Channels[c], g, col[c], b, active) /\ g.n \in Nat
  BY <1>2, <1>3, Retries DEF ChannelFits, GoFits
<1>5. ev.inc \in Incs /\ (ev.type = "recovery" => ev.test = FALSE)
  BY <1>2, DeliveryAssumption DEF ev, Incs, Steps
<1>6. inbox' = [inbox EXCEPT ![c] = b]
  BY <1>1, <1>3 DEF DeliveryInv, Tables
<1>7. ASSUME NEW err \in BOOLEAN, Attempted(c, err), NEW alert \in Alerts, remote' = [remote EXCEPT ![c] = alert],
             AlertFits(Channels[c], ev, Noted(g, err), alert)
      PROVE  DeliveryInv'
  <2>1. Moves(c, After(g, err), Noted(g, err), Append(calls[c], err), b, alert)
    BY <1>3, <1>6, <1>7, AttemptMoves
  <2>2. GoFits(After(g, err), Noted(g, err), Append(calls[c], err))
    BY <1>1, <1>3, <1>4, AttemptFits
  <2>3. b \in [Members -> Nat] /\ \A m \in Members : b[m] <= g.n + 1
    BY <1>4, CopiesBound DEF MailFits
  <2>4. MailFits(Channels[c], After(g, err), Noted(g, err), b, active)
    BY <1>1, <1>4, <2>3, MailAfter
  <2> QED BY <1>1, <1>7, <2>1, <2>2, <2>4, OneChannel
<1>8. CASE UNCHANGED remote /\ Attempted(c, TRUE)
  <2>1. remote[c] \in Alerts /\ remote' = [remote EXCEPT ![c] = remote[c]]
    BY <1>2, <1>8
  <2>2. AlertFits(Channels[c], ev, Noted(g, TRUE), remote[c])
    BY DEF AlertFits, Noted
  <2> QED BY <1>7, <1>8, <2>1, <2>2
<1>9. ASSUME NEW err \in BOOLEAN, Apply(c, Ask(c)), Ask(c) # None, Attempted(c, err) PROVE DeliveryInv'
  <2>1. PICK call : call = Ask(c)
    OBVIOUS
  <2>2. CASE Channels[c].type \in OnCall
    <3>1. call = Call(IF ev.type = "recovery" /\ ~ ev.test THEN "resolve" ELSE "trigger", ev.inc)
      BY <1>9, <2>1, <2>2 DEF Ask, SendCall, pagerdutySend, opsgenieSend, pdDedupKey, opsgenieAlias, OnCall
    <3>2. call.act \in {"trigger", "resolve"} /\ call.alias = ev.inc /\ (ev.type = "recovery" => call.act = "resolve")
      BY <1>5, <3>1 DEF Call
    <3>3. PICK alert : alert = [remote[c] EXCEPT ![ev.inc] = IF call.act = "trigger" THEN "open" ELSE "closed"]
      OBVIOUS
    <3>4. remote' = [remote EXCEPT ![c] = alert]
      BY <1>9, <2>1, <3>2, <3>3 DEF Apply
    <3>5. alert \in Alerts /\ (ev.type = "recovery" => alert[ev.inc] = "closed")
      BY <1>2, <1>5, <3>2, <3>3 DEF Alerts
    <3>6. AlertFits(Channels[c], ev, Noted(g, err), alert)
      BY <3>5 DEF AlertFits
    <3> QED BY <1>7, <1>9, <3>4, <3>5, <3>6
  <2>3. CASE Channels[c].type \notin OnCall
    <3>1. call.act \notin {"trigger", "resolve"}
      BY <1>9, <2>1, <2>3 DEF Ask, SendCall, OnCall, discordSend, slackSend, teamsSend, webhookSend, telegramSend,
         twilioSend, smtpDeliver, emailSend, postJSON, Call
    <3>2. remote' = [remote EXCEPT ![c] = remote[c]] /\ remote[c] \in Alerts
      BY <1>2, <1>9, <2>1, <3>1 DEF Apply
    <3>3. AlertFits(Channels[c], ev, Noted(g, err), remote[c])
      BY <2>3 DEF AlertFits
    <3> QED BY <1>7, <1>9, <3>2, <3>3
  <2> QED BY <2>2, <2>3
<1> QED BY <1>8, <1>9 DEF Send

\* The addresses: every active member that was selected, once.
LEMMA EmailsOf ==
  ASSUME active \subseteq Members, NEW ids
  PROVE  LET to == ActiveMemberEmails(ids) IN
         /\ to \in Seq(Members)
         /\ \A i, j \in DOMAIN to : to[i] = to[j] => i = j
         /\ \A m \in ids \cap active : \E i \in DOMAIN to : to[i] = m
         /\ Len(to) <= Cardinality(Members)
<1>1. PICK T : T = ids \cap active
  OBVIOUS
<1>2. IsFiniteSet(Members)
  BY DeliveryAssumption, Zenon
<1>3. T \subseteq Members /\ IsFiniteSet(T)
  BY <1>1, <1>2, FS_Subset
<1>4. PICK n0 : n0 = Cardinality(T) /\ n0 \in Nat
  BY <1>3, FS_CardinalityType
<1>5. IsFiniteSet(1..n0) /\ Cardinality(1..n0) = n0
  BY <1>4, FS_Interval
<1>6. PICK f : f \in Bijection(1..n0, T)
  BY <1>3, <1>4, <1>5, FS_SameCardinalityBij DEF ExistsBijection
<1>7. PICK to : to = CHOOSE s \in [1..n0 -> T] : \A i, j \in DOMAIN s : s[i] = s[j] => i = j
  OBVIOUS
<1>8. to \in [1..n0 -> T] /\ \A i, j \in DOMAIN to : to[i] = to[j] => i = j
  <2>1. f \in [1..n0 -> T] /\ \A i, j \in DOMAIN f : f[i] = f[j] => i = j
    BY <1>6 DEF Bijection, Injection, IsInjective
  <2> QED BY <1>7, <2>1, ZenonT(40)
<1>9. to \in Injection(1..n0, T)
  BY <1>8 DEF Injection, IsInjective
<1>10. to \in Surjection(1..n0, T)
  BY <1>3, <1>4, <1>5, <1>9, FS_Injection
<1>11. \A m \in T : \E i \in DOMAIN to : to[i] = m
  BY <1>8, <1>10 DEF Surjection
<1>12. to \in Seq(Members)
  BY <1>3, <1>4, <1>8, SeqDef
<1>13. ActiveMemberEmails(ids) = to
  BY <1>1, <1>4, <1>7 DEF ActiveMemberEmails
<1>14. Len(to) <= Cardinality(Members)
  <2>1. Len(to) = n0
    BY <1>4, <1>8, <1>12, LenProperties
  <2>2. Cardinality(T) <= Cardinality(Members)
    BY <1>2, <1>3, FS_Subset
  <2> QED BY <1>4, <2>1, <2>2
<1> QED BY <1>1, <1>8, <1>11, <1>12, <1>13, <1>14

LEMMA ResolveKeeps ==
  ASSUME DeliveryInv, NEW c \in DOMAIN Channels, Resolve(c)
  PROVE  DeliveryInv'
<1>1. /\ stage = "dispatch" /\ gor[c].at = "send" /\ UNCHANGED <<cur, stage, active, rows, inbox, remote>>
      /\ Channels[c].type = "email"
  BY DEF Resolve, outside
<1>2. ChannelFits(c) /\ remote \in [DOMAIN Channels -> Alerts] /\ active \subseteq Members
  BY <1>1 DEF DeliveryInv, Tables
<1>3. PICK g, b : g = gor[c] /\ b = inbox[c]
  OBVIOUS
<1>4. GoFits(g, col[c], calls[c]) /\ MailFits(Channels[c], g, col[c], b, active) /\ g.n \in Nat
  BY <1>2, <1>3, Retries DEF ChannelFits, GoFits
<1>5. inbox' = [inbox EXCEPT ![c] = b] /\ remote' = [remote EXCEPT ![c] = remote[c]] /\ remote[c] \in Alerts
  BY <1>1, <1>2, <1>3 DEF DeliveryInv, Tables
<1>6. PICK to : to = ActiveMemberEmails(memberIDs(Channels[c].cfg))
  OBVIOUS
<1>7. /\ to \in Seq(Members) /\ \A i, j \in DOMAIN to : to[i] = to[j] => i = j
      /\ \A m \in memberIDs(Channels[c].cfg) \cap active : \E i \in DOMAIN to : to[i] = m
  BY <1>2, <1>6, EmailsOf
<1>8. ASSUME NEW k, NEW alert PROVE AlertFits(Channels[c], ev, k, alert)
  BY <1>1 DEF AlertFits, OnCall
<1>9. ASSUME NEW err \in BOOLEAN, Attempted(c, err), ~ err => to = << >> PROVE DeliveryInv'
  <2>1. Moves(c, After(g, err), Noted(g, err), Append(calls[c], err), b, remote[c])
    BY <1>3, <1>5, <1>9, AttemptMoves
  <2>2. GoFits(After(g, err), Noted(g, err), Append(calls[c], err))
    BY <1>1, <1>3, <1>4, AttemptFits
  <2>3. b \in [Members -> Nat] /\ \A m \in Members : b[m] <= g.n + 1
    BY <1>4, CopiesBound DEF MailFits
  <2>4. ~ err => memberIDs(Channels[c].cfg) \cap active = {}
    BY <1>7, <1>9
  <2>5. MailFits(Channels[c], After(g, err), Noted(g, err), b, active)
    BY <1>4, <2>3, <2>4, MailAfter
  <2> QED BY <1>1, <1>5, <1>8, <2>1, <2>2, <2>5, OneChannel
<1>10. CASE to # << >> /\ gor' = [gor EXCEPT ![c].at = "mail", ![c].todo = to] /\ UNCHANGED <<col, calls>>
  <2>1. PICK h : h = [at |-> "mail", n |-> g.n, todo |-> to]
    OBVIOUS
  <2>2. g = [at |-> g.at, n |-> g.n, todo |-> g.todo] /\ gor = [d \in DOMAIN Channels |-> gor[d]]
    BY <1>4 DEF GoFits, DeliveryInv, Tables
  <2>3. gor' = [gor EXCEPT ![c] = h]
    <3>1. PICK x : x = [gor EXCEPT ![c].at = "mail"]
      OBVIOUS
    <3>2. gor' = [x EXCEPT ![c].todo = to]
      BY <1>10, <3>1
    <3>3. x[c] = [at |-> "mail", n |-> g.n, todo |-> g.todo]
      BY <1>3, <2>2, <3>1
    <3>4. [x[c] EXCEPT !.todo = to] = h
      BY <2>1, <3>3
    <3>5. gor' = [x EXCEPT ![c] = h]
      BY <3>2, <3>4
    <3> QED BY <2>2, <3>1, <3>5
  <2>4. Moves(c, h, col[c], calls[c], b, remote[c])
    BY <1>1, <1>2, <1>3, <1>10, <2>2, <2>3 DEF Moves, DeliveryInv, Tables
  <2>5. h.at = "mail" /\ h.n = g.n /\ h.todo = to
    BY <2>1
  <2>6. GoFits(h, col[c], calls[c])
    BY <1>1, <1>3, <1>4, <2>1, <2>5 DEF GoFits
  <2>7. \A m \in Members : b[m] \in Nat /\ b[m] <= Copies(h, m)
    <3>1. ASSUME NEW m \in Members PROVE b[m] \in Nat /\ b[m] <= g.n
      BY <1>1, <1>3, <1>4, CopiesBound
    <3>2. ASSUME NEW m \in Members PROVE Copies(h, m) = g.n \/ Copies(h, m) = g.n + 1
      BY <2>5 DEF Copies
    <3> QED BY <1>4, <3>1, <3>2
  <2>8. \A m \in memberIDs(Channels[c].cfg) \cap active : Waits(h, m)
    BY <1>7, <2>5 DEF Waits
  <2>9. \A m \in memberIDs(Channels[c].cfg) \cap active : col[c] # None /\ ~ col[c].err => b[m] > 0
    BY <1>1, <1>3, <1>4 DEF GoFits
  <2>10. MailFits(Channels[c], h, col[c], b, active)
    BY <1>1, <1>4, <1>7, <1>10, <2>5, <2>7, <2>8, <2>9 DEF MailFits
  <2> QED BY <1>1, <1>5, <1>8, <2>4, <2>6, <2>10, OneChannel
<1> QED BY <1>6, <1>9, <1>10 DEF Resolve

\* One address: accepted, and the next one or the end; or the end of the attempt.
LEMMA MailKeeps ==
  ASSUME DeliveryInv, NEW c \in DOMAIN Channels, MailNext(c)
  PROVE  DeliveryInv'
<1>1. stage = "dispatch" /\ gor[c].at = "mail" /\ UNCHANGED <<cur, stage, active, rows, remote>>
  BY DEF MailNext, outside
<1>2. ChannelFits(c) /\ remote \in [DOMAIN Channels -> Alerts] /\ inbox = [d \in DOMAIN Channels |-> inbox[d]]
  BY <1>1 DEF DeliveryInv, Tables
<1>3. PICK g, b, to : g = gor[c] /\ b = inbox[c] /\ to = gor[c].todo
  OBVIOUS
<1>4. /\ GoFits(g, col[c], calls[c]) /\ MailFits(Channels[c], g, col[c], b, active) /\ g.n \in Nat
      /\ AlertFits(Channels[c], ev, col[c], remote[c])
  BY <1>2, <1>3, Retries DEF ChannelFits, GoFits
<1>5. /\ to \in Seq(Members) /\ to # << >> /\ b \in [Members -> Nat] /\ \A i, j \in DOMAIN to : to[i] = to[j] => i = j
      /\ g.at = "mail" /\ g.todo = to /\ Channels[c].type = "email"
  BY <1>1, <1>3, <1>4 DEF MailFits
<1>6. Len(to) \in Nat \ {0} /\ DOMAIN to = 1..Len(to) /\ Head(to) = to[1] /\ Head(to) \in Members
  BY <1>5, EmptySeq, LenProperties
<1>7. PICK d : d = [b EXCEPT ![Head(to)] = @ + 1]
  OBVIOUS
<1>8. /\ d \in [Members -> Nat] /\ d[Head(to)] = b[Head(to)] + 1
      /\ \A m \in Members : m # Head(to) => d[m] = b[m]
  BY <1>5, <1>6, <1>7
<1>9. Waits(g, Head(to))
  BY <1>5, <1>6 DEF Waits
<1>10. \A m \in Members : d[m] <= g.n + 1 /\ b[m] <= g.n + 1 /\ d[m] >= b[m]
  <2> SUFFICES ASSUME NEW m \in Members PROVE d[m] <= g.n + 1 /\ b[m] <= g.n + 1 /\ d[m] >= b[m]
    OBVIOUS
  <2>1. b[m] \in Nat /\ b[m] <= g.n + 1
    BY <1>4, CopiesBound
  <2>2. CASE m = Head(to)
    <3>1. b[m] <= g.n
      BY <1>4, <1>9, <2>2, CopiesBound
    <3> QED BY <1>4, <1>8, <2>1, <2>2, <3>1
  <2>3. CASE m # Head(to)
    BY <1>8, <2>1, <2>3
  <2> QED BY <2>2, <2>3
<1>11. remote' = [remote EXCEPT ![c] = remote[c]] /\ remote[c] \in Alerts
  BY <1>1, <1>2
<1>12. PICK x \in {b, d} : inbox' = [inbox EXCEPT ![c] = x]
  <2>1. inbox' \in {inbox, [inbox EXCEPT ![c][Head(to)] = @ + 1]}
    BY <1>3 DEF MailNext
  <2>2. [inbox EXCEPT ![c][Head(to)] = @ + 1] = [inbox EXCEPT ![c] = d]
    BY <1>2, <1>3, <1>7
  <2>3. inbox = [inbox EXCEPT ![c] = b]
    BY <1>2, <1>3
  <2> QED BY <2>1, <2>2, <2>3
<1>13. ASSUME NEW err \in BOOLEAN, Attempted(c, err),
              ~ err => inbox' = [inbox EXCEPT ![c] = d] /\ Len(to) = 1
       PROVE  DeliveryInv'
  <2>1. PICK y \in {b, d} : inbox' = [inbox EXCEPT ![c] = y] /\ (~ err => y = d)
    BY <1>12, <1>13
  <2>2. Moves(c, After(g, err), Noted(g, err), Append(calls[c], err), y, remote[c])
    BY <1>3, <1>11, <1>13, <2>1, AttemptMoves
  <2>3. GoFits(After(g, err), Noted(g, err), Append(calls[c], err))
    BY <1>1, <1>3, <1>4, AttemptFits
  <2>4. y \in [Members -> Nat] /\ \A m \in Members : y[m] <= g.n + 1
    BY <1>5, <1>8, <1>10
  <2>5. ASSUME ~ err, NEW m \in memberIDs(Channels[c].cfg) \cap active PROVE y[m] > 0
    <3>1. Waits(g, m) \/ b[m] > 0
      BY <1>1, <1>3, <1>4 DEF MailFits
    <3>2. Waits(g, m) => m = Head(to)
      <4> SUFFICES ASSUME NEW i \in DOMAIN to, to[i] = m PROVE m = Head(to)
        BY <1>5 DEF Waits
      <4>1. Len(to) = 1
        BY <1>13, <2>5
      <4>2. i = 1
        BY <1>6, <4>1
      <4> QED BY <1>6, <4>2
    <3>3. m \in Members /\ b[m] \in Nat
      BY <1>4, <1>5 DEF DeliveryInv, Tables
    <3> QED BY <1>5, <1>6, <1>8, <2>1, <2>5, <3>1, <3>2, <3>3
  <2>6. MailFits(Channels[c], After(g, err), Noted(g, err), y, active)
    BY <1>4, <2>4, <2>5, MailAfter
  <2>7. AlertFits(Channels[c], ev, Noted(g, err), remote[c])
    BY <1>5 DEF AlertFits, OnCall
  <2> QED BY <1>1, <1>11, <2>2, <2>3, <2>6, <2>7, OneChannel
<1>14. CASE /\ inbox' = [inbox EXCEPT ![c] = d] /\ Len(to) # 1
            /\ gor' = [gor EXCEPT ![c].todo = Tail(to)] /\ UNCHANGED <<col, calls>>
  <2>1. PICK h : h = [at |-> "mail", n |-> g.n, todo |-> Tail(to)]
    OBVIOUS
  <2>2. g = [at |-> g.at, n |-> g.n, todo |-> g.todo] /\ gor = [e \in DOMAIN Channels |-> gor[e]]
    BY <1>4 DEF GoFits, DeliveryInv, Tables
  <2>3. gor' = [gor EXCEPT ![c] = h]
    <3>1. PICK k, t : k = g.n /\ t = Tail(to)
      OBVIOUS
    <3>2. g = [at |-> "mail", n |-> k, todo |-> to] /\ h = [at |-> "mail", n |-> k, todo |-> t]
      BY <1>5, <2>1, <2>2, <3>1
    <3>3. [gor[c] EXCEPT !.todo = t] = h
      BY <1>3, <3>2
    <3>4. gor' = [gor EXCEPT ![c].todo = t]
      BY <1>14, <3>1
    <3> QED BY <3>3, <3>4
  <2>4. Moves(c, h, col[c], calls[c], d, remote[c])
    BY <1>1, <1>2, <1>14, <2>2, <2>3 DEF Moves, DeliveryInv, Tables
  <2>5. h.at = "mail" /\ h.n = g.n /\ h.todo = Tail(to)
    BY <2>1
  <2>6. GoFits(h, col[c], calls[c])
    BY <1>4, <1>5, <2>1, <2>5 DEF GoFits
  <2>7. /\ Tail(to) \in Seq(Members) /\ Len(Tail(to)) = Len(to) - 1 /\ DOMAIN Tail(to) = 1..(Len(to) - 1)
        /\ \A i \in 1..(Len(to) - 1) : Tail(to)[i] = to[i + 1]
    BY <1>5, <1>6, HeadTailProperties, LenProperties
  <2>8. Tail(to) # << >> /\ \A i, j \in DOMAIN Tail(to) : Tail(to)[i] = Tail(to)[j] => i = j
    <3>1. Len(to) - 1 # 0
      BY <1>6, <1>14
    <3>2. ASSUME NEW i \in DOMAIN Tail(to), NEW j \in DOMAIN Tail(to), Tail(to)[i] = Tail(to)[j] PROVE i = j
      <4>1. i \in 1..(Len(to) - 1) /\ j \in 1..(Len(to) - 1) /\ i + 1 \in DOMAIN to /\ j + 1 \in DOMAIN to
        BY <1>6, <2>7, <3>2
      <4>2. to[i + 1] = to[j + 1]
        BY <2>7, <3>2, <4>1
      <4>3. i + 1 = j + 1
        BY <1>5, <4>1, <4>2
      <4> QED BY <4>1, <4>3
    <3> QED BY <2>7, <3>1, <3>2
  <2>9. \A m : Waits(h, m) => Waits(g, m) /\ m # Head(to)
    <3> SUFFICES ASSUME NEW m, NEW i \in DOMAIN Tail(to), Tail(to)[i] = m PROVE Waits(g, m) /\ m # Head(to)
      BY <2>5 DEF Waits
    <3>1. i \in Nat \ {0} /\ i + 1 \in DOMAIN to /\ to[i + 1] = m
      BY <1>6, <2>7
    <3>2. 1 \in DOMAIN to /\ i + 1 # 1
      BY <1>6, <3>1
    <3> QED BY <1>5, <1>6, <3>1, <3>2 DEF Waits
  <2>10. \A m \in Members : Waits(g, m) /\ m # Head(to) => Waits(h, m)
    <3> SUFFICES ASSUME NEW m \in Members, NEW i \in DOMAIN to, to[i] = m, m # Head(to) PROVE Waits(h, m)
      BY <1>5 DEF Waits
    <3>1. i - 1 \in 1..(Len(to) - 1) /\ (i - 1) + 1 = i
      BY <1>6
    <3>2. Tail(to)[i - 1] = m /\ i - 1 \in DOMAIN Tail(to)
      BY <2>7, <3>1
    <3> QED BY <2>5, <3>2 DEF Waits
  <2>11. \A m \in Members : d[m] <= Copies(h, m)
    <3> SUFFICES ASSUME NEW m \in Members PROVE d[m] <= Copies(h, m)
      OBVIOUS
    <3>1. CASE Waits(h, m)
      <4>1. d[m] = b[m] /\ b[m] <= g.n
        BY <1>4, <1>8, <2>9, <3>1, CopiesBound
      <4> QED BY <2>5, <3>1, <4>1 DEF Copies
    <3>2. CASE ~ Waits(h, m)
      BY <1>10, <2>5, <3>2 DEF Copies
    <3> QED BY <3>1, <3>2
  <2>12. ASSUME NEW m \in memberIDs(Channels[c].cfg) \cap active
         PROVE  /\ Waits(h, m) \/ d[m] > 0
                /\ Channels[c].type = "email" /\ col[c] # None /\ ~ col[c].err => d[m] > 0
    <3>1. m \in Members /\ b[m] \in Nat /\ d[m] \in Nat
      BY <1>5, <1>8 DEF DeliveryInv, Tables
    <3>2. Waits(g, m) \/ b[m] > 0
      BY <1>1, <1>3, <1>4 DEF MailFits
    <3>3. Waits(h, m) \/ d[m] > 0
      BY <1>8, <1>10, <2>10, <3>1, <3>2
    <3>4. ~ (col[c] # None /\ ~ col[c].err)
      BY <1>4, <1>5 DEF GoFits
    <3> QED BY <3>3, <3>4
  <2>13. MailFits(Channels[c], h, col[c], d, active)
    BY <1>5, <1>8, <2>5, <2>7, <2>8, <2>11, <2>12 DEF MailFits
  <2> QED BY <1>1, <1>4, <1>11, <2>4, <2>6, <2>13, OneChannel
<1>15. [inbox EXCEPT ![c][Head(to)] = @ + 1] = [inbox EXCEPT ![c] = d]
  BY <1>2, <1>3, <1>7
<1> QED BY <1>3, <1>13, <1>14, <1>15 DEF MailNext

\* A goroutine goes on after the backoff, or stops.
LEMMA GoesTo ==
  ASSUME DeliveryInv, stage = "dispatch", NEW c \in DOMAIN Channels, NEW to \in {"send", "done"},
         gor[c].at \in {"send", "backoff"}, gor' = [gor EXCEPT ![c].at = to],
         UNCHANGED <<cur, stage, active, rows, col, calls, inbox, remote>>
  PROVE  DeliveryInv'
<1>1. /\ ChannelFits(c) /\ remote \in [DOMAIN Channels -> Alerts]
      /\ gor = [d \in DOMAIN Channels |-> gor[d]] /\ col = [d \in DOMAIN Channels |-> col[d]]
      /\ calls = [d \in DOMAIN Channels |-> calls[d]] /\ inbox = [d \in DOMAIN Channels |-> inbox[d]]
  BY DEF DeliveryInv, Tables
<1>2. PICK a, k, t : a = gor[c].at /\ k = gor[c].n /\ t = gor[c].todo
  OBVIOUS
<1>3. gor[c] = [at |-> a, n |-> k, todo |-> t]
  BY <1>1, <1>2 DEF ChannelFits, GoFits
<1>4. PICK h : h = [at |-> to, n |-> k, todo |-> t]
  OBVIOUS
<1>5. gor' = [gor EXCEPT ![c] = h]
  <2>1. [gor[c] EXCEPT !.at = to] = h
    BY <1>3, <1>4
  <2> QED BY <2>1
<1>6. Moves(c, h, col[c], calls[c], inbox[c], remote[c])
  BY <1>1, <1>5 DEF Moves
<1>7. h.at = to /\ h.n = gor[c].n /\ h.todo = gor[c].todo /\ h = [at |-> h.at, n |-> h.n, todo |-> h.todo]
  BY <1>2, <1>4
<1>8. GoFits(h, col[c], calls[c])
  BY <1>1, <1>7 DEF ChannelFits, GoFits
<1>9. \A m : Copies(h, m) = Copies(gor[c], m)
  BY <1>7 DEF Copies, Waits
<1>10. MailFits(Channels[c], h, col[c], inbox[c], active)
  BY <1>1, <1>7, <1>9 DEF ChannelFits, MailFits
<1>11. remote[c] \in Alerts /\ AlertFits(Channels[c], ev, col[c], remote[c])
  BY <1>1 DEF ChannelFits
<1> QED BY <1>6, <1>8, <1>10, <1>11, OneChannel

LEMMA BackoffKeeps ==
  ASSUME DeliveryInv, NEW c \in DOMAIN Channels, Backoff(c) \/ NotSent(c)
  PROVE  DeliveryInv'
<1>1. CASE Backoff(c)
  <2>1. PICK to \in {"send", "done"} : gor' = [gor EXCEPT ![c].at = to]
    BY <1>1 DEF Backoff
  <2> QED BY <1>1, <2>1, GoesTo DEF Backoff, outside
<1>2. CASE NotSent(c)
  BY <1>2, GoesTo DEF NotSent, outside
<1> QED BY <1>1, <1>2

\* A server that goes silent may have taken the mail of this attempt.
LEMMA HangKeeps ==
  ASSUME DeliveryInv, NEW c \in DOMAIN Channels, Hang(c)
  PROVE  DeliveryInv'
<1>1. /\ stage = "dispatch" /\ gor[c].at \in {"send", "mail"} /\ gor' = [gor EXCEPT ![c].at = "hung"]
      /\ UNCHANGED <<cur, stage, active, rows, col, calls, remote>>
  BY DEF Hang, outside
<1>2. /\ ChannelFits(c) /\ remote \in [DOMAIN Channels -> Alerts] /\ active \subseteq Members
      /\ gor = [d \in DOMAIN Channels |-> gor[d]] /\ col = [d \in DOMAIN Channels |-> col[d]]
      /\ calls = [d \in DOMAIN Channels |-> calls[d]] /\ inbox = [d \in DOMAIN Channels |-> inbox[d]]
  BY <1>1 DEF DeliveryInv, Tables
<1>3. PICK a, k, t, b : a = gor[c].at /\ k = gor[c].n /\ t = gor[c].todo /\ b = inbox[c]
  OBVIOUS
<1>4. gor[c] = [at |-> a, n |-> k, todo |-> t]
  BY <1>2, <1>3 DEF ChannelFits, GoFits
<1>5. PICK h : h = [at |-> "hung", n |-> k, todo |-> t]
  OBVIOUS
<1>6. gor' = [gor EXCEPT ![c] = h]
  <2>1. [gor[c] EXCEPT !.at = "hung"] = h
    BY <1>4, <1>5
  <2> QED BY <1>1, <2>1
<1>7. /\ h.at = "hung" /\ h.n = gor[c].n /\ h.todo = gor[c].todo /\ h = [at |-> h.at, n |-> h.n, todo |-> h.todo]
      /\ gor[c].n \in Nat /\ gor[c].n < maxRetries /\ maxRetries \in Nat
  BY <1>1, <1>2, <1>3, <1>5, Retries DEF ChannelFits, GoFits
<1>8. GoFits(h, col[c], calls[c]) /\ (col[c] # None => col[c].err)
  BY <1>1, <1>2, <1>7 DEF ChannelFits, GoFits
<1>9. b \in [Members -> Nat] /\ \A m \in Members : b[m] <= gor[c].n + 1
  BY <1>2, <1>3, <1>7, CopiesBound DEF ChannelFits, MailFits
<1>10. PICK x \in [Members -> Nat] : inbox' = [inbox EXCEPT ![c] = x] /\ \A m \in Members : x[m] <= gor[c].n + 1
  <2>1. CASE inbox' = inbox
    BY <1>2, <1>3, <1>9, <2>1
  <2>2. CASE gor[c].at = "mail" /\ inbox' = [inbox EXCEPT ![c][Head(gor[c].todo)] = @ + 1]
    <3>1. t \in Seq(Members) /\ t # << >>
      BY <1>2, <1>3, <2>2 DEF ChannelFits, MailFits
    <3>2. Len(t) \in Nat \ {0} /\ DOMAIN t = 1..Len(t) /\ Head(t) = t[1] /\ Head(t) \in Members
      BY <3>1, EmptySeq, LenProperties
    <3>3. Waits(gor[c], Head(t))
      BY <1>3, <2>2, <3>2 DEF Waits
    <3>4. b[Head(t)] <= gor[c].n
      BY <1>2, <1>3, <1>7, <3>2, <3>3, CopiesBound DEF ChannelFits
    <3>5. PICK d : d = [b EXCEPT ![Head(t)] = @ + 1]
      OBVIOUS
    <3>6. d \in [Members -> Nat] /\ \A m \in Members : d[m] <= gor[c].n + 1
      BY <1>7, <1>9, <3>2, <3>4, <3>5
    <3>7. inbox' = [inbox EXCEPT ![c] = d]
      BY <1>2, <1>3, <2>2, <3>5
    <3> QED BY <3>6, <3>7
  <2> QED BY <2>1, <2>2 DEF Hang
<1>11. Moves(c, h, col[c], calls[c], x, remote[c])
  BY <1>1, <1>2, <1>6, <1>10 DEF Moves
<1>12. \A m : Copies(h, m) = gor[c].n + 1
  BY <1>7 DEF Copies
<1>13. MailFits(Channels[c], h, col[c], x, active)
  <2>1. /\ h.todo \in Seq(Members) /\ \A i, j \in DOMAIN h.todo : h.todo[i] = h.todo[j] => i = j
    BY <1>2, <1>7 DEF ChannelFits, MailFits
  <2> QED BY <1>7, <1>8, <1>10, <1>12, <2>1 DEF MailFits
<1>14. remote[c] \in Alerts /\ AlertFits(Channels[c], ev, col[c], remote[c])
  BY <1>2 DEF ChannelFits
<1> QED BY <1>1, <1>8, <1>11, <1>13, <1>14, OneChannel

-----------------------------------------------------------------------------
(* The steps of the process *)

LEMMA DispatchKeeps ==
  ASSUME DeliveryInv, Dispatch
  PROVE  DeliveryInv'
<1>1. /\ Tables /\ cur \in Steps /\ stage = "load" /\ stage' = "dispatch"
      /\ UNCHANGED <<cur, active, rows, calls, remote, inbox>>
      /\ col' = [c \in DOMAIN Channels |-> None]
      /\ gor' = [c \in DOMAIN Channels |-> IF Channels[c].enabled THEN [Idle EXCEPT !.at = "send"] ELSE Idle]
  BY DEF Dispatch, outside, DeliveryInv
<1>2. rows = NoRows /\ calls = NoCalls /\ inbox = NoMail
  BY <1>1 DEF Tables
<1>3. Tables'
  BY <1>1 DEF Tables
<1>4. ASSUME NEW c \in DOMAIN Channels PROVE ChannelFits(c)'
  <2>1. PICK g : g = gor'[c]
    OBVIOUS
  <2>2. PICK a \in {"off", "send"} : g = [at |-> a, n |-> 0, todo |-> << >>]
    BY <1>1, <2>1 DEF Idle
  <2>3. g.at \in {"off", "send"} /\ g.n = 0 /\ g.todo = << >> /\ g = [at |-> g.at, n |-> g.n, todo |-> g.todo]
    BY <2>2
  <2>4. calls'[c] = << >> /\ col'[c] = None /\ rows'[c] = None /\ inbox'[c] = [m \in Members |-> 0]
    BY <1>1, <1>2 DEF NoRows, NoCalls, NoMail
  <2>5. GoFits(g, col'[c], calls'[c])
    <3>1. << >> \in Seq(BOOLEAN) /\ Len(<< >>) = 0
      OBVIOUS
    <3> QED BY <2>3, <2>4, <3>1, Retries DEF GoFits
  <2>6. MailFits(Channels[c], g, col'[c], inbox'[c], active')
    <3>1. PICK b : b = inbox'[c]
      OBVIOUS
    <3>2. b \in [Members -> Nat] /\ \A m \in Members : b[m] = 0
      BY <2>4, <3>1
    <3>3. g.todo \in Seq(Members) /\ DOMAIN g.todo = {}
      BY <2>3
    <3>4. \A m : Copies(g, m) = 0
      BY <2>3 DEF Copies
    <3> QED BY <2>3, <2>4, <3>1, <3>2, <3>3, <3>4 DEF MailFits
  <2>7. AlertFits(Channels[c], ev', col'[c], remote'[c])
    BY <2>4 DEF AlertFits
  <2> QED BY <1>1, <2>1, <2>4, <2>5, <2>6, <2>7 DEF ChannelFits
<1> QED BY <1>1, <1>3, <1>4 DEF DeliveryInv

LEMMA RecordKeeps ==
  ASSUME DeliveryInv, RecordDeliveries
  PROVE  DeliveryInv'
<1>1. /\ stage = "dispatch" /\ AllDone /\ stage' = "hooks"
      /\ UNCHANGED <<cur, gor, col, active, calls, remote, inbox>>
  BY DEF RecordDeliveries
<1>2. Tables' /\ ev' = ev
  BY <1>1 DEF DeliveryInv, Tables, ev
<1>3. ASSUME NEW c \in DOMAIN Channels PROVE ChannelFits(c)'
  <2>1. rows'[c] # None => col[c] # None /\ rows'[c] = Row(col[c])
    BY DEF RecordDeliveries, Row
  <2>2. ChannelFits(c) /\ gor[c].at \in {"off", "done"}
    BY <1>1 DEF DeliveryInv, AllDone
  <2> QED BY <1>1, <1>2, <2>1, <2>2 DEF ChannelFits
<1> QED BY <1>2, <1>3 DEF DeliveryInv

LEMMA HandledKeeps ==
  ASSUME DeliveryInv, Handled
  PROVE  DeliveryInv'
<1>1. /\ Tables /\ stage = "hooks" /\ cur' = cur + 1 /\ stage' \in {"stopped", "load"} /\ UNCHANGED <<active, remote>>
      /\ rows' = NoRows /\ calls' = NoCalls /\ inbox' = NoMail /\ col' = NoRows
      /\ gor' = [c \in DOMAIN Channels |-> Idle]
  BY DEF DeliveryInv, Handled
<1>2. /\ gor' = [c \in DOMAIN Channels |-> gor'[c]] /\ col' = [c \in DOMAIN Channels |-> col'[c]]
      /\ calls' = [c \in DOMAIN Channels |-> calls'[c]] /\ inbox' = [c \in DOMAIN Channels |-> inbox'[c]]
  BY <1>1 DEF NoRows, NoCalls, NoMail
<1>3. Tables'
  BY <1>1, <1>2 DEF Tables
<1> QED BY <1>1, <1>3 DEF DeliveryInv

\* Posts, the clock, a shutdown, and a member that leaves: fewer are active.
LEMMA CalmKeeps ==
  ASSUME DeliveryInv, UNCHANGED <<cur, stage, gor, col, rows, calls, remote, inbox>>, active' \subseteq active
  PROVE  DeliveryInv'
<1>1. Tables' /\ ev' = ev
  BY DEF DeliveryInv, Tables, ev
<1>2. ASSUME NEW c \in DOMAIN Channels, ChannelFits(c) PROVE ChannelFits(c)'
  <2>1. MailFits(Channels[c], gor[c], col[c], inbox[c], active')
    BY <1>2 DEF ChannelFits, MailFits
  <2> QED BY <1>1, <1>2, <2>1 DEF ChannelFits
<1> QED BY <1>1, <1>2 DEF DeliveryInv

-----------------------------------------------------------------------------
(* The theorems *)

LEMMA DeliveryStep ==
  ASSUME DeliveryInv, [Next]_vars
  PROVE  DeliveryInv'
<1>1. CASE Post \/ GiveUp \/ Tick \/ Shutdown \/ UNCHANGED vars
  BY <1>1, CalmKeeps DEF Post, GiveUp, Tick, Shutdown, vars
<1>2. ASSUME NEW m \in Members, MemberGone(m) PROVE DeliveryInv'
  BY <1>2, CalmKeeps DEF MemberGone
<1>3. ASSUME NEW c \in DOMAIN Channels, Send(c) \/ Resolve(c) \/ MailNext(c) \/ Backoff(c) \/ NotSent(c) \/ Hang(c)
      PROVE  DeliveryInv'
  BY <1>3, SendKeeps, ResolveKeeps, MailKeeps, BackoffKeeps, HangKeeps
<1> QED BY <1>1, <1>2, <1>3, DispatchKeeps, RecordKeeps, HandledKeeps DEF Next, Work

\* What is said of a channel holds in every state, whatever the channels, the
\* policy, the events and the failures.
THEOREM DeliveryInvariance == Spec => []DeliveryInv
<1>1. Init => DeliveryInv
  <2> SUFFICES ASSUME Init PROVE DeliveryInv
    OBVIOUS
  <2>1. remote \in [DOMAIN Channels -> Alerts]
    BY DEF Init, Alerts, Incs
  <2>2. /\ gor = [c \in DOMAIN Channels |-> gor[c]] /\ col = [c \in DOMAIN Channels |-> col[c]]
        /\ calls = [c \in DOMAIN Channels |-> calls[c]] /\ inbox = [c \in DOMAIN Channels |-> inbox[c]]
    BY DEF Init, NoCalls, NoMail
  <2> QED BY <2>1, <2>2 DEF Init, DeliveryInv, Tables
<1> QED BY <1>1, DeliveryStep, PTL DEF Spec

\* A row is only there once every goroutine is done.
LEMMA RowsLate ==
  ASSUME DeliveryInv, NEW c \in DOMAIN Channels, rows[c] # None
  PROVE  stage = "hooks"
<1>1. CASE stage \in {"load", "stopped"}
  BY <1>1 DEF DeliveryInv, Tables, NoRows
<1>2. CASE stage = "dispatch"
  BY <1>2 DEF DeliveryInv, ChannelFits
<1> QED BY <1>1, <1>2 DEF DeliveryInv, Tables

\* The delivery log is true: attempts and outcome in a notify_deliveries row
\* are those of the sends the goroutine made (RecordDeliveries, collector).
THEOREM LogIsTrue == Spec => []RowsAreTrue
<1>1. DeliveryInv => RowsAreTrue
  <2> SUFFICES ASSUME DeliveryInv, NEW c \in DOMAIN Channels, rows[c] # None
               PROVE  /\ rows[c].attempts = Len(calls[c])
                      /\ rows[c].status = IF calls[c][Len(calls[c])] THEN "failed" ELSE "delivered"
    BY DEF RowsAreTrue
  <2>1. stage = "hooks"
    BY RowsLate
  <2>2. ChannelFits(c)
    BY <2>1 DEF DeliveryInv
  <2>3. col[c] # None /\ rows[c] = Row(col[c])
    BY <2>1, <2>2 DEF ChannelFits
  <2>4. col[c].attempts = gor[c].n /\ Len(calls[c]) = gor[c].n /\ col[c].err = calls[c][gor[c].n]
    BY <2>2, <2>3 DEF ChannelFits, GoFits
  <2> QED BY <2>3, <2>4 DEF Row
<1> QED BY <1>1, DeliveryInvariance, PTL

\* Team email that is recorded as delivered reached the selected members who
\* are active, and nobody gets more copies than the policy has attempts
\* (platformEmailProvider.Send, Manager.Dispatch).
THEOREM TeamIsReached == Spec => []EmailReachesTeam
<1>1. DeliveryInv => EmailReachesTeam
  <2> SUFFICES ASSUME DeliveryInv, NEW c \in DOMAIN Channels, Channels[c].type = "email"
               PROVE  /\ \A m \in Members : inbox[c][m] <= maxRetries
                      /\ rows[c] # None /\ rows[c].status = "delivered" =>
                           \A m \in memberIDs(Channels[c].cfg) \cap active : inbox[c][m] > 0
    BY DEF EmailReachesTeam
  <2>1. CASE stage \in {"load", "stopped"}
    <3>1. rows[c] = None /\ \A m \in Members : inbox[c][m] = 0
      BY <2>1 DEF DeliveryInv, Tables, NoRows, NoMail
    <3> QED BY <3>1, Retries
  <2>2. CASE stage \in {"dispatch", "hooks"}
    <3>1. ChannelFits(c)
      BY <2>2 DEF DeliveryInv
    <3>2. ASSUME NEW m \in Members PROVE inbox[c][m] <= maxRetries
      <4>1. gor[c].n \in 0..maxRetries /\ (gor[c].at \in {"mail", "hung"} => gor[c].n < maxRetries)
        BY <3>1 DEF ChannelFits, GoFits
      <4>2. inbox[c][m] \in Nat /\ inbox[c][m] <= Copies(gor[c], m)
        BY <3>1 DEF ChannelFits, MailFits
      <4>3. Copies(gor[c], m) \in Nat /\ Copies(gor[c], m) <= maxRetries
        BY <4>1, Retries DEF Copies
      <4> QED BY <4>2, <4>3, Retries
    <3>3. ASSUME rows[c] # None, rows[c].status = "delivered", NEW m \in memberIDs(Channels[c].cfg) \cap active
          PROVE  inbox[c][m] > 0
      <4>1. col[c] # None /\ rows[c] = Row(col[c])
        BY <2>2, <3>1, <3>3 DEF ChannelFits
      <4>2. ~ col[c].err
        BY <3>3, <4>1 DEF Row
      <4> QED BY <3>1, <3>3, <4>1, <4>2 DEF ChannelFits, MailFits
    <3> QED BY <3>2, <3>3
  <2> QED BY <2>1, <2>2 DEF DeliveryInv, Tables
<1> QED BY <1>1, DeliveryInvariance, PTL

\* When the handling of a recovery ends and its row says delivered, the on-call
\* tool's alert of the incident is closed (SendCall, dispatch).
THEOREM RecoveryCloses == Spec => RecoveryClosesAlert
<1> DEFINE Closes == \A c \in DOMAIN Channels, e \in Steps :
             /\ Channels[c].type \in {"pagerduty", "opsgenie"}
             /\ cur = e /\ cur' = e + 1 /\ rows[c] # None /\ rows[c].status = "delivered"
             /\ Script[e].type = "recovery"
             => remote[c][Script[e].inc] = "closed"
<1>1. DeliveryInv => Closes
  <2> SUFFICES ASSUME DeliveryInv, NEW c \in DOMAIN Channels, NEW e \in Steps,
                      Channels[c].type \in OnCall, cur = e, rows[c] # None, rows[c].status = "delivered",
                      Script[e].type = "recovery"
               PROVE  remote[c][Script[e].inc] = "closed"
    BY DEF OnCall
  <2>1. stage = "hooks"
    BY RowsLate
  <2>2. ChannelFits(c)
    BY <2>1 DEF DeliveryInv
  <2>3. col[c] # None /\ ~ col[c].err
    BY <2>1, <2>2 DEF ChannelFits, Row
  <2> QED BY <2>2, <2>3 DEF ChannelFits, AlertFits, ev
<1>2. DeliveryInv /\ [Next]_vars => [Closes]_vars
  BY <1>1
<1> HIDE DEF Closes
<1>3. Spec => [][Closes]_vars
  BY <1>2, DeliveryInvariance, PTL DEF Spec
<1> QED BY <1>3 DEF RecoveryClosesAlert, Closes

-----------------------------------------------------------------------------
(* Handling goes on *)

LEMMA MembersCount == Cardinality(Members) \in Nat
<1>1. IsFiniteSet(Members)
  BY DeliveryAssumption, Zenon
<1> QED BY <1>1, FS_CardinalityType

\* What one goroutine does is a step of HandlingAdvances.
OneGoesOn ==
  \E c \in DOMAIN Channels :
    /\ GoesOn(gor[c], gor'[c])
    /\ \A d \in DOMAIN Channels \ {c} : gor'[d] = gor[d]

LEMMA GoesOnHere ==
  ASSUME Tables, NEW c \in DOMAIN Channels, NEW h, gor' = [gor EXCEPT ![c] = h], GoesOn(gor[c], h)
  PROVE  OneGoesOn
<1>1. gor'[c] = h /\ \A d \in DOMAIN Channels \ {c} : gor'[d] = gor[d]
  BY DEF Tables
<1> QED BY <1>1 DEF OneGoesOn

\* An attempt that ends is one of the policy's.
LEMMA AttemptGoesOn ==
  ASSUME Tables, NEW c \in DOMAIN Channels, NEW err, ChannelFits(c), gor[c].at \in {"send", "mail"}, Attempted(c, err)
  PROVE  OneGoesOn
<1>1. PICK h : h = After(gor[c], err)
  OBVIOUS
<1>2. gor' = [gor EXCEPT ![c] = h]
  BY <1>1 DEF Attempted, After
<1>3. gor[c].n \in Nat /\ gor[c].n < maxRetries /\ maxRetries \in Nat
  BY Retries DEF ChannelFits, GoFits
<1>4. h.n = gor[c].n + 1
  BY <1>1 DEF After
<1>5. GoesOn(gor[c], h)
  BY <1>3, <1>4 DEF GoesOn
<1> QED BY <1>2, <1>5, GoesOnHere

LEMMA GoroutineGoesOn ==
  ASSUME DeliveryInv, NEW c \in DOMAIN Channels,
         Send(c) \/ Resolve(c) \/ MailNext(c) \/ Backoff(c) \/ NotSent(c) \/ Hang(c)
  PROVE  OneGoesOn /\ UNCHANGED <<cur, stage, jobs, n>>
<1>1. UNCHANGED <<cur, stage, jobs, n>> /\ stage = "dispatch"
  BY DEF Send, Resolve, MailNext, Backoff, NotSent, Hang, outside
<1>2. Tables /\ ChannelFits(c) /\ active \subseteq Members
  BY <1>1 DEF DeliveryInv, Tables
<1>3. PICK a, k, t : gor[c] = [at |-> a, n |-> k, todo |-> t]
  BY <1>2 DEF ChannelFits, GoFits
<1>8. gor[c].at = a /\ gor[c].n = k /\ gor[c].todo = t
  BY <1>3
<1>4. CASE Send(c)
  BY <1>1, <1>2, <1>4, AttemptGoesOn DEF Send
<1>5. CASE Resolve(c)
  <2>1. PICK to : to = ActiveMemberEmails(memberIDs(Channels[c].cfg))
    OBVIOUS
  <2>2. CASE gor' = [gor EXCEPT ![c].at = "mail", ![c].todo = to]
    <3>1. PICK h : h = [at |-> "mail", n |-> k, todo |-> to]
      OBVIOUS
    <3>2. gor' = [gor EXCEPT ![c] = h]
      <4>1. PICK x : x = [gor EXCEPT ![c].at = "mail"]
        OBVIOUS
      <4>2. gor' = [x EXCEPT ![c].todo = to] /\ gor = [d \in DOMAIN Channels |-> gor[d]]
        BY <1>2, <2>2, <4>1 DEF Tables
      <4>3. x[c] = [at |-> "mail", n |-> k, todo |-> t]
        BY <1>3, <4>1, <4>2
      <4>4. [x[c] EXCEPT !.todo = to] = h
        BY <3>1, <4>3
      <4>5. gor' = [x EXCEPT ![c] = h]
        BY <4>2, <4>4
      <4> QED BY <4>1, <4>2, <4>5
    <3>3. to \in Seq(Members) /\ Len(to) <= Cardinality(Members)
      BY <1>2, <2>1, EmailsOf
    <3>4. Left(h) = Len(to) /\ h.n = k
      BY <3>1 DEF Left
    <3>5. gor[c].n = k /\ Left(gor[c]) = Cardinality(Members) + 1
      BY <1>5, <1>8 DEF Left, Resolve
    <3>6. Left(h) < Left(gor[c])
      BY <3>3, <3>4, <3>5, MembersCount, LenProperties
    <3> QED BY <1>1, <1>2, <3>2, <3>4, <3>5, <3>6, GoesOnHere DEF GoesOn
  <2>3. ASSUME NEW err \in BOOLEAN, Attempted(c, err) PROVE OneGoesOn
    BY <1>2, <1>5, <2>3, AttemptGoesOn DEF Resolve
  <2> QED BY <1>1, <1>5, <2>1, <2>2, <2>3 DEF Resolve
<1>6. CASE MailNext(c)
  <2>1. CASE gor' = [gor EXCEPT ![c].todo = Tail(t)]
    <3>0. PICK u : u = Tail(t)
      OBVIOUS
    <3>1. PICK h : h = [at |-> a, n |-> k, todo |-> u]
      OBVIOUS
    <3>2. [gor[c] EXCEPT !.todo = u] = h
      BY <1>3, <3>1
    <3>3. gor' = [gor EXCEPT ![c] = h]
      BY <2>1, <3>0, <3>2
    <3>4. a = "mail" /\ t \in Seq(Members) /\ t # << >>
      BY <1>2, <1>6, <1>8 DEF MailNext, ChannelFits, MailFits
    <3>5. Len(t) \in Nat /\ Len(u) = Len(t) - 1
      BY <3>0, <3>4, HeadTailProperties, LenProperties
    <3>6. gor[c].n = k /\ h.n = k /\ Left(gor[c]) = Len(t) /\ Left(h) = Len(u)
      BY <1>8, <3>1, <3>4 DEF Left
    <3>7. Left(h) < Left(gor[c])
      BY <3>5, <3>6
    <3>8. GoesOn(gor[c], h)
      BY <3>6, <3>7 DEF GoesOn
    <3> QED BY <1>1, <1>2, <3>3, <3>8, GoesOnHere
  <2>2. ASSUME NEW err \in BOOLEAN, Attempted(c, err) PROVE OneGoesOn
    BY <1>2, <1>6, <2>2, AttemptGoesOn DEF MailNext
  <2> QED BY <1>1, <1>6, <1>8, <2>1, <2>2 DEF MailNext
<1>7. CASE Backoff(c) \/ NotSent(c)
  <2>1. PICK to \in {"send", "done"} : gor' = [gor EXCEPT ![c].at = to] /\ (to = "send" => a = "backoff")
    BY <1>7, <1>8 DEF Backoff, NotSent
  <2>2. PICK h : h = [at |-> to, n |-> k, todo |-> t]
    OBVIOUS
  <2>3. [gor[c] EXCEPT !.at = to] = h
    BY <1>3, <2>2
  <2>4. gor' = [gor EXCEPT ![c] = h]
    BY <2>1, <2>3
  <2>5. gor[c].n = k /\ h.n = k /\ gor[c].at \in {"send", "backoff"} /\ gor[c].at = a /\ h.at = to
    BY <1>7, <1>8, <2>2 DEF Backoff, NotSent
  <2>6. Left(h) < Left(gor[c])
    BY <2>1, <2>5, MembersCount DEF Left
  <2> QED BY <1>1, <1>2, <2>4, <2>5, <2>6, GoesOnHere DEF GoesOn
<1>9. CASE Hang(c)
  <2>1. PICK h : h = [at |-> "hung", n |-> k, todo |-> t]
    OBVIOUS
  <2>2. [gor[c] EXCEPT !.at = "hung"] = h
    BY <1>3, <2>1
  <2>3. gor' = [gor EXCEPT ![c] = h]
    BY <1>9, <2>2 DEF Hang
  <2>4. gor[c].at \in {"send", "mail"} /\ (gor[c].at = "mail" => gor[c].todo \in Seq(Members) /\ gor[c].todo # << >>)
    BY <1>2, <1>9 DEF Hang, ChannelFits, MailFits
  <2>5. gor[c].at = "mail" => Len(gor[c].todo) \in Nat /\ Len(gor[c].todo) > 0
    BY <2>4, EmptySeq, LenProperties
  <2>6. h.n = gor[c].n /\ Left(h) = 0
    BY <1>8, <2>1 DEF Left
  <2>7. Left(h) < Left(gor[c])
    BY <2>4, <2>5, <2>6, MembersCount DEF Left
  <2> QED BY <1>1, <1>2, <2>3, <2>6, <2>7, GoesOnHere DEF GoesOn
<1> QED BY <1>1, <1>4, <1>5, <1>6, <1>7, <1>9

\* The attempts at a post are counted from zero.
LEMMA PostsCounted == Spec => [](n \in Nat)
<1>1. Init => n \in Nat
  BY DEF Init
<1>2. n \in Nat /\ [Next]_vars => (n \in Nat)'
  <2> SUFFICES ASSUME n \in Nat, [Next]_vars PROVE n' \in Nat
    OBVIOUS
  <2>1. CASE Post \/ GiveUp \/ RecordDeliveries
    BY <2>1 DEF Post, GiveUp, RecordDeliveries, NextJob
  <2>2. CASE Dispatch \/ Handled \/ Tick \/ Shutdown \/ UNCHANGED vars
    BY <2>2 DEF Dispatch, Handled, Tick, Shutdown, outside, vars
  <2>3. ASSUME NEW m \in Members, MemberGone(m) PROVE n' \in Nat
    BY <2>3 DEF MemberGone
  <2>4. ASSUME NEW c \in DOMAIN Channels, Send(c) \/ Resolve(c) \/ MailNext(c) \/ Backoff(c) \/ NotSent(c) \/ Hang(c)
        PROVE  n' \in Nat
    BY <2>4 DEF Send, Resolve, MailNext, Backoff, NotSent, Hang, outside
  <2> QED BY <2>1, <2>2, <2>3, <2>4 DEF Next, Work
<1> QED BY <1>1, <1>2, PTL DEF Spec

\* Every step of the notifier advances the event it handles and none gives it
\* work back: attempts stay within the retry policy, the addresses of a Team
\* email within the org's members, and the webhook posts within the list made
\* when the outcomes were recorded (Manager.Dispatch, deliverOrgWebhooks).
THEOREM HandlingGoesOn == Spec => HandlingAdvances
<1> DEFINE Advances ==
      \/ UNCHANGED <<cur, stage, gor, jobs, n>>
      \/ cur' = cur + 1
      \/ cur' = cur /\ <<stage, stage'>> \in {<<"load", "dispatch">>, <<"dispatch", "hooks">>}
      \/ /\ UNCHANGED <<cur, stage, jobs, n>>
         /\ \E c \in DOMAIN Channels :
              /\ GoesOn(gor[c], gor'[c])
              /\ \A d \in DOMAIN Channels \ {c} : gor'[d] = gor[d]
      \/ /\ UNCHANGED <<cur, stage, gor>>
         /\ \/ jobs # << >> /\ jobs' = Tail(jobs)
            \/ jobs' = jobs /\ n' = n + 1 /\ n' <= HookAttempts
<1>1. DeliveryInv /\ n \in Nat /\ [Next]_vars => [Advances]_vars
  <2> SUFFICES ASSUME DeliveryInv, n \in Nat, Next PROVE Advances
    OBVIOUS
  <2>1. CASE Tick \/ Shutdown \/ \E m \in Members : MemberGone(m)
    BY <2>1 DEF Tick, Shutdown, MemberGone
  <2>2. CASE Dispatch \/ RecordDeliveries
    BY <2>2 DEF Dispatch, RecordDeliveries
  <2>3. CASE Handled
    BY <2>3 DEF Handled
  <2>4. CASE Post \/ GiveUp
    <3>1. HookAttempts \in Nat
      BY DeliveryAssumption, Zenon
    <3>2. UNCHANGED <<cur, stage, gor>> /\ jobs # << >>
      BY <2>4 DEF Post, GiveUp
    <3>3. jobs' = Tail(jobs) \/ (jobs' = jobs /\ n' = n + 1 /\ n < HookAttempts)
      BY <2>4 DEF Post, GiveUp, NextJob, MayPost
    <3>4. n < HookAttempts => n + 1 <= HookAttempts
      BY <3>1
    <3> QED BY <3>2, <3>3, <3>4
  <2>5. CASE \E c \in DOMAIN Channels : Send(c) \/ Resolve(c) \/ MailNext(c) \/ Backoff(c) \/ NotSent(c) \/ Hang(c)
    BY <2>5, GoroutineGoesOn DEF OneGoesOn
  <2> QED BY <2>1, <2>2, <2>3, <2>4, <2>5 DEF Next, Work
<1> HIDE DEF Advances
<1>2. Spec => [][Advances]_vars
  BY <1>1, DeliveryInvariance, PostsCounted, PTL DEF Spec
<1> QED BY <1>2 DEF HandlingAdvances, Advances
=============================================================================
