----------------------------- MODULE Providers ------------------------------
(***************************************************************************)
(* The notification providers of internal/notify: what each channel type   *)
(* is configured with (its Descriptor), which configurations validation    *)
(* accepts (registry.go), and what a provider's Send does with an event.   *)
(* Pure operators; the network calls are made in Delivery.                 *)
(*                                                                         *)
(* A configuration maps keys to values [kind, val].  kind is the JSON type *)
(* ("text", "int", "bool", "list", "map", "null"); val is the text, the    *)
(* set a list holds, or the header value of a map.                         *)
(***************************************************************************)
EXTENDS Naturals

CONSTANTS None, Blank    \* absent, and the empty string

Events == {"down", "recovery", ""}    \* "" on a test message

\* ConfigField; enum is {} for the other field types.
Field(key, type, required, secret) ==
  [key |-> key, type |-> type, required |-> required, secret |-> secret, enum |-> {}]
EnumField(key, values) ==
  [key |-> key, type |-> "enum", required |-> FALSE, secret |-> FALSE, enum |-> values]

discord   == {Field("webhook_url", "string", TRUE, TRUE)}
slack     == {Field("webhook_url", "string", TRUE, TRUE)}
teams     == {Field("webhook_url", "string", TRUE, TRUE)}
pagerduty == {Field("routing_key", "string", TRUE, TRUE)}
opsgenie  == {Field("api_key", "string", TRUE, TRUE), EnumField("region", {"us", "eu"})}
telegram  == {Field("bot_token", "string", TRUE, TRUE), Field("chat_id", "string", TRUE, FALSE)}
twilio    == {Field(k, "string", TRUE, FALSE) : k \in {"account_sid", "from", "to"}}
             \cup {Field("auth_token", "string", TRUE, TRUE)}
webhook   == {Field("url", "string", TRUE, TRUE), Field("custom_headers", "stringlist", FALSE, TRUE)}
email     == {Field("members", "memberlist", TRUE, FALSE)}
smtp      == {Field("host", "string", TRUE, FALSE), Field("port", "int", TRUE, FALSE),
              Field("username", "string", FALSE, FALSE), Field("password", "string", FALSE, TRUE),
              Field("from", "string", TRUE, FALSE), Field("to", "stringlist", TRUE, FALSE),
              EnumField("tls", {"starttls", "implicit", "none"})}

\* The registry after every provider's init has run.
Registry ==
  [discord |-> discord, slack |-> slack, teams |-> teams, pagerduty |-> pagerduty,
   opsgenie |-> opsgenie, telegram |-> telegram, twilio |-> twilio,
   webhook |-> webhook, email |-> email, smtp |-> smtp]
ChannelTypes == DOMAIN Registry

SecretKeys(t) ==
  IF t \in ChannelTypes THEN {f.key : f \in {g \in Registry[t] : g.secret}} ELSE {}

Null == [kind |-> "null", val |-> Blank]
cfgAt(cfg, key) == IF key \in DOMAIN cfg THEN cfg[key] ELSE Null
IsBlank(v) == v.kind = "null" \/ (v.kind = "text" /\ v.val = Blank)
\* Whether cfgString reads a key as the empty string.
Missing(cfg, key) == IsBlank(cfgAt(cfg, key))

isIntLike(v)  == v.kind = "int"
isListLike(v) == v.kind \in {"list", "map"}

validateField(f, cfg) ==
  LET v == cfgAt(cfg, f.key) IN
  IF IsBlank(v) THEN ~ f.required
  ELSE /\ f.type = "int"  => isIntLike(v)
       /\ f.type = "enum" => v.kind = "text" /\ v.val \in f.enum
       /\ f.type \in {"stringlist", "memberlist"} => isListLike(v)

\* The addresses or member ids that a list, or a single text, holds.
recipients(cfg) ==
  LET v == cfgAt(cfg, "to") IN
  IF v.kind = "list" THEN v.val ELSE IF v.kind = "text" THEN {v.val} \ {Blank} ELSE {}
memberIDs(cfg) ==
  LET v == cfgAt(cfg, "members") IN
  IF v.kind = "list" THEN v.val ELSE IF v.kind = "text" THEN {v.val} \ {Blank} ELSE {}

\* Provider.Validate, per type: what the fields alone do not tell.
smtpValidate(cfg)  == ~ Missing(cfg, "host") /\ ~ Missing(cfg, "from") /\ recipients(cfg) # {}
emailValidate(cfg) == memberIDs(cfg) # {}
teamsValidate(cfg)     == ~ Missing(cfg, "webhook_url")
pagerdutyValidate(cfg) == ~ Missing(cfg, "routing_key")
opsgenieValidate(cfg)  == ~ Missing(cfg, "api_key")
telegramValidate(cfg)  == ~ Missing(cfg, "bot_token") /\ ~ Missing(cfg, "chat_id")
twilioValidate(cfg)    == \A k \in {"account_sid", "auth_token", "from", "to"} : ~ Missing(cfg, k)

Validate(t, cfg) ==
  CASE t = "smtp"      -> smtpValidate(cfg)
    [] t = "email"     -> emailValidate(cfg)
    [] t = "teams"     -> teamsValidate(cfg)
    [] t = "pagerduty" -> pagerdutyValidate(cfg)
    [] t = "opsgenie"  -> opsgenieValidate(cfg)
    [] t = "telegram"  -> telegramValidate(cfg)
    [] t = "twilio"    -> twilioValidate(cfg)
    [] OTHER           -> TRUE

ValidateConfig(t, cfg) ==
  /\ t \in ChannelTypes
  /\ \A f \in Registry[t] : validateField(f, cfg)
  /\ Validate(t, cfg)

AvailableFor(allowed) == {t \in ChannelTypes : t \in allowed}
CatalogEntries(allowed) ==
  [t \in ChannelTypes |-> [available |-> t \in AvailableFor(allowed), fields |-> Registry[t]]]

-----------------------------------------------------------------------------
(* Send.  What the receiver is asked to do, or None when Send gives up before
   any call: [act, alias].  Only the on-call tools keep an alert by alias. *)

Call(act, alias) == [act |-> act, alias |-> alias]
postJSON(missing, call) == IF missing THEN None ELSE call

discordSend(cfg, ev) == postJSON(Missing(cfg, "webhook_url"), Call("message", None))
slackSend(cfg, ev)   == postJSON(Missing(cfg, "webhook_url"), Call("message", None))
teamsSend(cfg, ev)   == postJSON(Missing(cfg, "webhook_url"), Call("message", None))
webhookSend(cfg, ev) == postJSON(Missing(cfg, "url"), Call("message", None))
telegramSend(cfg, ev) ==
  IF Missing(cfg, "bot_token") \/ Missing(cfg, "chat_id") THEN None ELSE Call("message", None)
twilioSend(cfg, ev) ==
  IF \E k \in {"account_sid", "auth_token", "from", "to"} : Missing(cfg, k)
  THEN None ELSE Call("message", None)

\* The keys whose values are in the URL a provider posts to: client.Do names the
\* URL in the error it returns, and postJSON hands that error on.
urlKeys(t) ==
  CASE t \in {"discord", "slack", "teams"} -> {"webhook_url"}
    [] t = "webhook"  -> {"url"}
    [] t = "telegram" -> {"bot_token"}
    [] OTHER          -> {}

\* pulse-inc-<id>: the down and the recovery of an incident share it.
\* Mutant: every event has a key of its own.
keyPerEvent(ev)   == IF ev.type = "recovery" THEN ev.inc + 100 ELSE ev.inc
pdDedupKey(ev)    == ev.inc
opsgenieAlias(ev) == ev.inc
pagerdutySend(cfg, ev) ==
  IF Missing(cfg, "routing_key") THEN None
  ELSE Call(IF ev.type = "recovery" /\ ~ ev.test THEN "resolve" ELSE "trigger", pdDedupKey(ev))
opsgenieSend(cfg, ev) ==
  IF Missing(cfg, "api_key") THEN None
  ELSE Call(IF ev.type = "recovery" /\ ~ ev.test THEN "resolve" ELSE "trigger", opsgenieAlias(ev))

tlsMode(cfg) ==
  LET v == cfgAt(cfg, "tls") IN
  CASE v.kind = "text" /\ v.val \in {"implicit", "none", "starttls"} -> v.val
    [] v.kind = "text" /\ v.val \in {"true", "1", "yes"} -> "implicit"
    [] v.kind = "bool" /\ v.val = "true" -> "implicit"
    [] OTHER -> "starttls"

\* deliver checks what Validate checks, at the time of the send.
smtpDeliver(cfg, ev) ==
  IF Missing(cfg, "host") \/ Missing(cfg, "from") \/ recipients(cfg) = {} THEN None
  ELSE Call("message", None)

\* Mails to the active members among the selected; nobody active is a success.
emailSend(cfg, ev) == IF memberIDs(cfg) = {} THEN None ELSE Call("mail", None)

SendCall(t, cfg, ev) ==
  CASE t = "discord"   -> discordSend(cfg, ev)
    [] t = "slack"     -> slackSend(cfg, ev)
    [] t = "teams"     -> teamsSend(cfg, ev)
    [] t = "webhook"   -> webhookSend(cfg, ev)
    [] t = "telegram"  -> telegramSend(cfg, ev)
    [] t = "twilio"    -> twilioSend(cfg, ev)
    [] t = "pagerduty" -> pagerdutySend(cfg, ev)
    [] t = "opsgenie"  -> opsgenieSend(cfg, ev)
    [] t = "smtp"      -> smtpDeliver(cfg, ev)
    [] t = "email"     -> emailSend(cfg, ev)
    [] OTHER           -> None
=============================================================================
