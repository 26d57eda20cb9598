---------------------------- MODULE ChannelsApi -----------------------------
(***************************************************************************)
(* Notification channels and org webhooks: internal/api/channels.go and    *)
(* webhooks.go over internal/store.  A channel update reads the row, keeps *)
(* the secrets the caller left blank, and writes the whole row in another  *)
(* transaction.  A webhook's signing secret is made by the server, shown   *)
(* once, and changed only by a rotation.                                   *)
(***************************************************************************)
EXTENDS Tenant

CONSTANTS
  ChannelInputs,  \* request bodies: [name, type, cfg, enabled]
  HookInputs,     \* request bodies: [url, events, enabled]; enabled may be None
  Members,        \* org -> its active members
  MaxChannels,    \* bound: channels ever created
  MaxHooks        \* bound: webhooks ever created

INSTANCE Providers

\* A call is no None; secrets are sent as text or in a map, under the keys of
\* the type that are for secrets.
ASSUME ChannelsAssumption ==
  /\ MaxChannels \in Nat /\ MaxHooks \in Nat
  /\ None \notin {Call(act, alias) : act \in {"message", "mail", "trigger"}, alias \in {None, 1}}
  /\ \A in \in ChannelInputs :
       /\ in.cfg = [k \in DOMAIN in.cfg |-> in.cfg[k]]
       /\ \A k \in DOMAIN in.cfg :
            LET v == in.cfg[k] IN
            /\ v = [kind |-> v.kind, val |-> v.val]
            /\ IF k \in SecretKeys(in.type) /\ v.kind \in {"text", "map"}
               THEN v.val \in Values \cup {Blank} ELSE v.val \notin Values

VARIABLES
  channels,       \* channels table: id -> [org, type, cfg, enabled], secrets encrypted
  chSeq,          \* ids handed out so far
  hooks,          \* org_webhooks: id -> [org, url, events, enabled, secret]
  hookSeq,        \* ids handed out so far
  minted,         \* signing secrets made so far; the k-th one is k
  issued,         \* history: webhook -> the secret the last create or rotate gave it
  intents         \* channel-test emails asked of the notifier: [channel, org, to]

channelVars == <<channels, chSeq, hooks, hookSeq, minted, issued, intents>>
hookVars    == <<hooks, hookSeq, minted, issued>>

ChannelsInit ==
  /\ channels = << >> /\ chSeq = 0
  /\ hooks = << >> /\ hookSeq = 0 /\ minted = 0 /\ issued = << >>
  /\ intents = {}

allowedChannelTypes(o) == ChannelTypesAllowed(orgPlan(o))

AreActiveMembers(o, ids) == ids # {} /\ ids \subseteq Members[o]
validateEmailMembers(o, cfg) == memberIDs(cfg) = {} \/ AreActiveMembers(o, memberIDs(cfg))

\* The fields channelFromInput rejects.
channelErrors(o, in) ==
  (IF in.name = "blank" THEN {"name"} ELSE {})
  \cup (IF in.type \in ChannelTypes /\ in.type \in allowedChannelTypes(o) THEN {} ELSE {"type"})
  \cup (IF in.type \in ChannelTypes /\ ~ ValidateConfig(in.type, in.cfg) THEN {"config"} ELSE {})
  \cup (IF in.type = "email" /\ ~ validateEmailMembers(o, in.cfg) THEN {"members"} ELSE {})

\* A secret left blank keeps the stored one.
mergeKeptSecrets(cfg, existing, secretKeys) ==
  LET kept == {k \in secretKeys : Missing(cfg, k) /\ ~ Missing(existing, k)} IN
  [k \in DOMAIN cfg \cup kept |-> IF k \in kept THEN existing[k] ELSE cfg[k]]

stripConfigErrors(errs) == errs \ {"config"}

\* Texts and header values under the secret keys are encrypted one by one.
OnSecrets(t, cfg, Op(_)) ==
  [k \in DOMAIN cfg |->
    IF k \in SecretKeys(t) /\ cfg[k].kind \in {"text", "map"} THEN Op(cfg[k]) ELSE cfg[k]]
EncryptChannelConfig(t, cfg) ==
  OnSecrets(t, cfg, LAMBDA v : [v EXCEPT !.val = encryptSecret(@)])
decryptChannelConfig(t, cfg) ==
  OnSecrets(t, cfg, LAMBDA v : [v EXCEPT !.val = decryptSecret(@)])
\* Blanked, not left out, in an answer.  Mutant: the configuration as it is.
asConfigured(t, cfg) == cfg
redactSecretConfig(t, cfg) == OnSecrets(t, cfg, LAMBDA v : [v EXCEPT !.val = Blank])

scanChannel(row) == [row EXCEPT !.cfg = decryptChannelConfig(row.type, @)]
channelRow(ch)   == [ch EXCEPT !.cfg = EncryptChannelConfig(ch.type, @)]

\* The values an answer shows.
channelDTO(ch) ==
  LET cfg == redactSecretConfig(ch.type, ch.cfg) IN
  {cfg[k].val : k \in {j \in DOMAIN cfg : cfg[j].kind \in {"text", "map"}}} \ {Blank}

\* Only channels of the monitor's org that are enabled, whatever ids it lists.
GetChannelsForMonitor(m) ==
  {id \in WithOrg(channels, m.org) : channels[id].enabled /\ id \in m.channels}

\* Pool_X is the store method X: one transaction bound to the org.
Pool_GetChannel(o, id)  == IF id \in WithOrg(channels, o) THEN scanChannel(channels[id]) ELSE None
Pool_ListChannels(o)    == {scanChannel(channels[id]) : id \in WithOrg(channels, o)}
Pool_CreateChannel(ch)  == chSeq' = chSeq + 1 /\ channels' = Put(channels, chSeq', channelRow(ch))
Pool_UpdateChannel(id, ch) == channels' = Put(channels, id, channelRow(ch))
Pool_DeleteChannel(o, id)  == channels' = Drop(channels, {id} \cap WithOrg(channels, o))

GetChannelTypes(c, p) ==
  /\ Request(c) /\ CanInOrg(p, "manage_channels")
  /\ Reply(c, 200, {})
  /\ UNCHANGED channelVars

ListChannels(c, p) ==
  /\ Request(c) /\ CanInOrg(p, "manage_channels")
  /\ Reply(c, 200, UNION {channelDTO(ch) : ch \in Pool_ListChannels(p.org)})
  /\ UNCHANGED channelVars

channelFromInput(o, in) == [org |-> o, type |-> in.type, cfg |-> in.cfg, enabled |-> in.enabled]

CreateChannel(c, p, in) ==
  /\ Request(c) /\ CanInOrg(p, "manage_channels") /\ chSeq < MaxChannels
  /\ IF channelErrors(p.org, in) # {}
     THEN Reply(c, 422, {}) /\ UNCHANGED <<channels, chSeq>>
     ELSE LET ch == channelFromInput(p.org, in) IN
          /\ Pool_CreateChannel(ch)
          /\ Reply(c, 201, channelDTO(ch))
  /\ UNCHANGED <<hookVars, intents>>

\* The row an update will write, after the merge.  Mutant: a secret left blank
\* is kept whatever the type was, and the config not validated again.
mergesAnyType(existing, in) ==
  [cfg  |-> mergeKeptSecrets(in.cfg, existing.cfg, SecretKeys(in.type)),
   errs |-> stripConfigErrors(channelErrors(existing.org, in))]
mergedInput(existing, in) ==
  LET errs   == channelErrors(existing.org, in)
      merged == mergeKeptSecrets(in.cfg, existing.cfg, SecretKeys(in.type)) IN
  IF in.type # existing.type THEN [cfg |-> in.cfg, errs |-> errs]
  ELSE [cfg  |-> merged,
        errs |-> IF ValidateConfig(in.type, merged) THEN stripConfigErrors(errs) ELSE errs]

UpdateChannel(c, p, id, in) ==
  /\ Request(c) /\ CanInOrg(p, "manage_channels")
  /\ IF Pool_GetChannel(p.org, id) = None THEN Reply(c, 404, {})
     ELSE LET m == mergedInput(Pool_GetChannel(p.org, id), in) IN
          IF m.errs # {} THEN Reply(c, 422, {})
          ELSE Hold(c, [op |-> "writeChannel", id |-> id,
                        ch |-> [channelFromInput(p.org, in) EXCEPT !.cfg = m.cfg]])
  /\ UNCHANGED channelVars

WriteChannel(c) ==
  /\ Resume(c, "writeChannel")
  /\ IF req[c].id \in WithOrg(channels, req[c].ch.org)
     THEN /\ Pool_UpdateChannel(req[c].id, req[c].ch)
          /\ Reply(c, 200, channelDTO(req[c].ch))
     ELSE Reply(c, 404, {}) /\ UNCHANGED channels
  /\ UNCHANGED <<chSeq, hookVars, intents>>

DeleteChannel(c, p, id) ==
  /\ Request(c) /\ CanInOrg(p, "manage_channels")
  /\ Pool_DeleteChannel(p.org, id)
  /\ Reply(c, 204, {})
  /\ UNCHANGED <<chSeq, hookVars, intents>>

\* The values an error of the channel's provider may name.
urlValues(ch) == {ch.cfg[k].val : k \in urlKeys(ch.type) \cap DOMAIN ch.cfg}

\* A Team email test goes to the caller through the notifier; every other type
\* is sent from here, and the provider may refuse or fail: the answer then has
\* the error's text, which names the URL when it is the request that failed.
TestChannel(c, p, id) ==
  /\ Request(c) /\ CanInOrg(p, "manage_channels")
  /\ LET ch == Pool_GetChannel(p.org, id) IN
     IF ch = None THEN Reply(c, 404, {}) /\ UNCHANGED intents
     ELSE
       IF ch.type = "email"
       THEN \/ p.kind = "human" /\ Reply(c, 204, {})
               /\ intents' = intents \cup {[channel |-> id, org |-> p.org, to |-> p.user]}
            \/ Reply(c, 422, {}) /\ UNCHANGED intents
       ELSE /\ \/ SendCall(ch.type, ch.cfg, [type |-> "", inc |-> 0, test |-> TRUE]) # None
                  /\ Reply(c, 204, {})
               \/ ReplyError(c, 422, {})
               \/ SendCall(ch.type, ch.cfg, [type |-> "", inc |-> 0, test |-> TRUE]) # None
                  /\ ReplyError(c, 422, {p.org} \X urlValues(ch))
            /\ UNCHANGED intents
  /\ UNCHANGED <<channels, chSeq, hookVars>>

-----------------------------------------------------------------------------
(* Org webhooks. *)

knownWebhookEvents == {"monitor.down", "monitor.recovery", "incident.opened", "incident.closed"}

webhookErrors(in) == in.url # "https" \/ ~ (in.events \subseteq knownWebhookEvents)
webhookFromInput(o, in, enabled, secret) ==
  [org |-> o, url |-> in.url, events |-> in.events, enabled |-> enabled, secret |-> secret]

newWebhookSecret == minted' = minted + 1
scanOrgWebhook(row) == [row EXCEPT !.secret = decryptSecret(@)]
\* The answer has every field but the secret.
webhookDTO(w) == {}

Pool_GetWebhook(o, id) == IF id \in WithOrg(hooks, o) THEN scanOrgWebhook(hooks[id]) ELSE None
Pool_ListWebhooks(o)   == {scanOrgWebhook(hooks[id]) : id \in WithOrg(hooks, o)}
Pool_CreateWebhook(w) ==
  /\ hookSeq' = hookSeq + 1
  /\ hooks' = Put(hooks, hookSeq', [w EXCEPT !.secret = encryptSecret(@)])
  /\ issued' = Put(issued, hookSeq', w.secret)
Pool_RotateWebhookSecret(id, secret) ==
  /\ hooks' = [hooks EXCEPT ![id].secret = encryptSecret(secret)]
  /\ issued' = [issued EXCEPT ![id] = secret]
Pool_DeleteWebhook(o, id) ==
  LET gone == {id} \cap WithOrg(hooks, o) IN
    hooks' = Drop(hooks, gone) /\ issued' = Drop(issued, gone)

ListWebhooks(c, p) ==
  /\ Request(c) /\ CanInOrg(p, "manage_webhooks")
  /\ Reply(c, 200, UNION {webhookDTO(w) : w \in Pool_ListWebhooks(p.org)})
  /\ UNCHANGED channelVars

GetWebhook(c, p, id) ==
  /\ Request(c) /\ CanInOrg(p, "manage_webhooks")
  /\ LET w == Pool_GetWebhook(p.org, id) IN
       IF w # None THEN Reply(c, 200, webhookDTO(w)) ELSE Reply(c, 404, {})
  /\ UNCHANGED channelVars

\* created_by is the principal's user id, which is 0 and no user's for a key:
\* the foreign key refuses the row.
CreateWebhook(c, p, in) ==
  /\ Request(c) /\ CanInOrg(p, "manage_webhooks") /\ hookSeq < MaxHooks
  /\ IF webhookErrors(in)
     THEN Reply(c, 422, {}) /\ UNCHANGED hookVars
     ELSE /\ newWebhookSecret
          /\ IF p.kind = "api_key"
             THEN Reply(c, 500, {}) /\ UNCHANGED <<hooks, hookSeq, issued>>
             ELSE /\ Pool_CreateWebhook(
                       webhookFromInput(p.org, in, IF in.enabled = None THEN TRUE ELSE in.enabled,
                                        minted'))
                  /\ Hold(c, [op |-> "showSecret", id |-> hookSeq', org |-> p.org, secret |-> minted'])
  /\ UNCHANGED <<channels, chSeq, intents>>

\* The row is read again for the answer, which shows the new secret.
ShowSecret(c) ==
  /\ Resume(c, "showSecret")
  /\ IF Pool_GetWebhook(req[c].org, req[c].id) # None
     THEN Reply(c, 201, {req[c].secret}) ELSE Reply(c, 500, {})
  /\ UNCHANGED channelVars

UpdateWebhook(c, p, id, in) ==
  /\ Request(c) /\ CanInOrg(p, "manage_webhooks")
  /\ LET old == Pool_GetWebhook(p.org, id) IN
     IF old = None THEN Reply(c, 404, {})
     ELSE IF webhookErrors(in) THEN Reply(c, 422, {})
     ELSE Hold(c, [op |-> "writeHook", id |-> id,
                   w |-> webhookFromInput(p.org, in,
                           IF in.enabled = None THEN old.enabled ELSE in.enabled, old.secret)])
  /\ UNCHANGED channelVars

\* The statement sets url, enabled and events.  Mutant: it writes the row read.
WholeHookRow(id, w) == Put(hooks, id, [w EXCEPT !.secret = encryptSecret(@)])
UpdatedHooks(id, w) == Put(hooks, id, [w EXCEPT !.secret = hooks[id].secret])
WriteHook(c) ==
  /\ Resume(c, "writeHook")
  /\ IF req[c].id \in WithOrg(hooks, req[c].w.org)
     THEN hooks' = UpdatedHooks(req[c].id, req[c].w) /\ Reply(c, 200, webhookDTO(req[c].w))
     ELSE Reply(c, 404, {}) /\ UNCHANGED hooks
  /\ UNCHANGED <<channels, chSeq, hookSeq, minted, issued, intents>>

RotateWebhookSecret(c, p, id) ==
  /\ Request(c) /\ CanInOrg(p, "manage_webhooks")
  /\ newWebhookSecret
  /\ IF id \in WithOrg(hooks, p.org)
     THEN /\ Pool_RotateWebhookSecret(id, minted')
          /\ Hold(c, [op |-> "showSecret", id |-> id, org |-> p.org, secret |-> minted'])
     ELSE Reply(c, 404, {}) /\ UNCHANGED <<hooks, issued>>
  /\ UNCHANGED <<channels, chSeq, hookSeq, intents>>

DeleteWebhook(c, p, id) ==
  /\ Request(c) /\ CanInOrg(p, "manage_webhooks")
  /\ Pool_DeleteWebhook(p.org, id)
  /\ Reply(c, 204, {})
  /\ UNCHANGED <<channels, chSeq, hookSeq, minted, intents>>
=============================================================================
