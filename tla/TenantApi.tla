----------------------------- MODULE TenantApi ------------------------------
(***************************************************************************)
(* The org-scoped part of the api as one system: monitors, channels,       *)
(* webhooks and status pages over one database, requests of several        *)
(* clients interleaved between their transactions, billing changing plans, *)
(* and the check pipeline writing results.                                 *)
(***************************************************************************)
EXTENDS StatusPagesApi, ChannelsApi

vars == <<tenantVars, monitorVars, channelVars, pageVars>>

Init == TenantInit /\ MonitorsInit /\ ChannelsInit /\ PagesInit

\* Ids a caller may name: rows there are, and one there is not.
Ids(seq) == 1..(seq + 1)

MonitorRequest(c, p) ==
  /\ \/ ListMonitors(c, p)
     \/ \E in \in MonitorInputs : CreateMonitor(c, p, in)
     \/ \E id \in Ids(monSeq) : GetMonitor(c, p, id)
     \/ \E id \in Ids(monSeq), in \in MonitorInputs : UpdateMonitor(c, p, id, in)
  /\ UNCHANGED <<channelVars, pageVars>>

RemoveMonitor(c, p) ==
  /\ \E id \in Ids(monSeq) :
       DeleteMonitor(c, p, id) /\ CascadeMonitors({id} \cap WithOrg(monitors, p.org))
  /\ UNCHANGED channelVars

ChannelRequest(c, p) ==
  /\ \/ GetChannelTypes(c, p) \/ ListChannels(c, p) \/ ListWebhooks(c, p)
     \/ \E in \in ChannelInputs : CreateChannel(c, p, in)
     \/ \E id \in Ids(chSeq) : DeleteChannel(c, p, id) \/ TestChannel(c, p, id)
     \/ \E id \in Ids(chSeq), in \in ChannelInputs : UpdateChannel(c, p, id, in)
     \/ \E in \in HookInputs : CreateWebhook(c, p, in)
     \/ \E id \in Ids(hookSeq) :
          GetWebhook(c, p, id) \/ RotateWebhookSecret(c, p, id) \/ DeleteWebhook(c, p, id)
     \/ \E id \in Ids(hookSeq), in \in HookInputs : UpdateWebhook(c, p, id, in)
  /\ UNCHANGED <<monitorVars, pageVars>>

PageRequest(c, p) ==
  /\ \/ ListStatusPages(c, p)
     \/ \E in \in PageInputs : CreateStatusPage(c, p, in)
     \/ \E id \in Ids(pageSeq) : GetStatusPage(c, p, id) \/ DeleteStatusPage(c, p, id)
     \/ \E id \in Ids(pageSeq), in \in PageInputs : UpdateStatusPage(c, p, id, in)
     \/ \E id \in Ids(pageSeq), on \in BOOLEAN : PublishStatusPage(c, p, id, on)
     \/ \E in \in PageInputs : GetPublicStatusPage(c, in.slug)
  /\ UNCHANGED <<monitorVars, channelVars>>

NextStep(c) ==
  \/ (InsertMonitor(c) \/ OverwriteMonitor(c)) /\ UNCHANGED <<channelVars, pageVars>>
  \/ (WriteChannel(c) \/ ShowSecret(c) \/ WriteHook(c)) /\ UNCHANGED <<monitorVars, pageVars>>
  \/ (InsertPage(c) \/ WritePage(c) \/ SetStatusPageMonitors(c) \/ FlipPage(c))
       /\ UNCHANGED <<monitorVars, channelVars>>

Environment ==
  \/ \E o \in Orgs : PlanChanged(o) /\ UNCHANGED <<monitorVars, channelVars, pageVars>>
  \/ \E c \in Clients : Abort(c) /\ UNCHANGED <<monitorVars, channelVars, pageVars>>
  \/ \E id \in DOMAIN monitors : PipelineWrites(id) /\ UNCHANGED <<channelVars, pageVars>>

Next ==
  \/ \E c \in Clients, p \in Actors :
       MonitorRequest(c, p) \/ RemoveMonitor(c, p) \/ ChannelRequest(c, p) \/ PageRequest(c, p)
  \/ \E c \in Clients : NextStep(c)
  \/ Environment

Spec == Init /\ [][Next]_vars

-----------------------------------------------------------------------------
(* Correctness. *)

\* A plan cap is counted in one transaction and the row written in another, so
\* requests in flight at once can pass it together (CreateMonitor,
\* UpdateMonitor, CreateStatusPage).  How far: by one row for each request but
\* the last, over the highest cap the org ever had, and not by one more.
CapSlack ==
  \A o \in Orgs :
    /\ CountEnabledMonitors(o) <= MonitorResolver[peak[o]].cap + Cardinality(Clients) - 1
    /\ CountStatusPages(o) <= PageCaps[peak[o]] + Cardinality(Clients) - 1

\* Nothing of one org is reached through another: a status page lists monitors
\* of its own org that still exist, its public view shows only enabled ones,
\* and a monitor alerts only channels of its org, whatever ids the callers of
\* two orgs sent and however their transactions interleave.
OrgsApart ==
  /\ \A id \in DOMAIN pages :
       /\ \A i \in DOMAIN entries[id] : entries[id][i] \in WithOrg(monitors, pages[id].org)
       /\ LET shown == publicStatusPageDTO(id).monitors IN
            \A i \in DOMAIN shown : monitors[shown[i]].enabled
  /\ \A id \in DOMAIN monitors :
       GetChannelsForMonitor(monitors[id]) \subseteq WithOrg(channels, monitors[id].org)

\* Secrets stay in: what is stored under a secret key is ciphertext, and an
\* answer shows no plaintext but the signing secret a create or a rotation of
\* a webhook has just made.  The one exception: the 422 of a channel test that
\* failed carries the provider's error (TestChannel), which may name the URL of
\* the channel tested.  That is a channel of the caller's own org, and the
\* channel's other secrets are not in it.
SecretsConfined ==
  /\ \A id \in DOMAIN channels :
       LET ch == channels[id] IN
         \A k \in DOMAIN ch.cfg \cap SecretKeys(ch.type) : ch.cfg[k].val \notin Values
  /\ \A id \in DOMAIN monitors :
       LET hs == monitors[id].headers IN
         \A i \in 1..Len(hs) : hs[i].secret => hs[i].value \notin Values
  /\ out.shows \cap Values = {}
  /\ out.told # {} => out.code = 422
  /\ \A t \in out.told :
       \E id \in WithOrg(channels, t[1]) : t[2] \in urlValues(scanChannel(channels[id]))

\* Every stored channel has a configuration its provider can send with: an
\* update that leaves secrets blank, changes the type or races another update
\* never stores one that validation would refuse.
ChannelsSendable ==
  \A id \in DOMAIN channels :
    LET ch == scanChannel(channels[id]) IN
      /\ ValidateConfig(ch.type, ch.cfg)
      /\ SendCall(ch.type, ch.cfg, [type |-> "down", inc |-> 1, test |-> FALSE]) # None

\* Deliveries are signed with the secret the last create or rotation issued: an
\* edit of the webhook that read the row before a rotation does not bring the
\* old secret back.
SigningSecretIsCurrent ==
  \A id \in DOMAIN hooks : scanOrgWebhook(hooks[id]).secret = issued[id]
=============================================================================
