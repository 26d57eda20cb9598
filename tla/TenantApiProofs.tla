-------------------------- MODULE TenantApiProofs ---------------------------
(***************************************************************************)
(* What module TenantApi promises, for any number of orgs, clients,        *)
(* requests, rows and request bodies.                                      *)
(***************************************************************************)
EXTENDS TenantApi, FiniteSetTheorems, TLAPS

-----------------------------------------------------------------------------
(* What rows and requests look like. *)

IsMonitor(m) ==
  m = [org |-> m.org, type |-> m.type, method |-> m.method, body |-> m.body,
       expected |-> m.expected, timeout |-> m.timeout, interval |-> m.interval,
       enabled |-> m.enabled, latency |-> m.latency, contains |-> m.contains,
       threshold |-> m.threshold, regions |-> m.regions, policy |-> m.policy,
       headers |-> m.headers, channels |-> m.channels]
IsHeader(h)  == h = [key |-> h.key, secret |-> h.secret, value |-> h.value] /\ h.secret \in BOOLEAN
IsPage(sp)   == sp = [org |-> sp.org, slug |-> sp.slug, theme |-> sp.theme, published |-> sp.published]
IsEntry(v)   == v = [kind |-> v.kind, val |-> v.val]
IsChannel(r) == r = [org |-> r.org, type |-> r.type, cfg |-> r.cfg, enabled |-> r.enabled]
IsHook(w)    == w = [org |-> w.org, url |-> w.url, events |-> w.events, enabled |-> w.enabled,
                     secret |-> w.secret]

\* Headers in the clear, and as they are stored.
Clear(hs) ==
  /\ Len(hs) \in Nat
  /\ \A i \in 1..Len(hs) : /\ IsHeader(hs[i])
                           /\ hs[i].secret => hs[i].value \in Values \cup {Blank}
                           /\ ~ hs[i].secret => hs[i].value \notin Values
Sealed(hs) ==
  /\ Len(hs) \in Nat
  /\ \A i \in 1..Len(hs) : /\ IsHeader(hs[i])
                           /\ hs[i].secret => hs[i].value \in ({"enc"} \X Values) \cup {Blank}
                           /\ ~ hs[i].secret => hs[i].value \notin Values

\* What is encrypted of a channel's configuration, in the clear and as stored.
Covered(t, cfg, k) == k \in SecretKeys(t) /\ cfg[k].kind \in {"text", "map"}
ClearConfig(t, cfg) ==
  \A k \in DOMAIN cfg :
    /\ IsEntry(cfg[k])
    /\ IF Covered(t, cfg, k) THEN cfg[k].val \in Values \cup {Blank} ELSE cfg[k].val \notin Values
SealedConfig(t, cfg) ==
  \A k \in DOMAIN cfg :
    /\ IsEntry(cfg[k])
    /\ IF Covered(t, cfg, k) THEN cfg[k].val \in ({"enc"} \X Values) \cup {Blank}
                             ELSE cfg[k].val \notin Values

ClearMonitor(m) == IsMonitor(m) /\ m.enabled \in BOOLEAN /\ Clear(m.headers)
ClearChannel(r) == /\ IsChannel(r) /\ r.cfg = [k \in DOMAIN r.cfg |-> r.cfg[k]]
                   /\ ClearConfig(r.type, r.cfg) /\ ValidateConfig(r.type, r.cfg)

\* What a request carries from one transaction to the next.
Carried(r) ==
  /\ r.op \in {"insertMonitor", "overwriteMonitor"} => ClearMonitor(r.m)
  /\ r.op \in {"insertPage", "writePage", "flipPage"} => IsPage(r.sp)
  /\ r.op \in {"insertPage", "writePage", "setMonitors"} => r.shown \in Seq(Int)
  /\ r.op = "writeChannel" => ClearChannel(r.ch)
  /\ r.op = "showSecret" => r.secret \in Nat
  /\ r.op = "writeHook" => IsHook(r.w)

RequestsOK == req = [c \in Clients |-> req[c]] /\ \A c \in Clients : req[c] # None => Carried(req[c])
MonitorsOK ==
  /\ monSeq \in Nat /\ DOMAIN monitors \subseteq 1..monSeq
  /\ \A id \in DOMAIN monitors : /\ IsMonitor(monitors[id]) /\ monitors[id].enabled \in BOOLEAN
                                 /\ Sealed(monitors[id].headers)
ChannelsOK ==
  /\ chSeq \in Nat /\ DOMAIN channels \subseteq 1..chSeq
  /\ \A id \in DOMAIN channels : /\ IsChannel(channels[id])
                                 /\ SealedConfig(channels[id].type, channels[id].cfg)
                                 /\ ClearChannel(scanChannel(channels[id]))
HooksOK ==
  /\ hookSeq \in Nat /\ minted \in Nat
  /\ hooks = [id \in DOMAIN hooks |-> hooks[id]] /\ issued = [id \in DOMAIN hooks |-> issued[id]]
  /\ \A id \in DOMAIN hooks : /\ IsHook(hooks[id]) /\ issued[id] \in Nat
                              /\ hooks[id].secret = Encrypt(issued[id])
PagesOK ==
  /\ pageSeq \in Nat /\ DOMAIN pages \subseteq 1..pageSeq
  /\ entries = [id \in DOMAIN pages |-> entries[id]]
  /\ \A id \in DOMAIN pages :
       /\ IsPage(pages[id])
       /\ \A i \in DOMAIN entries[id] : entries[id][i] \in WithOrg(monitors, pages[id].org)

AnswersOK == out.shows \cap Values = {}

RowsOK == MonitorsOK /\ ChannelsOK /\ HooksOK /\ PagesOK

-----------------------------------------------------------------------------
(* Plan caps: rows there are, and rows that requests past the count may add. *)

CapOf(o)     == MonitorResolver[peak[o]].cap
Enabled(o)   == {id \in WithOrg(monitors, o) : monitors[id].enabled}
Enabling(o)  == {c \in Clients : /\ req[c] # None /\ req[c].op = "overwriteMonitor"
                                 /\ req[c].m.org = o /\ req[c].m.enabled}
Inserting(o) == {c \in Clients : /\ req[c] # None /\ req[c].op = "insertMonitor"
                                 /\ req[c].m.org = o /\ req[c].m.enabled}
Paging(o)    == {c \in Clients : req[c] # None /\ req[c].op = "insertPage" /\ req[c].sp.org = o}
\* Monitors that are enabled, or will be unless something intervenes.
ToEnable(o)  == {req[c].id : c \in Enabling(o)}
Soon(o)      == Enabled(o) \cup ToEnable(o)

PlansOK ==
  /\ plan \in [Orgs -> Plans] /\ peak \in [Orgs -> Plans]
  /\ \A o \in Orgs : Rank(plan[o]) <= Rank(peak[o])
MonitorCapOK ==
  \A o \in Orgs : Cardinality(Soon(o)) + Cardinality(Inserting(o)) <= CapOf(o) + Cardinality(Clients) - 1
PageCapOK ==
  \A o \in Orgs : CountStatusPages(o) + Cardinality(Paging(o)) <= PageCaps[peak[o]] + Cardinality(Clients) - 1

-----------------------------------------------------------------------------
(* Encryption of headers and configurations. *)

LEMMA Ciphers ==
  /\ \A v \in Values : /\ v # Blank /\ v \notin Nat /\ encryptSecret(v) = <<"enc", v>>
                       /\ <<"enc", v>> \in {"enc"} \X Values /\ decryptSecret(<<"enc", v>>) = v
  /\ encryptSecret(Blank) = Blank /\ decryptSecret(Blank) = Blank /\ Blank \notin Values
  /\ \A e \in {"enc"} \X Values : e \notin Values /\ e # Blank /\ decryptSecret(e) \in Values
<1>1. \A v \in Values : <<"enc", v>> \in {"enc"} \X Values /\ <<"enc", v>> \in Ciphertexts
  BY DEF Ciphertexts
<1>2. \A e \in {"enc"} \X Values : e \in Ciphertexts /\ e[2] \in Values
  BY DEF Ciphertexts
<1>3. \A v \in Values \cup {Blank} : v \notin Ciphertexts /\ v \notin Nat
  BY TenantAssumption
<1>4. Blank \notin Values
  BY TenantAssumption
<1> QED BY <1>1, <1>2, <1>3, <1>4 DEF encryptSecret, decryptSecret, Encrypt, Decrypt

LEMMA EncodeHeaders ==
  ASSUME NEW hs, Clear(hs)
  PROVE  Sealed(encodeHeaders(hs))
<1>1. PICK n \in Nat : n = Len(hs)
  BY DEF Clear
<1>2. PICK es : es = encodeHeaders(hs)
  OBVIOUS
<1>3. es = [i \in 1..n |-> IF hs[i].secret THEN [hs[i] EXCEPT !.value = encryptSecret(@)] ELSE hs[i]]
  BY <1>1, <1>2 DEF encodeHeaders
<1>4. Len(es) = n
  BY <1>1, <1>3
<1>5. ASSUME NEW i \in 1..n
      PROVE  /\ IsHeader(es[i])
             /\ es[i].secret => es[i].value \in ({"enc"} \X Values) \cup {Blank}
             /\ ~ es[i].secret => es[i].value \notin Values
  <2>1. PICK h : h = hs[i]
    OBVIOUS
  <2>2. /\ IsHeader(h)
        /\ h.secret => h.value \in Values \cup {Blank}
        /\ ~ h.secret => h.value \notin Values
    BY <1>1, <2>1 DEF Clear
  <2>3. CASE h.secret
    <3>1. PICK v : v = encryptSecret(h.value)
      OBVIOUS
    <3>2. es[i] = [h EXCEPT !.value = v]
      BY <1>3, <2>1, <2>3, <3>1
    <3>3. v \in ({"enc"} \X Values) \cup {Blank}
      BY <2>2, <2>3, <3>1, Ciphers
    <3> QED BY <2>2, <2>3, <3>2, <3>3 DEF IsHeader
  <2>4. CASE ~ h.secret
    BY <1>3, <2>1, <2>2, <2>4
  <2> QED BY <2>2, <2>3, <2>4 DEF IsHeader
<1> QED BY <1>1, <1>2, <1>4, <1>5 DEF Sealed

LEMMA DecodeHeaders ==
  ASSUME NEW hs, Sealed(hs)
  PROVE  Clear(decodeHeaders(hs))
<1>1. PICK n \in Nat : n = Len(hs)
  BY DEF Sealed
<1>2. PICK es : es = decodeHeaders(hs)
  OBVIOUS
<1>3. es = [i \in 1..n |-> IF hs[i].secret THEN [hs[i] EXCEPT !.value = decryptSecret(@)] ELSE hs[i]]
  BY <1>1, <1>2 DEF decodeHeaders
<1>4. Len(es) = n
  BY <1>1, <1>3
<1>5. ASSUME NEW i \in 1..n
      PROVE  /\ IsHeader(es[i])
             /\ es[i].secret => es[i].value \in Values \cup {Blank}
             /\ ~ es[i].secret => es[i].value \notin Values
  <2>1. PICK h : h = hs[i]
    OBVIOUS
  <2>2. /\ IsHeader(h)
        /\ h.secret => h.value \in ({"enc"} \X Values) \cup {Blank}
        /\ ~ h.secret => h.value \notin Values
    BY <1>1, <2>1 DEF Sealed
  <2>3. CASE h.secret
    <3>1. PICK v : v = decryptSecret(h.value)
      OBVIOUS
    <3>2. es[i] = [h EXCEPT !.value = v]
      BY <1>3, <2>1, <2>3, <3>1
    <3>3. v \in Values \cup {Blank}
      BY <2>2, <2>3, <3>1, Ciphers
    <3> QED BY <2>2, <2>3, <3>2, <3>3 DEF IsHeader
  <2>4. CASE ~ h.secret
    BY <1>3, <2>1, <2>2, <2>4
  <2> QED BY <2>2, <2>3, <2>4 DEF IsHeader
<1> QED BY <1>1, <1>2, <1>4, <1>5 DEF Clear

\* Only what is not secret is shown, and that is no secret's plaintext.
LEMMA MonitorShows ==
  ASSUME NEW m, Clear(m.headers)
  PROVE  monitorDTO(m) \cap Values = {}
BY DEF monitorDTO, Clear

LEMMA MonitorStored ==
  ASSUME NEW m, ClearMonitor(m)
  PROVE  /\ IsMonitor(monitorRow(m)) /\ Sealed(monitorRow(m).headers)
         /\ monitorRow(m).org = m.org /\ monitorRow(m).enabled = m.enabled
<1>1. PICK hs : hs = encodeHeaders(m.headers)
  OBVIOUS
<1>2. PICK rs : rs = IF m.regions = << >> THEN <<DefaultRegion>> ELSE m.regions
  OBVIOUS
<1>3. monitorRow(m) = [m EXCEPT !.headers = hs, !.regions = rs]
  BY <1>1, <1>2 DEF monitorRow
<1>4. Sealed(hs)
  BY <1>1, EncodeHeaders DEF ClearMonitor
<1>5. IsMonitor(m)
  BY DEF ClearMonitor
<1> HIDE DEF ClearMonitor
<1> QED BY <1>3, <1>4, <1>5 DEF IsMonitor

LEMMA MonitorRead ==
  ASSUME NEW row, IsMonitor(row), Sealed(row.headers)
  PROVE  Clear(scanMonitor(row).headers)
<1>1. PICK hs : hs = decodeHeaders(row.headers)
  OBVIOUS
<1>2. scanMonitor(row) = [row EXCEPT !.headers = hs]
  BY <1>1 DEF scanMonitor
<1>3. Clear(hs)
  BY <1>1, DecodeHeaders
<1> QED BY <1>2, <1>3 DEF IsMonitor

LEMMA MonitorEntered ==
  ASSUME NEW o, NEW in \in MonitorInputs
  PROVE  /\ ClearMonitor(monitorFromInput(o, in)) /\ monitorFromInput(o, in).org = o
         /\ monitorFromInput(o, in).enabled = in.enabled
<1>1. PICK hs : hs = inputHeaders(in)
  OBVIOUS
<1>2. Clear(hs)
  <2>1. PICK n \in Nat : n = Len(in.headers)
    BY MonitorsAssumption
  <2>2. hs = [i \in 1..n |-> [in.headers[i] EXCEPT !.value = IF @ = None THEN Blank ELSE @]]
    BY <1>1, <2>1 DEF inputHeaders
  <2>3. Len(hs) = n
    BY <2>1, <2>2
  <2>4. ASSUME NEW i \in 1..n
        PROVE  /\ IsHeader(hs[i])
               /\ hs[i].secret => hs[i].value \in Values \cup {Blank}
               /\ ~ hs[i].secret => hs[i].value \notin Values
    <3>1. PICK h : h = in.headers[i]
      OBVIOUS
    <3>2. /\ IsHeader(h)
          /\ IF h.secret THEN h.value \in Values \cup {None, Blank} ELSE h.value \notin Values
      BY <2>1, <3>1, MonitorsAssumption DEF IsHeader
    <3>3. PICK v : v = IF h.value = None THEN Blank ELSE h.value
      OBVIOUS
    <3>4. hs[i] = [h EXCEPT !.value = v]
      BY <2>2, <3>1, <3>3
    <3> QED BY <3>2, <3>3, <3>4, Ciphers DEF IsHeader
  <2> QED BY <2>1, <2>3, <2>4 DEF Clear
<1>3. Clear(<< >>)
  BY DEF Clear
<1>4. in.enabled \in BOOLEAN
  BY MonitorsAssumption
<1>5. PICK m : m = monitorFromInput(o, in)
  OBVIOUS
<1>6. IsMonitor(m) /\ m.org = o /\ m.enabled = in.enabled
  BY <1>5 DEF monitorFromInput, IsMonitor
<1>7. m.headers = << >> \/ m.headers = hs
  BY <1>1, <1>5 DEF monitorFromInput
<1> QED BY <1>2, <1>3, <1>4, <1>5, <1>6, <1>7 DEF ClearMonitor

\* One value of a configuration, encrypted and decrypted.
LEMMA EntryStored ==
  ASSUME NEW v, IsEntry(v), v.val \in Values \cup {Blank}, NEW e, e = [v EXCEPT !.val = encryptSecret(@)]
  PROVE  /\ IsEntry(e) /\ e.kind = v.kind /\ e.val \in ({"enc"} \X Values) \cup {Blank}
         /\ [e EXCEPT !.val = decryptSecret(@)] = v
<1>1. PICK x : x = encryptSecret(v.val)
  OBVIOUS
<1>2. x \in ({"enc"} \X Values) \cup {Blank} /\ decryptSecret(x) = v.val
  BY <1>1, Ciphers
<1>3. e = [kind |-> v.kind, val |-> x]
  BY <1>1 DEF IsEntry
<1>4. [e EXCEPT !.val = decryptSecret(@)] = v
  <2>1. e.val = x /\ e.kind = v.kind
    BY <1>3
  <2>2. decryptSecret(e.val) = v.val
    BY <1>2, <2>1
  <2>3. PICK y : y = decryptSecret(e.val)
    OBVIOUS
  <2>4. [e EXCEPT !.val = decryptSecret(@)] = [e EXCEPT !.val = y]
    BY <2>3
  <2> QED BY <1>3, <2>2, <2>3, <2>4 DEF IsEntry
<1> QED BY <1>2, <1>3, <1>4 DEF IsEntry

LEMMA ChannelStored ==
  ASSUME NEW ch, ClearChannel(ch)
  PROVE  /\ IsChannel(channelRow(ch)) /\ channelRow(ch).org = ch.org /\ channelRow(ch).type = ch.type
         /\ SealedConfig(channelRow(ch).type, channelRow(ch).cfg) /\ scanChannel(channelRow(ch)) = ch
<1>1. PICK t, cfg : t = ch.type /\ cfg = ch.cfg
  OBVIOUS
<1>2. ClearConfig(t, cfg) /\ IsChannel(ch) /\ cfg = [k \in DOMAIN cfg |-> cfg[k]]
  BY <1>1 DEF ClearChannel
<1>3. PICK enc : enc = [k \in DOMAIN cfg |-> IF Covered(t, cfg, k)
                                             THEN [cfg[k] EXCEPT !.val = encryptSecret(@)] ELSE cfg[k]]
  OBVIOUS
<1>4. EncryptChannelConfig(t, cfg) = enc
  BY <1>3 DEF EncryptChannelConfig, OnSecrets, Covered
<1>5. ASSUME NEW k \in DOMAIN cfg
      PROVE  /\ IsEntry(enc[k]) /\ (Covered(t, enc, k) <=> Covered(t, cfg, k))
             /\ IF Covered(t, cfg, k) THEN enc[k].val \in ({"enc"} \X Values) \cup {Blank}
                                      ELSE enc[k].val \notin Values
             /\ (IF Covered(t, cfg, k) THEN [enc[k] EXCEPT !.val = decryptSecret(@)] ELSE enc[k]) = cfg[k]
  <2>1. PICK v : v = cfg[k]
    OBVIOUS
  <2>2. CASE Covered(t, cfg, k)
    <3>1. IsEntry(v) /\ v.val \in Values \cup {Blank} /\ enc[k] = [v EXCEPT !.val = encryptSecret(@)]
      BY <1>2, <1>3, <2>1, <2>2 DEF ClearConfig
    <3>2. /\ IsEntry(enc[k]) /\ enc[k].kind = v.kind /\ enc[k].val \in ({"enc"} \X Values) \cup {Blank}
          /\ [enc[k] EXCEPT !.val = decryptSecret(@)] = v
      BY <3>1, EntryStored
    <3>3. Covered(t, enc, k)
      BY <2>1, <2>2, <3>2 DEF Covered
    <3> QED BY <2>1, <2>2, <3>2, <3>3
  <2>3. CASE ~ Covered(t, cfg, k)
    <3>1. enc[k] = cfg[k] /\ IsEntry(cfg[k]) /\ cfg[k].val \notin Values
      BY <1>2, <1>3, <2>3 DEF ClearConfig
    <3>2. ~ Covered(t, enc, k)
      BY <2>3, <3>1 DEF Covered
    <3> QED BY <2>3, <3>1, <3>2
  <2> QED BY <2>2, <2>3
<1>6. SealedConfig(t, enc)
  BY <1>3, <1>5 DEF SealedConfig
<1>7. decryptChannelConfig(t, enc) = cfg
  <2>1. decryptChannelConfig(t, enc) =
          [k \in DOMAIN enc |-> IF Covered(t, enc, k) THEN [enc[k] EXCEPT !.val = decryptSecret(@)] ELSE enc[k]]
    BY DEF decryptChannelConfig, OnSecrets, Covered
  <2>2. DOMAIN enc = DOMAIN cfg
    BY <1>3
  <2> QED BY <1>2, <1>5, <2>1, <2>2
<1>8. channelRow(ch) = [org |-> ch.org, type |-> t, cfg |-> enc, enabled |-> ch.enabled]
  BY <1>1, <1>2, <1>4 DEF channelRow, IsChannel
<1>9. PICK row : row = channelRow(ch)
  OBVIOUS
<1>10. IsChannel(row) /\ row.org = ch.org /\ row.type = t /\ row.cfg = enc /\ row.enabled = ch.enabled
  BY <1>8, <1>9 DEF IsChannel
<1>11. scanChannel(row) = [row EXCEPT !.cfg = cfg]
  BY <1>7, <1>10 DEF scanChannel
<1>12. scanChannel(row) = ch
  BY <1>1, <1>2, <1>8, <1>9, <1>11 DEF IsChannel
<1> QED BY <1>1, <1>6, <1>9, <1>10, <1>12

LEMMA ChannelShows ==
  ASSUME NEW ch, ClearChannel(ch)
  PROVE  channelDTO(ch) \cap Values = {}
<1>1. PICK t, cfg : t = ch.type /\ cfg = ch.cfg
  OBVIOUS
<1>2. ClearConfig(t, cfg)
  BY <1>1 DEF ClearChannel
<1>3. PICK red : red = redactSecretConfig(t, cfg)
  OBVIOUS
<1>4. red = [k \in DOMAIN cfg |-> IF Covered(t, cfg, k) THEN [cfg[k] EXCEPT !.val = Blank] ELSE cfg[k]]
  BY <1>3 DEF redactSecretConfig, OnSecrets, Covered
<1>5. ASSUME NEW k \in DOMAIN cfg PROVE red[k].val \notin Values
  <2>1. PICK v : v = cfg[k]
    OBVIOUS
  <2>2. CASE Covered(t, cfg, k)
    <3>1. red[k] = [v EXCEPT !.val = Blank] /\ IsEntry(v)
      BY <1>2, <1>4, <2>1, <2>2 DEF ClearConfig
    <3> QED BY <3>1, Ciphers DEF IsEntry
  <2>3. CASE ~ Covered(t, cfg, k)
    BY <1>2, <1>4, <2>3 DEF ClearConfig
  <2> QED BY <2>2, <2>3
<1>6. DOMAIN red = DOMAIN cfg
  BY <1>4
<1> QED BY <1>1, <1>3, <1>5, <1>6 DEF channelDTO

-----------------------------------------------------------------------------
(* Validation: what it accepts can be sent with, and a merge of two accepted
   configurations is accepted. *)

LEMMA NeededKeys ==
  ASSUME NEW t, NEW cfg, ValidateConfig(t, cfg)
  PROVE  /\ t \in {"discord", "slack", "teams"} => ~ Missing(cfg, "webhook_url")
         /\ t = "webhook" => ~ Missing(cfg, "url")
<1>1. ASSUME NEW f, f \in Registry[t], f.required PROVE ~ Missing(cfg, f.key)
  BY <1>1 DEF ValidateConfig, validateField, Missing
<1>2. PICK f : f = Field("webhook_url", "string", TRUE, TRUE)
  OBVIOUS
<1>3. PICK g : g = Field("url", "string", TRUE, TRUE)
  OBVIOUS
<1>4. f.required /\ f.key = "webhook_url" /\ g.required /\ g.key = "url"
  BY <1>2, <1>3 DEF Field
<1>5. f \in discord /\ f \in slack /\ f \in teams /\ g \in webhook
  BY <1>2, <1>3 DEF discord, slack, teams, webhook
<1>6. /\ Registry["discord"] = discord /\ Registry["slack"] = slack /\ Registry["teams"] = teams
      /\ Registry["webhook"] = webhook
  BY DEF Registry
<1> QED BY <1>1, <1>4, <1>5, <1>6

LEMMA ValidSends ==
  ASSUME NEW t, NEW cfg, ValidateConfig(t, cfg)
  PROVE  SendCall(t, cfg, [type |-> "down", inc |-> 1, test |-> FALSE]) # None
<1>1. PICK ev : ev = [type |-> "down", inc |-> 1, test |-> FALSE]
  OBVIOUS
<1>2. None # Call("message", None) /\ None # Call("mail", None) /\ None # Call("trigger", 1)
  BY ChannelsAssumption
<1>3. ev.type = "down" /\ ev.inc = 1 /\ ev.test = FALSE
  BY <1>1
<1>4. t \in ChannelTypes /\ Validate(t, cfg)
  BY DEF ValidateConfig
<1>5. t \in {"discord", "slack", "teams", "pagerduty", "opsgenie", "telegram", "twilio", "webhook", "email", "smtp"}
  BY <1>4 DEF ChannelTypes, Registry
<1>6. CASE t \in {"discord", "slack", "teams", "webhook"}
  BY <1>1, <1>2, <1>6, NeededKeys DEF SendCall, discordSend, slackSend, teamsSend, webhookSend, postJSON
<1>7. CASE t \in {"pagerduty", "opsgenie"}
  BY <1>1, <1>2, <1>3, <1>4, <1>7 DEF SendCall, pagerdutySend, opsgenieSend, pdDedupKey, opsgenieAlias,
       Validate, pagerdutyValidate, opsgenieValidate
<1>8. CASE t \in {"telegram", "twilio"}
  BY <1>1, <1>2, <1>4, <1>8 DEF SendCall, telegramSend, twilioSend, Validate, telegramValidate, twilioValidate
<1>9. CASE t \in {"email", "smtp"}
  BY <1>1, <1>2, <1>4, <1>9 DEF SendCall, emailSend, smtpDeliver, Validate, emailValidate, smtpValidate
<1> QED BY <1>5, <1>6, <1>7, <1>8, <1>9

LEMMA OpenKeys == "to" \notin SecretKeys("smtp") /\ "members" \notin SecretKeys("email")
<1>1. Registry["smtp"] = smtp /\ Registry["email"] = email /\ {"smtp", "email"} \subseteq ChannelTypes
  BY DEF Registry, ChannelTypes
<1>2. \A f \in smtp : f.secret => f.key = "password"
  BY DEF smtp, Field, EnumField
<1>3. \A f \in email : ~ f.secret
  BY DEF email, Field
<1> QED BY <1>1, <1>2, <1>3 DEF SecretKeys

LEMMA MergeValid ==
  ASSUME NEW t, NEW cfg, NEW old, ValidateConfig(t, cfg), ValidateConfig(t, old)
  PROVE  ValidateConfig(t, mergeKeptSecrets(cfg, old, SecretKeys(t)))
<1>1. PICK mix : mix = mergeKeptSecrets(cfg, old, SecretKeys(t))
  OBVIOUS
<1>2. PICK kept : kept = {k \in SecretKeys(t) : Missing(cfg, k) /\ ~ Missing(old, k)}
  OBVIOUS
<1>3. mix = [k \in DOMAIN cfg \cup kept |-> IF k \in kept THEN old[k] ELSE cfg[k]]
  BY <1>1, <1>2 DEF mergeKeptSecrets
<1>4. \A k \in kept : k \in DOMAIN old
  BY <1>2 DEF Missing, cfgAt, IsBlank, Null
<1>5. ASSUME NEW k PROVE /\ k \in kept => cfgAt(mix, k) = cfgAt(old, k)
                         /\ k \notin kept => cfgAt(mix, k) = cfgAt(cfg, k)
  BY <1>3, <1>4 DEF cfgAt
<1>6. ASSUME NEW k, ~ Missing(cfg, k) PROVE ~ Missing(mix, k)
  BY <1>2, <1>5, <1>6 DEF Missing
<1>7. \A f \in Registry[t] : validateField(f, mix)
  <2> SUFFICES ASSUME NEW f \in Registry[t] PROVE validateField(f, mix)
    OBVIOUS
  <2>1. validateField(f, cfg) /\ validateField(f, old)
    BY DEF ValidateConfig
  <2>2. cfgAt(mix, f.key) = cfgAt(cfg, f.key) \/ cfgAt(mix, f.key) = cfgAt(old, f.key)
    BY <1>5
  <2> QED BY <2>1, <2>2 DEF validateField
<1>8. Validate(t, mix)
  <2>1. Validate(t, cfg)
    BY DEF ValidateConfig
  <2>2. CASE t = "smtp"
    <3>1. recipients(mix) = recipients(cfg)
      BY <1>2, <1>5, <2>2, OpenKeys DEF recipients
    <3> QED BY <2>1, <2>2, <3>1, <1>6 DEF Validate, smtpValidate
  <2>3. CASE t = "email"
    <3>1. memberIDs(mix) = memberIDs(cfg)
      BY <1>2, <1>5, <2>3, OpenKeys DEF memberIDs
    <3> QED BY <2>1, <2>3, <3>1 DEF Validate, emailValidate
  <2>4. CASE t \in {"teams", "pagerduty", "opsgenie", "telegram", "twilio"}
    BY <2>1, <2>4, <1>6 DEF Validate, teamsValidate, pagerdutyValidate, opsgenieValidate,
         telegramValidate, twilioValidate
  <2>5. CASE t \notin {"smtp", "email", "teams", "pagerduty", "opsgenie", "telegram", "twilio"}
    BY <2>5 DEF Validate
  <2> QED BY <2>2, <2>3, <2>4, <2>5
<1> QED BY <1>1, <1>7, <1>8 DEF ValidateConfig

LEMMA ConfigEntered ==
  ASSUME NEW in \in ChannelInputs
  PROVE  ClearConfig(in.type, in.cfg) /\ in.cfg = [k \in DOMAIN in.cfg |-> in.cfg[k]]
BY ChannelsAssumption DEF ClearConfig, Covered, IsEntry

LEMMA ChannelEntered ==
  ASSUME NEW o, NEW in \in ChannelInputs, channelErrors(o, in) = {}
  PROVE  ClearChannel(channelFromInput(o, in))
<1>1. ValidateConfig(in.type, in.cfg)
  BY DEF channelErrors
<1>2. PICK ch : ch = channelFromInput(o, in)
  OBVIOUS
<1>3. IsChannel(ch) /\ ch.type = in.type /\ ch.cfg = in.cfg
  BY <1>2 DEF channelFromInput, IsChannel
<1> QED BY <1>1, <1>2, <1>3, ConfigEntered DEF ClearChannel

LEMMA MergeClear ==
  ASSUME NEW t, NEW cfg, NEW old, ClearConfig(t, cfg), ClearConfig(t, old),
         NEW mix, mix = mergeKeptSecrets(cfg, old, SecretKeys(t))
  PROVE  ClearConfig(t, mix) /\ mix = [k \in DOMAIN mix |-> mix[k]]
<1>1. PICK kept : kept = {k \in SecretKeys(t) : Missing(cfg, k) /\ ~ Missing(old, k)}
  OBVIOUS
<1>2. mix = [k \in DOMAIN cfg \cup kept |-> IF k \in kept THEN old[k] ELSE cfg[k]]
  BY <1>1 DEF mergeKeptSecrets
<1>3. \A k \in kept : k \in DOMAIN old
  BY <1>1 DEF Missing, cfgAt, IsBlank, Null
<1>4. ASSUME NEW k \in DOMAIN mix
      PROVE  /\ IsEntry(mix[k])
             /\ IF Covered(t, mix, k) THEN mix[k].val \in Values \cup {Blank} ELSE mix[k].val \notin Values
  <2>1. CASE k \in kept
    <3>1. mix[k] = old[k] /\ k \in DOMAIN old
      BY <1>2, <1>3, <2>1
    <3> QED BY <3>1 DEF ClearConfig, Covered
  <2>2. CASE k \notin kept
    <3>1. mix[k] = cfg[k] /\ k \in DOMAIN cfg
      BY <1>2, <2>2
    <3> QED BY <3>1 DEF ClearConfig, Covered
  <2> QED BY <2>1, <2>2
<1>5. ClearConfig(t, mix)
  BY <1>4 DEF ClearConfig
<1>6. mix = [k \in DOMAIN mix |-> mix[k]]
  BY <1>2
<1> QED BY <1>5, <1>6

\* What an update will write, whichever secrets it keeps.
LEMMA ChannelMerged ==
  ASSUME NEW o, NEW in \in ChannelInputs, NEW old, ClearChannel(old), mergedInput(old, in).errs = {}
  PROVE  ClearChannel([channelFromInput(o, in) EXCEPT !.cfg = mergedInput(old, in).cfg])
<1>1. PICK errs : errs = channelErrors(old.org, in)
  OBVIOUS
<1>2. PICK mix : mix = mergeKeptSecrets(in.cfg, old.cfg, SecretKeys(in.type))
  OBVIOUS
<1>3. PICK cfg : cfg = mergedInput(old, in).cfg
  OBVIOUS
<1>4. PICK ch : ch = [channelFromInput(o, in) EXCEPT !.cfg = cfg]
  OBVIOUS
<1>5. IsChannel(ch) /\ ch.type = in.type /\ ch.cfg = cfg
  BY <1>4 DEF channelFromInput, IsChannel
<1>6. "config" \notin errs /\ "type" \notin errs => ValidateConfig(in.type, in.cfg)
  BY <1>1 DEF channelErrors
<1>7. CASE in.type # old.type
  <2>1. cfg = in.cfg /\ errs = {}
    BY <1>1, <1>3, <1>7 DEF mergedInput
  <2> QED BY <1>3, <1>4, <1>5, <1>6, <2>1, ConfigEntered DEF ClearChannel
<1>8. CASE in.type = old.type
  <2>1. cfg = mix /\ (~ ValidateConfig(in.type, mix) => errs = {})
    BY <1>1, <1>2, <1>3, <1>8 DEF mergedInput
  <2>2. ValidateConfig(in.type, old.cfg) /\ ClearConfig(in.type, old.cfg)
    BY <1>8 DEF ClearChannel
  <2>3. ValidateConfig(in.type, mix)
    BY <1>2, <1>6, <2>1, <2>2, MergeValid
  <2>4. ClearConfig(in.type, mix) /\ mix = [k \in DOMAIN mix |-> mix[k]]
    <3>1. ClearConfig(in.type, in.cfg)
      BY ConfigEntered
    <3> QED BY <1>2, <2>2, <3>1, MergeClear
  <2> QED BY <1>3, <1>4, <1>5, <2>1, <2>3, <2>4 DEF ClearChannel
<1> QED BY <1>7, <1>8

-----------------------------------------------------------------------------
(* A request answers, or carries something on. *)

Quiet == RequestsOK /\ AnswersOK

LEMMA Replied ==
  ASSUME Quiet, NEW c \in Clients, NEW code, NEW shows, Reply(c, code, shows), shows \cap Values = {}
  PROVE  Quiet'
<1>1. req' = [req EXCEPT ![c] = None] /\ out' = [code |-> code, shows |-> shows, told |-> {}]
  BY DEF Reply
<1>2. out'.shows = shows
  BY <1>1
<1>3. req' = [d \in Clients |-> req'[d]] /\ \A d \in Clients : req'[d] = None \/ req'[d] = req[d]
  BY <1>1 DEF Quiet, RequestsOK
<1>4. ASSUME NEW d \in Clients, req'[d] # None PROVE Carried(req[d])'
  <2>1. PICK q : q = req'[d]
    OBVIOUS
  <2>2. Carried(q)
    BY <1>3, <1>4, <2>1 DEF Quiet, RequestsOK
  <2> QED BY <2>1, <2>2 DEF Carried
<1> QED BY <1>2, <1>3, <1>4 DEF Quiet, RequestsOK, AnswersOK

LEMMA RepliedError ==
  ASSUME Quiet, NEW c \in Clients, NEW code, NEW told, ReplyError(c, code, told)
  PROVE  Quiet'
<1>1. req' = [req EXCEPT ![c] = None] /\ out' = [code |-> code, shows |-> {}, told |-> told]
  BY DEF ReplyError
<1>2. out'.shows = {}
  BY <1>1
<1>3. req' = [d \in Clients |-> req'[d]] /\ \A d \in Clients : req'[d] = None \/ req'[d] = req[d]
  BY <1>1 DEF Quiet, RequestsOK
<1>4. ASSUME NEW d \in Clients, req'[d] # None PROVE Carried(req[d])'
  <2>1. PICK q : q = req'[d]
    OBVIOUS
  <2>2. Carried(q)
    BY <1>3, <1>4, <2>1 DEF Quiet, RequestsOK
  <2> QED BY <2>1, <2>2 DEF Carried
<1> QED BY <1>2, <1>3, <1>4 DEF Quiet, RequestsOK, AnswersOK

LEMMA Held ==
  ASSUME Quiet, NEW c \in Clients, NEW r, Hold(c, r), Carried(r)
  PROVE  Quiet'
<1>1. req' = [req EXCEPT ![c] = r] /\ out' = out
  BY DEF Hold
<1>2. req' = [d \in Clients |-> req'[d]] /\ \A d \in Clients : req'[d] = IF d = c THEN r ELSE req[d]
  BY <1>1 DEF Quiet, RequestsOK
<1>3. ASSUME NEW d \in Clients, req'[d] # None PROVE Carried(req[d])'
  <2>1. PICK q : q = req'[d]
    OBVIOUS
  <2>2. Carried(q)
    BY <1>2, <1>3, <2>1 DEF Quiet, RequestsOK
  <2> QED BY <2>1, <2>2 DEF Carried
<1> QED BY <1>1, <1>2, <1>3 DEF Quiet, RequestsOK, AnswersOK

\* The answers that show a list.
LEMMA MonitorsShow ==
  ASSUME MonitorsOK, NEW o, NEW id \in WithOrg(monitors, o)
  PROVE  monitorDTO(scanMonitor(monitors[id])) \cap Values = {}
BY MonitorRead, MonitorShows DEF MonitorsOK, WithOrg

LEMMA MonitorRequests ==
  ASSUME Quiet, MonitorsOK, NEW c \in Clients, NEW p, MonitorRequest(c, p)
  PROVE  Quiet' /\ UNCHANGED <<plan, peak, monitorVars, channelVars, pageVars>>
<1>1. UNCHANGED <<plan, peak, monitorVars, channelVars, pageVars>>
  BY DEF MonitorRequest, ListMonitors, GetMonitor, CreateMonitor, UpdateMonitor, Request
<1>2. CASE ListMonitors(c, p)
  <2>1. PICK floor : floor = EffectiveIntervalFloor(monitorLimitsOf(p.org))
    OBVIOUS
  <2>2. PICK shows : shows = UNION {it.shows : it \in {monitorListItemDTO(row, floor) : row \in Pool_ListMonitors(p.org)}}
    OBVIOUS
  <2>3. Reply(c, 200, shows)
    BY <1>2, <2>1, <2>2 DEF ListMonitors
  <2>4. \A row \in Pool_ListMonitors(p.org) : monitorDTO(row.m) \cap Values = {}
    BY MonitorsShow DEF Pool_ListMonitors
  <2>5. \A row \in Pool_ListMonitors(p.org) : monitorListItemDTO(row, floor).shows = monitorDTO(row.m)
    BY DEF monitorListItemDTO
  <2>6. shows \cap Values = {}
    BY <2>2, <2>4, <2>5
  <2> QED BY <1>1, <2>3, <2>6, Replied
<1>3. ASSUME NEW id, GetMonitor(c, p, id) PROVE Quiet'
  <2>1. PICK m : m = Pool_GetMonitor(p.org, id)
    OBVIOUS
  <2>2. m # None => monitorDTO(m) \cap Values = {}
    BY <2>1, MonitorsShow DEF Pool_GetMonitor
  <2>3. (m # None /\ Reply(c, 200, monitorDTO(m))) \/ Reply(c, 404, {})
    BY <1>3, <2>1 DEF GetMonitor
  <2> QED BY <2>2, <2>3, Replied
<1>4. ASSUME NEW in \in MonitorInputs, CreateMonitor(c, p, in) PROVE Quiet'
  <2>1. PICK m : m = monitorFromInput(p.org, in)
    OBVIOUS
  <2>2. PICK r : r = [op |-> "insertMonitor", m |-> m]
    OBVIOUS
  <2>3. Reply(c, 422, {}) \/ Reply(c, 402, {}) \/ Hold(c, r)
    BY <1>4, <2>1, <2>2 DEF CreateMonitor
  <2>4. Carried(r)
    BY <2>1, <2>2, MonitorEntered DEF Carried
  <2> QED BY <2>3, <2>4, Replied, Held
<1>5. ASSUME NEW id, NEW in \in MonitorInputs, UpdateMonitor(c, p, id, in) PROVE Quiet'
  <2>1. PICK m : m = monitorFromInput(p.org, in)
    OBVIOUS
  <2>2. PICK r : r = [op |-> "overwriteMonitor", id |-> id, m |-> m]
    OBVIOUS
  <2>3. Reply(c, 404, {}) \/ Reply(c, 422, {}) \/ Reply(c, 402, {}) \/ Hold(c, r)
    BY <1>5, <2>1, <2>2 DEF UpdateMonitor
  <2>4. Carried(r)
    BY <2>1, <2>2, MonitorEntered DEF Carried
  <2> QED BY <2>3, <2>4, Replied, Held
<1> QED BY <1>1, <1>2, <1>3, <1>4, <1>5 DEF MonitorRequest

\* Monitors that stay, stay in their org.
OrgsKept == \A o : WithOrg(monitors, o) \subseteq WithOrg(monitors, o)'

LEMMA PagesKept ==
  ASSUME PagesOK, UNCHANGED pageVars, OrgsKept
  PROVE  PagesOK'
<1>1. UNCHANGED <<pages, entries, pageSeq>>
  BY DEF pageVars
<1>2. ASSUME NEW id \in DOMAIN pages, NEW i \in DOMAIN entries[id]
      PROVE  entries[id][i] \in WithOrg(monitors, pages[id].org)'
  <2>1. PICK o : o = pages[id].org
    OBVIOUS
  <2>2. entries[id][i] \in WithOrg(monitors, o)'
    BY <2>1 DEF PagesOK, OrgsKept
  <2> QED BY <1>1, <2>1, <2>2 DEF WithOrg
<1> QED BY <1>1, <1>2 DEF PagesOK

LEMMA MonitorWrites ==
  ASSUME Quiet, MonitorsOK, PagesOK, NEW c \in Clients, InsertMonitor(c) \/ OverwriteMonitor(c),
         UNCHANGED <<channelVars, pageVars>>
  PROVE  Quiet' /\ MonitorsOK' /\ PagesOK'
<1>1. PICK r : r = req[c]
  OBVIOUS
<1>2. PICK m : m = r.m
  OBVIOUS
<1>3. ClearMonitor(m) /\ monitorDTO(m) \cap Values = {}
  <2>1. r # None /\ r.op \in {"insertMonitor", "overwriteMonitor"}
    BY <1>1 DEF InsertMonitor, OverwriteMonitor, Resume
  <2>2. Carried(r)
    BY <1>1, <2>1 DEF Quiet, RequestsOK
  <2>3. ClearMonitor(m)
    BY <1>2, <2>1, <2>2 DEF Carried
  <2> QED BY <2>3, MonitorShows DEF ClearMonitor
<1>4. PICK row : row = monitorRow(m)
  OBVIOUS
<1>5. /\ IsMonitor(row) /\ Sealed(row.headers) /\ row.org = m.org /\ row.enabled = m.enabled
      /\ m.enabled \in BOOLEAN
  BY <1>3, <1>4, MonitorStored DEF ClearMonitor
<1>6. ASSUME NEW id, monitors' = Put(monitors, id, row), id \notin DOMAIN monitors \/ monitors[id].org = m.org,
             id \in 1..monSeq', monSeq' \in Nat, 1..monSeq \subseteq 1..monSeq'
      PROVE  MonitorsOK' /\ PagesOK'
  <2>1. DOMAIN monitors' = DOMAIN monitors \cup {id}
    BY <1>6 DEF Put
  <2>2. \A j \in DOMAIN monitors' : monitors'[j] = IF j = id THEN row ELSE monitors[j]
    BY <1>6 DEF Put
  <2>3. MonitorsOK'
    BY <1>5, <1>6, <2>1, <2>2 DEF MonitorsOK
  <2>4. OrgsKept
    BY <1>5, <1>6, <2>1, <2>2 DEF OrgsKept, WithOrg
  <2> QED BY <2>3, <2>4, PagesKept
<1>7. CASE InsertMonitor(c)
  <2>1. monSeq' = monSeq + 1 /\ monitors' = Put(monitors, monSeq', row) /\ Reply(c, 201, monitorDTO(m))
    BY <1>1, <1>2, <1>4, <1>7 DEF InsertMonitor, Pool_CreateMonitor
  <2>2. monSeq \in Nat /\ monSeq' \notin DOMAIN monitors
    BY <2>1 DEF MonitorsOK
  <2>3. monSeq' \in 1..monSeq' /\ monSeq' \in Nat /\ 1..monSeq \subseteq 1..monSeq'
    BY <2>1, <2>2
  <2> QED BY <1>3, <1>6, <2>1, <2>2, <2>3, Replied
<1>8. CASE OverwriteMonitor(c) /\ r.id \in WithOrg(monitors, m.org)
  <2>1. monSeq' = monSeq /\ monitors' = Put(monitors, r.id, row) /\ Reply(c, 200, monitorDTO(m))
    BY <1>1, <1>2, <1>4, <1>8 DEF OverwriteMonitor, Pool_UpdateMonitor
  <2>2. r.id \in 1..monSeq /\ monitors[r.id].org = m.org /\ monSeq \in Nat
    BY <1>8 DEF MonitorsOK, WithOrg
  <2> QED BY <1>3, <1>6, <2>1, <2>2, Replied
<1>9. CASE OverwriteMonitor(c) /\ r.id \notin WithOrg(monitors, m.org)
  <2>1. UNCHANGED <<monSeq, monitors>> /\ Reply(c, 404, {})
    BY <1>1, <1>2, <1>9 DEF OverwriteMonitor
  <2>2. MonitorsOK' /\ OrgsKept
    BY <2>1 DEF MonitorsOK, OrgsKept, WithOrg
  <2> QED BY <2>1, <2>2, PagesKept, Replied
<1> QED BY <1>7, <1>8, <1>9

LEMMA MonitorRemoved ==
  ASSUME Quiet, MonitorsOK, PagesOK, NEW c \in Clients, NEW p, RemoveMonitor(c, p)
  PROVE  Quiet' /\ MonitorsOK' /\ PagesOK' /\ UNCHANGED channelVars
<1>1. PICK id : DeleteMonitor(c, p, id) /\ CascadeMonitors({id} \cap WithOrg(monitors, p.org))
  BY DEF RemoveMonitor
<1>2. PICK gone : gone = {id} \cap WithOrg(monitors, p.org)
  OBVIOUS
<1>3. /\ Reply(c, 204, {}) /\ monSeq' = monSeq /\ monitors' = Drop(monitors, gone)
      /\ UNCHANGED <<pages, pageSeq>> /\ UNCHANGED channelVars
  BY <1>1, <1>2 DEF DeleteMonitor, Pool_DeleteMonitor, CascadeMonitors, RemoveMonitor
<1>4. entries' = [pg \in DOMAIN entries |-> Drop(entries[pg], {i \in DOMAIN entries[pg] : entries[pg][i] \in gone})]
  BY <1>1, <1>2 DEF CascadeMonitors
<1>5. DOMAIN monitors' = DOMAIN monitors \ gone /\ \A j \in DOMAIN monitors' : monitors'[j] = monitors[j]
  BY <1>3 DEF Drop
<1>6. MonitorsOK'
  BY <1>3, <1>5 DEF MonitorsOK
<1>7. entries = [pg \in DOMAIN pages |-> entries[pg]] /\ DOMAIN entries = DOMAIN pages
  BY DEF PagesOK
<1>8. ASSUME NEW pg \in DOMAIN pages, NEW i \in DOMAIN entries'[pg]
      PROVE  entries'[pg][i] \in WithOrg(monitors, pages[pg].org)'
  <2>1. PICK rows : rows = entries[pg]
    OBVIOUS
  <2>2. entries'[pg] = Drop(rows, {j \in DOMAIN rows : rows[j] \in gone})
    BY <1>4, <1>7, <2>1
  <2>3. i \in DOMAIN rows /\ rows[i] \notin gone /\ entries'[pg][i] = rows[i]
    BY <1>8, <2>2 DEF Drop
  <2>4. rows[i] \in WithOrg(monitors, pages[pg].org)
    BY <2>1, <2>3 DEF PagesOK
  <2> QED BY <1>3, <1>5, <2>3, <2>4 DEF WithOrg
<1>9. entries' = [pg \in DOMAIN pages' |-> entries'[pg]]
  BY <1>3, <1>4, <1>7
<1>10. PagesOK'
  BY <1>3, <1>8, <1>9 DEF PagesOK
<1> QED BY <1>3, <1>6, <1>10, Replied

-----------------------------------------------------------------------------
(* Channels *)

LEMMA ChannelPut ==
  ASSUME ChannelsOK, NEW ch, ClearChannel(ch), NEW id, channels' = Put(channels, id, channelRow(ch)),
         chSeq' \in Nat, 1..chSeq \subseteq 1..chSeq', id \in 1..chSeq'
  PROVE  ChannelsOK'
<1>1. PICK row : row = channelRow(ch)
  OBVIOUS
<1>2. IsChannel(row) /\ SealedConfig(row.type, row.cfg) /\ scanChannel(row) = ch
  BY <1>1, ChannelStored
<1>3. DOMAIN channels' = DOMAIN channels \cup {id} /\ \A j \in DOMAIN channels' : channels'[j] = IF j = id THEN row ELSE channels[j]
  BY <1>1 DEF Put
<1>4. ASSUME NEW j \in DOMAIN channels'
      PROVE  /\ IsChannel(channels'[j]) /\ SealedConfig(channels'[j].type, channels'[j].cfg)
             /\ ClearChannel(scanChannel(channels'[j]))
  <2>1. PICK q : q = channels'[j]
    OBVIOUS
  <2>2. CASE j = id
    BY <1>2, <1>3, <2>2
  <2>3. CASE j # id
    BY <1>3, <2>3 DEF ChannelsOK
  <2> QED BY <2>2, <2>3
<1>5. DOMAIN channels' \subseteq 1..chSeq'
  BY <1>3 DEF ChannelsOK
<1> QED BY <1>4, <1>5 DEF ChannelsOK

LEMMA ChannelsShow ==
  ASSUME ChannelsOK, NEW o, NEW id \in WithOrg(channels, o)
  PROVE  /\ ClearChannel(scanChannel(channels[id]))
         /\ channelDTO(scanChannel(channels[id])) \cap Values = {}
BY ChannelShows DEF ChannelsOK, WithOrg

LEMMA ChannelRequests ==
  ASSUME Quiet, ChannelsOK, NEW c \in Clients, NEW p,
         \/ GetChannelTypes(c, p) \/ ListChannels(c, p)
         \/ \E in \in ChannelInputs : CreateChannel(c, p, in)
         \/ \E id \in Ids(chSeq) : DeleteChannel(c, p, id) \/ TestChannel(c, p, id)
         \/ \E id \in Ids(chSeq), in \in ChannelInputs : UpdateChannel(c, p, id, in)
  PROVE  Quiet' /\ ChannelsOK' /\ UNCHANGED hookVars
<1>1. CASE GetChannelTypes(c, p)
  <2>1. Reply(c, 200, {}) /\ UNCHANGED channelVars
    BY <1>1 DEF GetChannelTypes
  <2> QED BY <2>1, Replied DEF channelVars, hookVars, ChannelsOK
<1>2. CASE ListChannels(c, p)
  <2>1. PICK shows : shows = UNION {channelDTO(ch) : ch \in Pool_ListChannels(p.org)}
    OBVIOUS
  <2>2. Reply(c, 200, shows) /\ UNCHANGED channelVars
    BY <1>2, <2>1 DEF ListChannels
  <2>3. \A ch \in Pool_ListChannels(p.org) : channelDTO(ch) \cap Values = {}
    BY ChannelsShow DEF Pool_ListChannels
  <2>4. shows \cap Values = {}
    BY <2>1, <2>3
  <2> QED BY <2>2, <2>4, Replied DEF channelVars, hookVars, ChannelsOK
<1>3. ASSUME NEW in \in ChannelInputs, CreateChannel(c, p, in)
      PROVE  Quiet' /\ ChannelsOK' /\ UNCHANGED hookVars
  <2>1. UNCHANGED hookVars
    BY <1>3 DEF CreateChannel
  <2>2. CASE channelErrors(p.org, in) # {}
    <3>1. Reply(c, 422, {}) /\ UNCHANGED <<channels, chSeq>>
      BY <1>3, <2>2 DEF CreateChannel
    <3> QED BY <2>1, <3>1, Replied DEF ChannelsOK
  <2>3. CASE channelErrors(p.org, in) = {}
    <3>1. PICK ch : ch = channelFromInput(p.org, in)
      OBVIOUS
    <3>2. chSeq' = chSeq + 1 /\ channels' = Put(channels, chSeq', channelRow(ch)) /\ Reply(c, 201, channelDTO(ch))
      BY <1>3, <2>3, <3>1 DEF CreateChannel, Pool_CreateChannel
    <3>3. ClearChannel(ch) /\ channelDTO(ch) \cap Values = {}
      BY <2>3, <3>1, ChannelEntered, ChannelShows
    <3>4. chSeq' \in Nat /\ 1..chSeq \subseteq 1..chSeq' /\ chSeq' \in 1..chSeq'
      BY <3>2 DEF ChannelsOK
    <3>5. ChannelsOK'
      BY <3>2, <3>3, <3>4, ChannelPut
    <3> QED BY <2>1, <3>2, <3>3, <3>5, Replied
  <2> QED BY <2>2, <2>3
<1>4. ASSUME NEW id, DeleteChannel(c, p, id) PROVE Quiet' /\ ChannelsOK' /\ UNCHANGED hookVars
  <2>1. PICK gone : gone = {id} \cap WithOrg(channels, p.org)
    OBVIOUS
  <2>2. Reply(c, 204, {}) /\ UNCHANGED chSeq /\ UNCHANGED hookVars /\ channels' = Drop(channels, gone)
    BY <1>4, <2>1 DEF DeleteChannel, Pool_DeleteChannel
  <2>3. DOMAIN channels' \subseteq DOMAIN channels /\ \A j \in DOMAIN channels' : channels'[j] = channels[j]
    BY <2>2 DEF Drop
  <2>4. \A j \in DOMAIN channels' :
          /\ IsChannel(channels'[j]) /\ SealedConfig(channels'[j].type, channels'[j].cfg)
          /\ ClearChannel(scanChannel(channels'[j]))
    BY <2>3 DEF ChannelsOK
  <2>5. ChannelsOK'
    BY <2>2, <2>3, <2>4 DEF ChannelsOK
  <2> QED BY <2>2, <2>5, Replied
<1>5. ASSUME NEW id, TestChannel(c, p, id) PROVE Quiet' /\ ChannelsOK' /\ UNCHANGED hookVars
  <2>1. Reply(c, 404, {}) \/ Reply(c, 204, {}) \/ Reply(c, 422, {}) \/ \E told : ReplyError(c, 422, told)
    BY <1>5 DEF TestChannel
  <2>2. UNCHANGED <<channels, chSeq>> /\ UNCHANGED hookVars
    BY <1>5 DEF TestChannel
  <2> QED BY <2>1, <2>2, Replied, RepliedError DEF ChannelsOK
<1>6. ASSUME NEW id, NEW in \in ChannelInputs, UpdateChannel(c, p, id, in)
      PROVE  Quiet' /\ ChannelsOK' /\ UNCHANGED hookVars
  <2>1. UNCHANGED channelVars
    BY <1>6 DEF UpdateChannel
  <2>2. UNCHANGED hookVars /\ ChannelsOK'
    BY <2>1 DEF channelVars, hookVars, ChannelsOK
  <2>3. PICK old : old = Pool_GetChannel(p.org, id)
    OBVIOUS
  <2>4. PICK ch : ch = [channelFromInput(p.org, in) EXCEPT !.cfg = mergedInput(old, in).cfg]
    OBVIOUS
  <2>5. PICK r : r = [op |-> "writeChannel", id |-> id, ch |-> ch]
    OBVIOUS
  <2>6. Reply(c, 404, {}) \/ Reply(c, 422, {}) \/ (old # None /\ mergedInput(old, in).errs = {} /\ Hold(c, r))
    BY <1>6, <2>3, <2>4, <2>5 DEF UpdateChannel
  <2>7. old # None => ClearChannel(old)
    BY <2>3, ChannelsShow DEF Pool_GetChannel
  <2>8. old # None /\ mergedInput(old, in).errs = {} => ClearChannel(ch)
    BY <2>4, <2>7, ChannelMerged
  <2>9. ClearChannel(ch) => Carried(r)
    BY <2>5 DEF Carried
  <2> QED BY <2>2, <2>6, <2>8, <2>9, Replied, Held
<1> QED BY <1>1, <1>2, <1>3, <1>4, <1>5, <1>6

LEMMA ChannelWritten ==
  ASSUME Quiet, ChannelsOK, NEW c \in Clients, WriteChannel(c)
  PROVE  Quiet' /\ ChannelsOK' /\ UNCHANGED hookVars
<1>1. PICK r : r = req[c]
  OBVIOUS
<1>2. PICK ch : ch = r.ch
  OBVIOUS
<1>3. ClearChannel(ch) /\ channelDTO(ch) \cap Values = {}
  <2>1. r # None /\ r.op = "writeChannel"
    BY <1>1 DEF WriteChannel, Resume
  <2>2. ClearChannel(ch)
    BY <1>1, <1>2, <2>1 DEF Quiet, RequestsOK, Carried
  <2> QED BY <2>2, ChannelShows
<1>4. UNCHANGED hookVars /\ chSeq' = chSeq
  BY DEF WriteChannel
<1>5. CASE r.id \in WithOrg(channels, ch.org)
  <2>1. channels' = Put(channels, r.id, channelRow(ch)) /\ Reply(c, 200, channelDTO(ch))
    BY <1>1, <1>2, <1>5 DEF WriteChannel, Pool_UpdateChannel
  <2>2. chSeq \in Nat /\ r.id \in 1..chSeq
    BY <1>5 DEF ChannelsOK, WithOrg
  <2>3. ChannelsOK'
    BY <1>3, <1>4, <2>1, <2>2, ChannelPut
  <2> QED BY <1>3, <1>4, <2>1, <2>3, Replied
<1>6. CASE r.id \notin WithOrg(channels, ch.org)
  <2>1. UNCHANGED channels /\ Reply(c, 404, {})
    BY <1>1, <1>2, <1>6 DEF WriteChannel
  <2> QED BY <1>4, <2>1, Replied DEF ChannelsOK
<1> QED BY <1>5, <1>6

-----------------------------------------------------------------------------
(* Webhooks and their signing secrets *)

LEMMA SecretSealed ==
  ASSUME NEW n \in Nat
  PROVE  encryptSecret(n) = Encrypt(n) /\ decryptSecret(Encrypt(n)) = n
<1>1. Blank \notin Nat
  BY TenantAssumption
<1>2. <<"enc", n>> \in Ciphertexts
  BY DEF Ciphertexts
<1>3. Blank \notin Ciphertexts
  BY TenantAssumption
<1> QED BY <1>1, <1>2, <1>3 DEF encryptSecret, decryptSecret, Encrypt, Decrypt

LEMMA HookPut ==
  ASSUME HooksOK, NEW id, NEW w, IsHook(w), NEW n \in Nat, w.secret = Encrypt(n),
         hooks' = Put(hooks, id, w), issued' = Put(issued, id, n), hookSeq' \in Nat, minted' \in Nat
  PROVE  HooksOK'
<1>1. DOMAIN hooks' = DOMAIN hooks \cup {id} /\ \A j \in DOMAIN hooks' : hooks'[j] = IF j = id THEN w ELSE hooks[j]
  BY DEF Put
<1>2. DOMAIN issued = DOMAIN hooks
  BY DEF HooksOK
<1>3. issued' = [j \in DOMAIN hooks' |-> IF j = id THEN n ELSE issued[j]]
  BY <1>1, <1>2 DEF Put
<1>4. \A j \in DOMAIN hooks' : IsHook(hooks'[j]) /\ issued'[j] \in Nat /\ hooks'[j].secret = Encrypt(issued'[j])
  BY <1>1, <1>3 DEF HooksOK
<1>5. hooks' = [j \in DOMAIN hooks' |-> hooks'[j]]
  BY DEF Put
<1>6. issued' = [j \in DOMAIN hooks' |-> issued'[j]]
  BY <1>3
<1> QED BY <1>4, <1>5, <1>6 DEF HooksOK

LEMMA HookRequests ==
  ASSUME Quiet, HooksOK, NEW c \in Clients, NEW p,
         \/ ListWebhooks(c, p)
         \/ \E in \in HookInputs : CreateWebhook(c, p, in)
         \/ \E id \in Ids(hookSeq) :
              GetWebhook(c, p, id) \/ RotateWebhookSecret(c, p, id) \/ DeleteWebhook(c, p, id)
         \/ \E id \in Ids(hookSeq), in \in HookInputs : UpdateWebhook(c, p, id, in)
  PROVE  Quiet' /\ HooksOK' /\ UNCHANGED <<channels, chSeq>>
<1>1. ASSUME UNCHANGED channelVars PROVE HooksOK' /\ UNCHANGED <<channels, chSeq>>
  BY <1>1 DEF channelVars, HooksOK
<1>2. CASE ListWebhooks(c, p)
  <2>1. PICK shows : shows = UNION {webhookDTO(w) : w \in Pool_ListWebhooks(p.org)}
    OBVIOUS
  <2>2. Reply(c, 200, shows) /\ UNCHANGED channelVars
    BY <1>2, <2>1 DEF ListWebhooks
  <2>3. shows \cap Values = {}
    BY <2>1 DEF webhookDTO
  <2> QED BY <1>1, <2>2, <2>3, Replied
<1>3. ASSUME NEW id, GetWebhook(c, p, id) PROVE Quiet' /\ HooksOK' /\ UNCHANGED <<channels, chSeq>>
  <2>1. (Reply(c, 200, {}) \/ Reply(c, 404, {})) /\ UNCHANGED channelVars
    BY <1>3 DEF GetWebhook, webhookDTO
  <2> QED BY <1>1, <2>1, Replied
<1>4. ASSUME NEW id, NEW in, UpdateWebhook(c, p, id, in) PROVE Quiet' /\ HooksOK' /\ UNCHANGED <<channels, chSeq>>
  <2>1. PICK old : old = Pool_GetWebhook(p.org, id)
    OBVIOUS
  <2>2. PICK w : w = webhookFromInput(p.org, in, IF in.enabled = None THEN old.enabled ELSE in.enabled, old.secret)
    OBVIOUS
  <2>3. PICK r : r = [op |-> "writeHook", id |-> id, w |-> w]
    OBVIOUS
  <2>4. /\ Reply(c, 404, {}) \/ Reply(c, 422, {}) \/ Hold(c, r)
        /\ UNCHANGED channelVars
    BY <1>4, <2>1, <2>2, <2>3 DEF UpdateWebhook
  <2>5. Carried(r)
    BY <2>2, <2>3 DEF Carried, webhookFromInput, IsHook
  <2> QED BY <1>1, <2>4, <2>5, Replied, Held
<1>5. ASSUME NEW n, minted' = n PROVE newWebhookSecret => n = minted + 1 /\ n \in Nat
  BY <1>5 DEF newWebhookSecret, HooksOK
<1>6. ASSUME NEW in, CreateWebhook(c, p, in) PROVE Quiet' /\ HooksOK' /\ UNCHANGED <<channels, chSeq>>
  <2>1. UNCHANGED <<channels, chSeq>>
    BY <1>6 DEF CreateWebhook
  <2>2. CASE webhookErrors(in)
    <3>1. Reply(c, 422, {}) /\ UNCHANGED hookVars
      BY <1>6, <2>2 DEF CreateWebhook
    <3> QED BY <2>1, <3>1, Replied DEF hookVars, HooksOK
  <2>3. CASE ~ webhookErrors(in) /\ p.kind = "api_key"
    <3>1. Reply(c, 500, {}) /\ UNCHANGED <<hooks, hookSeq, issued>> /\ newWebhookSecret
      BY <1>6, <2>3 DEF CreateWebhook
    <3>2. HooksOK'
      BY <1>5, <3>1 DEF HooksOK
    <3> QED BY <2>1, <3>1, <3>2, Replied
  <2>4. CASE ~ webhookErrors(in) /\ p.kind # "api_key"
    <3>1. PICK n \in Nat : n = minted' /\ n = minted + 1
      BY <1>5, <1>6, <2>4 DEF CreateWebhook
    <3>2. PICK w : w = webhookFromInput(p.org, in, IF in.enabled = None THEN TRUE ELSE in.enabled, n)
      OBVIOUS
    <3>3. PICK row : row = [w EXCEPT !.secret = encryptSecret(@)]
      OBVIOUS
    <3>4. w.secret = n /\ IsHook(w)
      BY <3>2 DEF webhookFromInput, IsHook
    <3>5. row = [w EXCEPT !.secret = Encrypt(n)]
      BY <3>1, <3>3, <3>4, SecretSealed
    <3>6. IsHook(row) /\ row.secret = Encrypt(n)
      <4>1. PICK e : e = Encrypt(n)
        OBVIOUS
      <4> QED BY <3>4, <3>5, <4>1 DEF IsHook
    <3>7. Pool_CreateWebhook(w)
      BY <1>6, <2>4, <3>1, <3>2 DEF CreateWebhook
    <3>8. hookSeq' = hookSeq + 1 /\ hooks' = Put(hooks, hookSeq', row) /\ issued' = Put(issued, hookSeq', n)
      BY <3>3, <3>4, <3>7 DEF Pool_CreateWebhook
    <3>9. hookSeq' \in Nat /\ minted' \in Nat
      BY <3>1, <3>8 DEF HooksOK
    <3>10. HooksOK'
      BY <3>1, <3>6, <3>8, <3>9, HookPut
    <3>11. PICK r : r = [op |-> "showSecret", id |-> hookSeq', org |-> p.org, secret |-> n]
      OBVIOUS
    <3>12. Hold(c, r)
      BY <1>6, <2>4, <3>1, <3>11 DEF CreateWebhook
    <3>13. Carried(r)
      BY <3>1, <3>11 DEF Carried
    <3> QED BY <2>1, <3>10, <3>12, <3>13, Held
  <2> QED BY <2>2, <2>3, <2>4
<1>7. ASSUME NEW id, RotateWebhookSecret(c, p, id) PROVE Quiet' /\ HooksOK' /\ UNCHANGED <<channels, chSeq>>
  <2>1. UNCHANGED <<channels, chSeq, hookSeq>> /\ newWebhookSecret
    BY <1>7 DEF RotateWebhookSecret
  <2>2. PICK n \in Nat : n = minted' /\ n = minted + 1
    BY <1>5, <2>1
  <2>3. CASE id \in WithOrg(hooks, p.org)
    <3>1. PICK e : e = Encrypt(n)
      OBVIOUS
    <3>2. hooks' = [hooks EXCEPT ![id].secret = e] /\ issued' = [issued EXCEPT ![id] = n]
      BY <1>7, <2>2, <2>3, <3>1, SecretSealed DEF RotateWebhookSecret, Pool_RotateWebhookSecret
    <3>3. PICK w : w = hooks[id]
      OBVIOUS
    <3>4. id \in DOMAIN hooks /\ IsHook(w) /\ DOMAIN issued = DOMAIN hooks
      BY <2>3, <3>3 DEF WithOrg, HooksOK
    <3>5. PICK v : v = [w EXCEPT !.secret = e]
      OBVIOUS
    <3>6. IsHook(v) /\ v.secret = Encrypt(n)
      BY <3>1, <3>4, <3>5 DEF IsHook
    <3>7. hooks' = Put(hooks, id, v)
      <4>1. DOMAIN hooks \cup {id} = DOMAIN hooks /\ hooks = [j \in DOMAIN hooks |-> hooks[j]]
        BY <3>4 DEF HooksOK
      <4>2. hooks' = [hooks EXCEPT ![id] = v]
        BY <3>2, <3>3, <3>4, <3>5
      <4> QED BY <4>1, <4>2 DEF Put
    <3>8. issued' = Put(issued, id, n)
      <4>1. DOMAIN issued \cup {id} = DOMAIN issued /\ issued = [j \in DOMAIN issued |-> issued[j]]
        BY <3>4 DEF HooksOK
      <4> QED BY <3>2, <4>1 DEF Put
    <3>9. HooksOK'
      <4>1. hookSeq' \in Nat /\ minted' \in Nat
        BY <2>1, <2>2 DEF HooksOK
      <4> QED BY <3>6, <3>7, <3>8, <4>1, HookPut
    <3>10. PICK r : r = [op |-> "showSecret", id |-> id, org |-> p.org, secret |-> n]
      OBVIOUS
    <3>11. Hold(c, r)
      BY <1>7, <2>2, <2>3, <3>10 DEF RotateWebhookSecret
    <3>12. Carried(r)
      BY <3>10 DEF Carried
    <3> QED BY <2>1, <3>9, <3>11, <3>12, Held
  <2>4. CASE id \notin WithOrg(hooks, p.org)
    <3>1. Reply(c, 404, {}) /\ UNCHANGED <<hooks, issued>>
      BY <1>7, <2>4 DEF RotateWebhookSecret
    <3> QED BY <2>1, <2>2, <3>1, Replied DEF HooksOK
  <2> QED BY <2>3, <2>4
<1>8. ASSUME NEW id, DeleteWebhook(c, p, id) PROVE Quiet' /\ HooksOK' /\ UNCHANGED <<channels, chSeq>>
  <2>1. PICK gone : gone = {id} \cap WithOrg(hooks, p.org)
    OBVIOUS
  <2>2. /\ Reply(c, 204, {}) /\ UNCHANGED <<channels, chSeq, hookSeq, minted>>
        /\ hooks' = Drop(hooks, gone) /\ issued' = Drop(issued, gone)
    BY <1>8, <2>1 DEF DeleteWebhook, Pool_DeleteWebhook
  <2>3. DOMAIN issued = DOMAIN hooks
    BY DEF HooksOK
  <2>4. /\ hooks' = [j \in DOMAIN hooks \ gone |-> hooks[j]] /\ issued' = [j \in DOMAIN hooks \ gone |-> issued[j]]
    BY <2>2, <2>3 DEF Drop
  <2>5. HooksOK'
    BY <2>2, <2>4 DEF HooksOK
  <2> QED BY <2>2, <2>5, Replied
<1> QED BY <1>2, <1>3, <1>4, <1>6, <1>7, <1>8

LEMMA HookSteps ==
  ASSUME Quiet, HooksOK, NEW c \in Clients, ShowSecret(c) \/ WriteHook(c)
  PROVE  Quiet' /\ HooksOK' /\ UNCHANGED <<channels, chSeq>>
<1>1. PICK r : r = req[c]
  OBVIOUS
<1>2. CASE ShowSecret(c)
  <2>1. r # None /\ r.op = "showSecret" /\ UNCHANGED channelVars
    BY <1>1, <1>2 DEF ShowSecret, Resume
  <2>2. r.secret \in Nat
    BY <1>1, <2>1 DEF Quiet, RequestsOK, Carried
  <2>3. PICK n \in Nat : n = r.secret
    BY <2>2
  <2>4. Reply(c, 201, {n}) \/ Reply(c, 500, {})
    BY <1>1, <1>2, <2>3 DEF ShowSecret
  <2>5. {n} \cap Values = {}
    BY Ciphers
  <2> QED BY <2>1, <2>4, <2>5, Replied DEF channelVars, HooksOK
<1>3. CASE WriteHook(c)
  <2>1. PICK id, w : id = r.id /\ w = r.w
    OBVIOUS
  <2>2. r # None /\ r.op = "writeHook" /\ UNCHANGED <<channels, chSeq, hookSeq, minted, issued>>
    BY <1>1, <1>3 DEF WriteHook, Resume
  <2>3. IsHook(w)
    BY <1>1, <2>1, <2>2 DEF Quiet, RequestsOK, Carried
  <2>4. CASE id \in WithOrg(hooks, w.org)
    <3>1. PICK s : s = hooks[id].secret
      OBVIOUS
    <3>2. PICK v : v = [w EXCEPT !.secret = s]
      OBVIOUS
    <3>3. hooks' = Put(hooks, id, v) /\ Reply(c, 200, {})
      BY <1>1, <1>3, <2>1, <2>4, <3>1, <3>2 DEF WriteHook, UpdatedHooks, webhookDTO
    <3>4. id \in DOMAIN hooks /\ DOMAIN issued = DOMAIN hooks
      BY <2>4 DEF WithOrg, HooksOK
    <3>5. PICK n \in Nat : n = issued[id] /\ s = Encrypt(n)
      BY <3>1, <3>4 DEF HooksOK
    <3>6. IsHook(v) /\ v.secret = Encrypt(n)
      BY <2>3, <3>2, <3>5 DEF IsHook
    <3>7. issued' = Put(issued, id, n)
      <4>1. DOMAIN issued \cup {id} = DOMAIN issued /\ issued = [j \in DOMAIN issued |-> issued[j]]
        BY <3>4 DEF HooksOK
      <4> QED BY <2>2, <3>5, <4>1 DEF Put
    <3>8. hookSeq' \in Nat /\ minted' \in Nat
      BY <2>2 DEF HooksOK
    <3>9. HooksOK'
      BY <3>3, <3>6, <3>7, <3>8, HookPut
    <3> QED BY <2>2, <3>3, <3>9, Replied
  <2>5. CASE id \notin WithOrg(hooks, w.org)
    <3>1. Reply(c, 404, {}) /\ UNCHANGED hooks
      BY <1>1, <1>3, <2>1, <2>5 DEF WriteHook
    <3> QED BY <2>2, <3>1, Replied DEF HooksOK
  <2> QED BY <2>4, <2>5
<1> QED BY <1>2, <1>3

-----------------------------------------------------------------------------
(* Status pages *)

LEMMA PagePut ==
  ASSUME PagesOK, UNCHANGED <<monitors, entries, pageSeq>>, NEW id, NEW sp, IsPage(sp),
         id \in WithOrg(pages, sp.org), pages' = Put(pages, id, sp)
  PROVE  PagesOK'
<1>1. id \in DOMAIN pages /\ pages[id].org = sp.org
  BY DEF WithOrg
<1>2. DOMAIN pages' = DOMAIN pages /\ \A j \in DOMAIN pages : pages'[j] = IF j = id THEN sp ELSE pages[j]
  BY <1>1 DEF Put
<1>3. \A j \in DOMAIN pages : IsPage(pages'[j]) /\ pages'[j].org = pages[j].org
  BY <1>1, <1>2 DEF PagesOK
<1> QED BY <1>2, <1>3 DEF PagesOK, WithOrg

LEMMA PagesStill ==
  ASSUME PagesOK, UNCHANGED monitors, UNCHANGED pageVars
  PROVE  PagesOK'
BY DEF PagesOK, pageVars, WithOrg

LEMMA PageRequests ==
  ASSUME Quiet, PagesOK, NEW c \in Clients, NEW p, PageRequest(c, p)
  PROVE  Quiet' /\ PagesOK'
<1>1. UNCHANGED monitors
  BY DEF PageRequest, monitorVars
<1>2. ASSUME ListStatusPages(c, p) \/ (\E id : GetStatusPage(c, p, id)) \/ (\E slug : GetPublicStatusPage(c, slug))
      PROVE  Quiet' /\ PagesOK'
  <2>1. (Reply(c, 200, {}) \/ Reply(c, 404, {})) /\ UNCHANGED pageVars
    BY <1>2 DEF ListStatusPages, GetStatusPage, GetPublicStatusPage
  <2> QED BY <1>1, <2>1, Replied, PagesStill
<1>3. ASSUME NEW in \in PageInputs, CreateStatusPage(c, p, in) PROVE Quiet' /\ PagesOK'
  <2>1. PICK sp : sp = statusPageFromInput(p.org, in)
    OBVIOUS
  <2>2. PICK r : r = [op |-> "insertPage", sp |-> sp, shown |-> in.shown]
    OBVIOUS
  <2>3. /\ Reply(c, 422, {}) \/ Reply(c, 402, {}) \/ Hold(c, r)
        /\ UNCHANGED pageVars
    BY <1>3, <2>1, <2>2 DEF CreateStatusPage
  <2>4. IsPage(sp) /\ in.shown \in Seq(Int)
    BY <2>1, PagesAssumption DEF statusPageFromInput, IsPage
  <2>5. Carried(r)
    BY <2>2, <2>4 DEF Carried
  <2> QED BY <1>1, <2>3, <2>5, Replied, Held, PagesStill
<1>4. ASSUME NEW id, NEW in \in PageInputs, UpdateStatusPage(c, p, id, in) PROVE Quiet' /\ PagesOK'
  <2>1. PICK old : old = Pool_GetStatusPage(p.org, id)
    OBVIOUS
  <2>2. PICK x : x = statusPageFromInput(p.org, in)
    OBVIOUS
  <2>3. PICK sp : sp = [x EXCEPT !.published = old.published]
    OBVIOUS
  <2>4. PICK r : r = [op |-> "writePage", id |-> id, shown |-> in.shown, sp |-> sp]
    OBVIOUS
  <2>5. /\ Reply(c, 404, {}) \/ Reply(c, 422, {}) \/ Hold(c, r)
        /\ UNCHANGED pageVars
    BY <1>4, <2>1, <2>2, <2>3, <2>4 DEF UpdateStatusPage
  <2>6. IsPage(x) /\ in.shown \in Seq(Int)
    BY <2>2, PagesAssumption DEF statusPageFromInput, IsPage
  <2>7. IsPage(sp)
    BY <2>3, <2>6 DEF IsPage
  <2>8. Carried(r)
    BY <2>4, <2>6, <2>7 DEF Carried
  <2> QED BY <1>1, <2>5, <2>8, Replied, Held, PagesStill
<1>5. ASSUME NEW id, NEW on, PublishStatusPage(c, p, id, on) PROVE Quiet' /\ PagesOK'
  <2>1. PICK x : x = pages[id]
    OBVIOUS
  <2>2. PICK sp : sp = [x EXCEPT !.published = on]
    OBVIOUS
  <2>3. PICK r : r = [op |-> "flipPage", id |-> id, sp |-> sp]
    OBVIOUS
  <2>4. /\ Reply(c, 404, {}) \/ (Pool_GetStatusPage(p.org, id) # None /\ Hold(c, r))
        /\ UNCHANGED pageVars
    BY <1>5, <2>1, <2>2, <2>3 DEF PublishStatusPage
  <2>5. Pool_GetStatusPage(p.org, id) # None => IsPage(x)
    BY <2>1 DEF Pool_GetStatusPage, WithOrg, PagesOK
  <2>6. IsPage(x) => IsPage(sp)
    BY <2>2 DEF IsPage
  <2>7. IsPage(sp) => Carried(r)
    BY <2>3 DEF Carried
  <2> QED BY <1>1, <2>4, <2>5, <2>6, <2>7, Replied, Held, PagesStill
<1>6. ASSUME NEW id, DeleteStatusPage(c, p, id) PROVE Quiet' /\ PagesOK'
  <2>1. PICK gone : gone = {id} \cap WithOrg(pages, p.org)
    OBVIOUS
  <2>2. Reply(c, 204, {}) /\ pageSeq' = pageSeq /\ pages' = Drop(pages, gone) /\ entries' = Drop(entries, gone)
    BY <1>6, <2>1 DEF DeleteStatusPage, Pool_DeleteStatusPage
  <2>3. DOMAIN entries = DOMAIN pages
    BY DEF PagesOK
  <2>4. DOMAIN pages' = DOMAIN pages \ gone /\ \A j \in DOMAIN pages' : pages'[j] = pages[j]
    BY <2>2 DEF Drop
  <2>5. entries' = [j \in DOMAIN pages' |-> entries[j]]
    BY <2>2, <2>3, <2>4 DEF Drop
  <2>6. PagesOK'
    BY <1>1, <2>2, <2>4, <2>5 DEF PagesOK, WithOrg
  <2> QED BY <2>2, <2>6, Replied
<1> QED BY <1>2, <1>3, <1>4, <1>5, <1>6 DEF PageRequest

LEMMA PageSteps ==
  ASSUME Quiet, PagesOK, NEW c \in Clients, UNCHANGED monitorVars,
         InsertPage(c) \/ WritePage(c) \/ SetStatusPageMonitors(c) \/ FlipPage(c)
  PROVE  Quiet' /\ PagesOK'
<1>1. UNCHANGED monitors
  BY DEF monitorVars
<1>2. PICK r : r = req[c]
  OBVIOUS
<1>3. r # None /\ Carried(r)
  BY <1>2 DEF InsertPage, WritePage, SetStatusPageMonitors, FlipPage, Resume, Quiet, RequestsOK
<1>4. CASE InsertPage(c)
  <2>1. r.op = "insertPage"
    BY <1>2, <1>4 DEF InsertPage, Resume
  <2>2. PICK sp, shown : sp = r.sp /\ shown = r.shown
    OBVIOUS
  <2>3. IsPage(sp) /\ shown \in Seq(Int)
    BY <1>3, <2>1, <2>2 DEF Carried
  <2>4. PICK q : q = [op |-> "setMonitors", id |-> pageSeq', org |-> sp.org, shown |-> shown, code |-> 201]
    OBVIOUS
  <2>5. \/ Reply(c, 422, {}) /\ UNCHANGED pageVars
        \/ /\ pageSeq' = pageSeq + 1 /\ pages' = Put(pages, pageSeq', sp) /\ entries' = Put(entries, pageSeq', << >>)
           /\ Hold(c, q)
    BY <1>2, <1>4, <2>2, <2>4 DEF InsertPage, Pool_CreateStatusPage
  <2>6. Carried(q)
    BY <2>3, <2>4 DEF Carried
  <2>7. ASSUME pageSeq' = pageSeq + 1, pages' = Put(pages, pageSeq', sp), entries' = Put(entries, pageSeq', << >>)
        PROVE  PagesOK'
    <3>1. PICK n \in Nat : n = pageSeq' /\ n = pageSeq + 1 /\ pageSeq \in Nat
      BY <2>7 DEF PagesOK
    <3>2. DOMAIN pages' = DOMAIN pages \cup {n} /\ \A j \in DOMAIN pages' : pages'[j] = IF j = n THEN sp ELSE pages[j]
      BY <2>7, <3>1 DEF Put
    <3>3. DOMAIN entries = DOMAIN pages
      BY DEF PagesOK
    <3>4. entries' = [j \in DOMAIN pages' |-> IF j = n THEN << >> ELSE entries[j]]
      BY <2>7, <3>1, <3>2, <3>3 DEF Put
    <3>5. DOMAIN pages' \subseteq 1..pageSeq'
      BY <3>1, <3>2 DEF PagesOK
    <3>6. entries' = [j \in DOMAIN pages' |-> entries'[j]]
      BY <3>4
    <3>7. ASSUME NEW j \in DOMAIN pages'
          PROVE  /\ IsPage(pages'[j])
                 /\ \A i \in DOMAIN entries'[j] : entries'[j][i] \in WithOrg(monitors, pages[j].org)'
      <4>1. CASE j = n
        BY <2>3, <3>2, <3>4, <4>1
      <4>2. CASE j # n
        <5>1. j \in DOMAIN pages /\ pages'[j] = pages[j] /\ entries'[j] = entries[j]
          BY <3>2, <3>4, <4>2
        <5> QED BY <1>1, <5>1 DEF PagesOK, WithOrg
      <4> QED BY <4>1, <4>2
    <3> QED BY <3>1, <3>5, <3>6, <3>7 DEF PagesOK
  <2> QED BY <1>1, <2>5, <2>6, <2>7, Replied, Held, PagesStill
<1>5. CASE WritePage(c)
  <2>1. r.op = "writePage"
    BY <1>2, <1>5 DEF WritePage, Resume
  <2>2. PICK sp, shown, id : sp = r.sp /\ shown = r.shown /\ id = r.id
    OBVIOUS
  <2>3. IsPage(sp) /\ shown \in Seq(Int)
    BY <1>3, <2>1, <2>2 DEF Carried
  <2>4. PICK q : q = [op |-> "setMonitors", id |-> id, org |-> sp.org, shown |-> shown, code |-> 200]
    OBVIOUS
  <2>5. \/ (Reply(c, 404, {}) \/ Reply(c, 422, {})) /\ UNCHANGED pageVars
        \/ id \in WithOrg(pages, sp.org) /\ pages' = Put(pages, id, sp) /\ Hold(c, q) /\ UNCHANGED <<entries, pageSeq>>
    BY <1>2, <1>5, <2>2, <2>4 DEF WritePage, Pool_UpdateStatusPage, pageVars
  <2>6. Carried(q)
    BY <2>3, <2>4 DEF Carried
  <2> QED BY <1>1, <2>3, <2>5, <2>6, Replied, Held, PagesStill, PagePut
<1>6. CASE FlipPage(c)
  <2>1. r.op = "flipPage"
    BY <1>2, <1>6 DEF FlipPage, Resume
  <2>2. PICK sp, id : sp = r.sp /\ id = r.id
    OBVIOUS
  <2>3. IsPage(sp)
    BY <1>3, <2>1, <2>2 DEF Carried
  <2>4. \/ Reply(c, 500, {}) /\ UNCHANGED pageVars
        \/ id \in WithOrg(pages, sp.org) /\ pages' = Put(pages, id, sp) /\ Reply(c, 200, {}) /\ UNCHANGED <<entries, pageSeq>>
    BY <1>2, <1>6, <2>2 DEF FlipPage, Pool_UpdateStatusPage, pageVars
  <2> QED BY <1>1, <2>3, <2>4, Replied, PagesStill, PagePut
<1>7. CASE SetStatusPageMonitors(c)
  <2>1. r.op = "setMonitors"
    BY <1>2, <1>7 DEF SetStatusPageMonitors, Resume
  <2>2. PICK id, o, shown : id = r.id /\ o = r.org /\ shown = r.shown
    OBVIOUS
  <2>3. shown \in Seq(Int)
    BY <1>3, <2>1, <2>2 DEF Carried
  <2>4. UNCHANGED <<pages, pageSeq>>
    BY <1>7 DEF SetStatusPageMonitors
  <2>5. \/ (Reply(c, 422, {}) \/ Reply(c, r.code, {})) /\ UNCHANGED entries
        \/ /\ id \in WithOrg(pages, o) /\ InOrg(o, shown) /\ entries' = [entries EXCEPT ![id] = shown]
           /\ Reply(c, r.code, {})
    BY <1>2, <1>7, <2>2 DEF SetStatusPageMonitors
  <2>6. ASSUME id \in WithOrg(pages, o), InOrg(o, shown), entries' = [entries EXCEPT ![id] = shown]
        PROVE  PagesOK'
    <3>1. DOMAIN shown = 1..Len(shown) /\ id \in DOMAIN pages /\ pages[id].org = o
      BY <2>3, <2>6 DEF WithOrg
    <3>2. \A i \in DOMAIN shown : shown[i] \in WithOrg(monitors, o)
      BY <2>6, <3>1 DEF InOrg
    <3>3. /\ entries' = [j \in DOMAIN pages |-> entries'[j]]
          /\ \A j \in DOMAIN pages : entries'[j] = IF j = id THEN shown ELSE entries[j]
      BY <2>6, <3>1 DEF PagesOK
    <3> QED BY <1>1, <2>4, <3>1, <3>2, <3>3 DEF PagesOK, WithOrg
  <2>7. Quiet'
    BY <2>5, Replied
  <2>8. UNCHANGED entries => PagesOK'
    BY <1>1, <2>4, PagesStill DEF pageVars
  <2> QED BY <2>5, <2>6, <2>7, <2>8
<1> QED BY <1>4, <1>5, <1>6, <1>7

-----------------------------------------------------------------------------
(* The rows are sound, whatever interleaves. *)

TenantInv == Quiet /\ RowsOK

LEMMA TenantStarts == Init => TenantInv
<1> SUFFICES ASSUME Init PROVE TenantInv
  OBVIOUS
<1>1. Quiet
  BY DEF Init, TenantInit, Quiet, RequestsOK, AnswersOK
<1>2. DOMAIN << >> = {}
  OBVIOUS
<1>3. MonitorsOK /\ ChannelsOK /\ HooksOK /\ PagesOK
  BY <1>2 DEF Init, MonitorsInit, ChannelsInit, PagesInit, MonitorsOK, ChannelsOK, HooksOK, PagesOK
<1> QED BY <1>1, <1>3 DEF TenantInv, RowsOK

LEMMA TenantSteps ==
  ASSUME TenantInv, [Next]_vars
  PROVE  TenantInv'
<1> USE DEF TenantInv, RowsOK
<1>1. ASSUME UNCHANGED channelVars PROVE ChannelsOK' /\ HooksOK'
  BY <1>1 DEF channelVars, ChannelsOK, HooksOK
<1>2. ASSUME UNCHANGED <<monitorVars, pageVars>> PROVE MonitorsOK' /\ PagesOK'
  BY <1>2, PagesStill DEF monitorVars, MonitorsOK
<1>3. ASSUME UNCHANGED monitorVars PROVE MonitorsOK'
  BY <1>3 DEF monitorVars, MonitorsOK
<1>4. ASSUME UNCHANGED hookVars PROVE HooksOK'
  BY <1>4 DEF hookVars, HooksOK
<1>5. ASSUME UNCHANGED <<channels, chSeq>> PROVE ChannelsOK'
  BY <1>5 DEF ChannelsOK
<1>6. ASSUME NEW c \in Clients, NEW p, MonitorRequest(c, p) PROVE TenantInv'
  BY <1>1, <1>2, <1>6, MonitorRequests
<1>7. ASSUME NEW c \in Clients, NEW p, RemoveMonitor(c, p) PROVE TenantInv'
  BY <1>1, <1>7, MonitorRemoved
<1>8. ASSUME NEW c \in Clients, NEW p, ChannelRequest(c, p) PROVE TenantInv'
  <2>1. MonitorsOK' /\ PagesOK'
    BY <1>2, <1>8 DEF ChannelRequest
  <2>2. CASE \/ GetChannelTypes(c, p) \/ ListChannels(c, p)
             \/ \E in \in ChannelInputs : CreateChannel(c, p, in)
             \/ \E id \in Ids(chSeq) : DeleteChannel(c, p, id) \/ TestChannel(c, p, id)
             \/ \E id \in Ids(chSeq), in \in ChannelInputs : UpdateChannel(c, p, id, in)
    BY <1>4, <2>1, <2>2, ChannelRequests
  <2>3. CASE \/ ListWebhooks(c, p)
             \/ \E in \in HookInputs : CreateWebhook(c, p, in)
             \/ \E id \in Ids(hookSeq) :
                  GetWebhook(c, p, id) \/ RotateWebhookSecret(c, p, id) \/ DeleteWebhook(c, p, id)
             \/ \E id \in Ids(hookSeq), in \in HookInputs : UpdateWebhook(c, p, id, in)
    BY <1>5, <2>1, <2>3, HookRequests
  <2> QED BY <1>8, <2>2, <2>3 DEF ChannelRequest
<1>9. ASSUME NEW c \in Clients, NEW p, PageRequest(c, p) PROVE TenantInv'
  <2>1. UNCHANGED monitorVars /\ UNCHANGED channelVars
    BY <1>9 DEF PageRequest
  <2> QED BY <1>1, <1>3, <1>9, <2>1, PageRequests
<1>10. ASSUME NEW c \in Clients, NextStep(c) PROVE TenantInv'
  <2>1. CASE (InsertMonitor(c) \/ OverwriteMonitor(c)) /\ UNCHANGED <<channelVars, pageVars>>
    BY <1>1, <2>1, MonitorWrites
  <2>2. CASE (WriteChannel(c) \/ ShowSecret(c) \/ WriteHook(c)) /\ UNCHANGED <<monitorVars, pageVars>>
    BY <1>2, <1>4, <1>5, <2>2, ChannelWritten, HookSteps
  <2>3. CASE /\ InsertPage(c) \/ WritePage(c) \/ SetStatusPageMonitors(c) \/ FlipPage(c)
             /\ UNCHANGED <<monitorVars, channelVars>>
    BY <1>1, <1>3, <2>3, PageSteps
  <2> QED BY <1>10, <2>1, <2>2, <2>3 DEF NextStep
<1>11. ASSUME Environment PROVE TenantInv'
  <2>1. CASE \E o \in Orgs : PlanChanged(o) /\ UNCHANGED <<monitorVars, channelVars, pageVars>>
    BY <1>1, <1>2, <2>1 DEF PlanChanged, Quiet, RequestsOK, AnswersOK, Carried
  <2>2. ASSUME NEW c \in Clients, Abort(c), UNCHANGED <<monitorVars, channelVars, pageVars>> PROVE TenantInv'
    <3>1. Reply(c, 500, {})
      BY <2>2 DEF Abort
    <3> QED BY <1>1, <1>2, <2>2, <3>1, Replied
  <2>3. ASSUME NEW id, PipelineWrites(id), UNCHANGED <<channelVars, pageVars>> PROVE TenantInv'
    <3>1. UNCHANGED <<monitors, monSeq, req, out>>
      BY <2>3 DEF PipelineWrites, tenantVars
    <3>2. MonitorsOK' /\ PagesOK'
      BY <2>3, <3>1, PagesStill DEF MonitorsOK
    <3>3. Quiet'
      BY <3>1 DEF Quiet, RequestsOK, AnswersOK, Carried
    <3> QED BY <1>1, <2>3, <3>2, <3>3
  <2> QED BY <1>11, <2>1, <2>2, <2>3 DEF Environment
<1>12. CASE UNCHANGED vars
  <2>1. UNCHANGED <<monitorVars, channelVars, pageVars>> /\ UNCHANGED <<req, out>>
    BY <1>12 DEF vars, tenantVars
  <2> QED BY <1>1, <1>2, <2>1 DEF Quiet, RequestsOK, AnswersOK, Carried
<1> QED BY <1>6, <1>7, <1>8, <1>9, <1>10, <1>11, <1>12 DEF Next

LEMMA TenantInvariance == Spec => []TenantInv
BY TenantStarts, TenantSteps, PTL DEF Spec

-----------------------------------------------------------------------------
(* What follows for the rows *)

\* Deliveries of a webhook are signed with the secret that the last create or
\* rotation issued, however edits and rotations of it interleave (UpdateWebhook,
\* RotateWebhookSecret).
THEOREM SecretsRotate == Spec => []SigningSecretIsCurrent
<1>1. TenantInv => SigningSecretIsCurrent
  <2> SUFFICES ASSUME HooksOK, NEW id \in DOMAIN hooks PROVE scanOrgWebhook(hooks[id]).secret = issued[id]
    BY DEF TenantInv, RowsOK, SigningSecretIsCurrent
  <2>1. PICK w : w = hooks[id]
    OBVIOUS
  <2>2. PICK n \in Nat : n = issued[id] /\ IsHook(w) /\ w.secret = Encrypt(n)
    BY <2>1 DEF HooksOK
  <2>3. decryptSecret(w.secret) = n
    BY <2>2, SecretSealed
  <2>4. scanOrgWebhook(w) = [w EXCEPT !.secret = n]
    BY <2>3 DEF scanOrgWebhook
  <2> QED BY <2>1, <2>2, <2>4 DEF IsHook
<1> QED BY <1>1, TenantInvariance, PTL

\* Every stored channel can be sent with: what validation accepts, Send can use,
\* and an update that keeps the secrets left blank stores what validation
\* accepts (UpdateChannel, mergeKeptSecrets), for every request body.
THEOREM StoredChannelsSend == Spec => []ChannelsSendable
<1>1. TenantInv => ChannelsSendable
  <2> SUFFICES ASSUME ChannelsOK, NEW id \in DOMAIN channels
               PROVE  LET ch == scanChannel(channels[id]) IN
                      /\ ValidateConfig(ch.type, ch.cfg)
                      /\ SendCall(ch.type, ch.cfg, [type |-> "down", inc |-> 1, test |-> FALSE]) # None
    BY DEF TenantInv, RowsOK, ChannelsSendable
  <2>1. PICK ch : ch = scanChannel(channels[id])
    OBVIOUS
  <2>2. ValidateConfig(ch.type, ch.cfg)
    BY <2>1 DEF ChannelsOK, ClearChannel
  <2>3. SendCall(ch.type, ch.cfg, [type |-> "down", inc |-> 1, test |-> FALSE]) # None
    BY <2>2, ValidSends
  <2> QED BY <2>1, <2>2, <2>3
<1> QED BY <1>1, TenantInvariance, PTL

\* The error of a failed test names no value but those in the tested channel's
\* URL, and the channel is one of the caller's org.
ToldOK ==
  /\ out.told # {} => out.code = 422
  /\ \A t \in out.told :
       \E id \in WithOrg(channels, t[1]) : t[2] \in urlValues(scanChannel(channels[id]))

\* A step that answers without an error's text, or neither answers nor touches
\* a channel.
Untold == (\E c, code, shows : Reply(c, code, shows)) \/ UNCHANGED <<out, channels>>

LEMMA UntoldKeeps ==
  ASSUME ToldOK, Untold
  PROVE  ToldOK'
<1>1. CASE \E c, code, shows : Reply(c, code, shows)
  <2>1. PICK code, shows : out' = [code |-> code, shows |-> shows, told |-> {}]
    BY <1>1 DEF Reply
  <2>2. out'.told = {}
    BY <2>1
  <2> QED BY <2>2 DEF ToldOK
<1>2. CASE UNCHANGED <<out, channels>>
  BY <1>2 DEF ToldOK, WithOrg
<1> QED BY <1>1, <1>2 DEF Untold

LEMMA TestTells ==
  ASSUME ToldOK, NEW c, NEW p, NEW id, TestChannel(c, p, id)
  PROVE  ToldOK'
<1>1. PICK ch : ch = Pool_GetChannel(p.org, id)
  OBVIOUS
<1>2. channels' = channels
  BY DEF TestChannel
<1>3. CASE Untold
  BY <1>3, UntoldKeeps
<1>4. CASE ReplyError(c, 422, {})
  <2>1. out' = [code |-> 422, shows |-> {}, told |-> {}]
    BY <1>4 DEF ReplyError
  <2>2. out'.told = {}
    BY <2>1
  <2> QED BY <2>2 DEF ToldOK
<1>5. CASE ch # None /\ ReplyError(c, 422, {p.org} \X urlValues(ch))
  <2>1. PICK o, told : o = p.org /\ told = {o} \X urlValues(ch)
    OBVIOUS
  <2>2. out' = [code |-> 422, shows |-> {}, told |-> told]
    BY <1>5, <2>1 DEF ReplyError
  <2>3. out'.told = told /\ out'.code = 422
    BY <2>2
  <2>4. id \in WithOrg(channels, o) /\ ch = scanChannel(channels[id])
    BY <1>1, <1>5, <2>1 DEF Pool_GetChannel
  <2>5. ASSUME NEW t \in told PROVE id \in WithOrg(channels, t[1]) /\ t[2] \in urlValues(scanChannel(channels[id]))
    <3>1. t[1] = o /\ t[2] \in urlValues(ch)
      BY <2>1
    <3> QED BY <2>4, <3>1
  <2>6. \A t \in told : id \in WithOrg(channels', t[1]) /\ t[2] \in urlValues(scanChannel(channels'[id]))
    BY <1>2, <2>5
  <2> QED BY <2>3, <2>6 DEF ToldOK
<1> QED BY <1>1, <1>3, <1>4, <1>5, ZenonT(40) DEF TestChannel, Untold

LEMMA ToldSteps ==
  ASSUME ToldOK, [Next]_vars
  PROVE  ToldOK'
<1>1. ASSUME NEW c, NEW p, MonitorRequest(c, p) PROVE Untold
  BY <1>1 DEF MonitorRequest, ListMonitors, GetMonitor, CreateMonitor, UpdateMonitor, Hold, Untold, channelVars
<1>2. ASSUME NEW c, NEW p, RemoveMonitor(c, p) PROVE Untold
  BY <1>2 DEF RemoveMonitor, DeleteMonitor, Untold
<1>3. ASSUME NEW c, NEW p, ChannelRequest(c, p) PROVE ToldOK'
  <2>1. CASE GetChannelTypes(c, p) \/ ListChannels(c, p) \/ ListWebhooks(c, p)
    BY <2>1, UntoldKeeps DEF GetChannelTypes, ListChannels, ListWebhooks, Untold
  <2>2. ASSUME NEW in, CreateChannel(c, p, in) PROVE Untold
    BY <2>2 DEF CreateChannel, Untold
  <2>3. ASSUME NEW id, DeleteChannel(c, p, id) \/ GetWebhook(c, p, id) \/ DeleteWebhook(c, p, id) PROVE Untold
    BY <2>3 DEF DeleteChannel, GetWebhook, DeleteWebhook, Untold
  <2>4. ASSUME NEW id, NEW in, UpdateChannel(c, p, id, in) PROVE Untold
    BY <2>4 DEF UpdateChannel, Hold, Untold, channelVars
  <2>5. ASSUME NEW in, CreateWebhook(c, p, in) PROVE Untold
    BY <2>5 DEF CreateWebhook, Hold, Untold
  <2>6. ASSUME NEW id, RotateWebhookSecret(c, p, id) PROVE Untold
    BY <2>6 DEF RotateWebhookSecret, Hold, Untold
  <2>7. ASSUME NEW id, NEW in, UpdateWebhook(c, p, id, in) PROVE Untold
    BY <2>7 DEF UpdateWebhook, Hold, Untold, channelVars
  <2> QED BY <1>3, <2>1, <2>2, <2>3, <2>4, <2>5, <2>6, <2>7, TestTells, UntoldKeeps DEF ChannelRequest
<1>4. ASSUME NEW c, NEW p, PageRequest(c, p) PROVE Untold
  BY <1>4, ZenonT(40) DEF PageRequest, ListStatusPages, CreateStatusPage, GetStatusPage, DeleteStatusPage, UpdateStatusPage,
     PublishStatusPage, GetPublicStatusPage, Hold, Untold, channelVars
<1>5. ASSUME NEW c, NextStep(c) PROVE Untold
  <2>1. CASE (InsertMonitor(c) \/ OverwriteMonitor(c)) /\ UNCHANGED <<channelVars, pageVars>>
    BY <2>1 DEF InsertMonitor, OverwriteMonitor, Untold
  <2>2. CASE WriteChannel(c) \/ ShowSecret(c) \/ WriteHook(c)
    BY <2>2 DEF WriteChannel, ShowSecret, WriteHook, Untold
  <2>3. CASE /\ InsertPage(c) \/ WritePage(c) \/ SetStatusPageMonitors(c) \/ FlipPage(c)
             /\ UNCHANGED <<monitorVars, channelVars>>
    BY <2>3 DEF InsertPage, WritePage, SetStatusPageMonitors, FlipPage, Hold, Untold, channelVars
  <2> QED BY <1>5, <2>1, <2>2, <2>3 DEF NextStep
<1>6. ASSUME Environment PROVE Untold
  BY <1>6 DEF Environment, PlanChanged, Abort, PipelineWrites, Untold, channelVars, tenantVars
<1>7. CASE UNCHANGED vars
  BY <1>7, UntoldKeeps DEF vars, tenantVars, channelVars, Untold
<1> QED BY <1>1, <1>2, <1>3, <1>4, <1>5, <1>6, <1>7, UntoldKeeps DEF Next

LEMMA ToldInvariance == Spec => []ToldOK
<1>1. Init => ToldOK
  BY DEF Init, TenantInit, ToldOK
<1> QED BY <1>1, ToldSteps, PTL DEF Spec

\* No plaintext of a secret is stored under a secret key or shown in an answer,
\* but for a webhook's signing secret just made (EncryptChannelConfig,
\* encodeHeaders, redactSecretConfig, monitorDTO, webhookDTO), and the URL that
\* the error of a failed channel test names, which is that of a channel of the
\* caller's own org (TestChannel, postJSON).
THEOREM SecretsStayIn == Spec => []SecretsConfined
<1>1. TenantInv /\ ToldOK => SecretsConfined
  <2> SUFFICES ASSUME MonitorsOK, ChannelsOK, AnswersOK, ToldOK PROVE SecretsConfined
    BY DEF TenantInv, RowsOK, Quiet
  <2>1. ASSUME NEW id \in DOMAIN channels, NEW k \in DOMAIN channels[id].cfg \cap SecretKeys(channels[id].type)
        PROVE  channels[id].cfg[k].val \notin Values
    BY Ciphers DEF ChannelsOK, SealedConfig
  <2>2. ASSUME NEW id \in DOMAIN monitors, NEW i \in 1..Len(monitors[id].headers), monitors[id].headers[i].secret
        PROVE  monitors[id].headers[i].value \notin Values
    BY <2>2, Ciphers DEF MonitorsOK, Sealed
  <2> QED BY <2>1, <2>2 DEF SecretsConfined, AnswersOK, ToldOK
<1> QED BY <1>1, TenantInvariance, ToldInvariance, PTL

\* A status page lists monitors of its own org that exist, shows the enabled
\* ones only, and a monitor alerts channels of its own org only, whatever ids
\* callers of any number of orgs name (WithOrg, SetStatusPageMonitors,
\* DeleteMonitor).
THEOREM OrgsStayApart == Spec => []OrgsApart
<1>1. TenantInv => OrgsApart
  <2> SUFFICES ASSUME PagesOK, MonitorsOK PROVE OrgsApart
    BY DEF TenantInv, RowsOK
  <2>1. ASSUME NEW id \in DOMAIN pages, NEW i \in DOMAIN publicStatusPageDTO(id).monitors
        PROVE  monitors[publicStatusPageDTO(id).monitors[i]].enabled
    <3>1. PICK rows : rows = entries[id]
      OBVIOUS
    <3>2. PICK statuses : statuses = [j \in DOMAIN rows |-> publicStatus(rows[j])]
      OBVIOUS
    <3>3. PICK shown : shown = publicStatusPageDTO(id).monitors
      OBVIOUS
    <3>4. shown = Drop(rows, {j \in DOMAIN rows : statuses[j] = "hidden"})
      BY <3>1, <3>2, <3>3 DEF publicStatusPageDTO
    <3>5. i \in DOMAIN rows /\ shown[i] = rows[i] /\ publicStatus(rows[i]) # "hidden"
      BY <2>1, <3>2, <3>3, <3>4 DEF Drop
    <3>6. monitors[rows[i]].enabled \in BOOLEAN
      BY <3>1, <3>5 DEF PagesOK, MonitorsOK, WithOrg
    <3>7. monitors[rows[i]].enabled
      BY <3>5, <3>6 DEF publicStatus, DerivePublicStatus, DeriveStatus
    <3> QED BY <3>3, <3>5, <3>7
  <2>2. \A id \in DOMAIN monitors :
          GetChannelsForMonitor(monitors[id]) \subseteq WithOrg(channels, monitors[id].org)
    BY DEF GetChannelsForMonitor
  <2> QED BY <2>1, <2>2 DEF OrgsApart, PagesOK
<1> QED BY <1>1, TenantInvariance, PTL

-----------------------------------------------------------------------------
(* Plan caps *)

Capped == PlansOK /\ MonitorCapOK /\ PageCapOK

LEMMA Ranks == \A p \in Plans : Rank(p) \in Nat
<1>1. \A p \in Plans : \E i \in 1..4 : catalogOrder[i] = p
  BY DEF Plans, catalogOrder
<1> QED BY <1>1 DEF Rank

LEMMA PlanCaps ==
  ASSUME PlansOK, NEW o \in Orgs
  PROVE  /\ monitorLimitsOf(o).cap \in Nat /\ CapOf(o) \in Nat /\ monitorLimitsOf(o).cap <= CapOf(o)
         /\ statusPageCap(o) \in Nat /\ PageCaps[peak[o]] \in Nat /\ statusPageCap(o) <= PageCaps[peak[o]]
<1>1. plan[o] \in Plans /\ peak[o] \in Plans /\ Rank(plan[o]) <= Rank(peak[o]) /\ orgPlan(o) = plan[o]
  BY DEF PlansOK, orgPlan, ParsePlan
<1> QED BY <1>1, MonitorsAssumption, PagesAssumption DEF monitorLimitsOf, CapOf, statusPageCap

LEMMA Sizes ==
  ASSUME MonitorsOK, PagesOK, NEW o
  PROVE  /\ IsFiniteSet(Enabled(o)) /\ IsFiniteSet(Soon(o)) /\ IsFiniteSet(Inserting(o)) /\ IsFiniteSet(Enabling(o))
         /\ IsFiniteSet(WithOrg(pages, o)) /\ IsFiniteSet(Paging(o))
         /\ Cardinality(Enabled(o)) \in Nat /\ Cardinality(Soon(o)) \in Nat /\ Cardinality(Inserting(o)) \in Nat
         /\ CountStatusPages(o) \in Nat /\ Cardinality(Paging(o)) \in Nat /\ Cardinality(Clients) \in Nat
<1>1. IsFiniteSet(Clients)
  BY TenantAssumption
<1>2. IsFiniteSet(Inserting(o)) /\ IsFiniteSet(Enabling(o)) /\ IsFiniteSet(Paging(o))
  <2>1. Inserting(o) \subseteq Clients /\ Enabling(o) \subseteq Clients /\ Paging(o) \subseteq Clients
    BY DEF Inserting, Enabling, Paging
  <2> QED BY <1>1, <2>1, FS_Subset
<1>3. IsFiniteSet(Enabled(o))
  <2>1. IsFiniteSet(1..monSeq)
    BY FS_Interval DEF MonitorsOK
  <2>2. Enabled(o) \subseteq 1..monSeq
    BY DEF MonitorsOK, Enabled, WithOrg
  <2> QED BY <2>1, <2>2, FS_Subset
<1>4. IsFiniteSet(WithOrg(pages, o))
  <2>1. IsFiniteSet(1..pageSeq)
    BY FS_Interval DEF PagesOK
  <2>2. WithOrg(pages, o) \subseteq 1..pageSeq
    BY DEF PagesOK, WithOrg
  <2> QED BY <2>1, <2>2, FS_Subset
<1>5. IsFiniteSet(Soon(o))
  <2>1. PICK f : f = [c \in Enabling(o) |-> req[c].id]
    OBVIOUS
  <2>2. ToEnable(o) = {f[c] : c \in Enabling(o)}
    BY <2>1 DEF ToEnable
  <2>3. IsFiniteSet({f[c] : c \in Enabling(o)})
    <3>1. f \in Surjection(Enabling(o), {f[c] : c \in Enabling(o)})
      BY <2>1 DEF Surjection
    <3> QED BY <1>2, <3>1, FS_Surjection
  <2> QED BY <1>3, <2>2, <2>3, FS_Union DEF Soon
<1> QED BY <1>1, <1>2, <1>3, <1>4, <1>5, FS_CardinalityType DEF CountStatusPages

\* A request that has just counted fits: E is what it counted, A and I are the
\* requests that will enable a row f[c] or insert one, itself included, and each
\* adds one row at most.
LEMMA CountedFits ==
  ASSUME NEW E, IsFiniteSet(E), NEW A \in SUBSET Clients, NEW I \in SUBSET Clients, A \cap I = {},
         NEW f, NEW cap \in Nat, Cardinality(E) < cap
  PROVE  Cardinality(E \cup {f[c] : c \in A}) + Cardinality(I) <= cap + Cardinality(Clients) - 1
<1>1. PICK g : g = [c \in A |-> f[c]]
  OBVIOUS
<1>2. PICK T : T = {f[c] : c \in A}
  OBVIOUS
<1>3. g \in Surjection(A, T)
  BY <1>1, <1>2 DEF Surjection
<1>4. IsFiniteSet(A) /\ IsFiniteSet(I) /\ IsFiniteSet(Clients)
  BY TenantAssumption, FS_Subset
<1>5. IsFiniteSet(T) /\ Cardinality(T) <= Cardinality(A)
  BY <1>3, <1>4, FS_Surjection
<1>6. /\ Cardinality(T) \in Nat /\ Cardinality(A) \in Nat /\ Cardinality(I) \in Nat
      /\ Cardinality(E) \in Nat /\ Cardinality(Clients) \in Nat
  BY <1>4, <1>5, FS_CardinalityType
<1>7. Cardinality(E \cup T) <= Cardinality(E) + Cardinality(T) /\ Cardinality(E \cup T) \in Nat
  <2>1. /\ Cardinality(E \cup T) = Cardinality(E) + Cardinality(T) - Cardinality(E \cap T)
        /\ IsFiniteSet(E \cup T)
    BY <1>5, FS_Union
  <2>2. Cardinality(E \cap T) \in Nat
    BY <1>5, FS_Intersection, FS_CardinalityType
  <2> QED BY <1>6, <2>1, <2>2, FS_CardinalityType
<1>8. Cardinality(A) + Cardinality(I) <= Cardinality(Clients)
  <2>1. Cardinality(A \cup I) <= Cardinality(Clients)
    BY <1>4, FS_Subset
  <2>2. Cardinality(A \cup I) = Cardinality(A) + Cardinality(I) - Cardinality(A \cap I)
    BY <1>4, FS_Union
  <2>3. Cardinality(A \cap I) = 0
    BY FS_EmptySet
  <2> QED BY <1>6, <2>1, <2>2, <2>3
<1> QED BY <1>2, <1>5, <1>6, <1>7, <1>8

\* A step that adds no row and no request that will, leaves the caps held.
LEMMA MonitorsFewer ==
  ASSUME MonitorsOK, PagesOK, PlansOK, MonitorCapOK, NEW o \in Orgs, UNCHANGED peak,
         Soon(o)' \subseteq Soon(o), Inserting(o)' \subseteq Inserting(o)
  PROVE  (Cardinality(Soon(o)) + Cardinality(Inserting(o)) <= CapOf(o) + Cardinality(Clients) - 1)'
<1>1. PICK S, I, T, J, n : /\ S = Soon(o) /\ I = Inserting(o) /\ T = Soon(o)' /\ J = Inserting(o)' /\ n = CapOf(o)
  OBVIOUS
<1>2. IsFiniteSet(S) /\ IsFiniteSet(I) /\ Cardinality(S) \in Nat /\ Cardinality(I) \in Nat /\ Cardinality(Clients) \in Nat
  BY <1>1, Sizes
<1>3. IsFiniteSet(T) /\ Cardinality(T) <= Cardinality(S)
  BY <1>1, <1>2, FS_Subset
<1>4. IsFiniteSet(J) /\ Cardinality(J) <= Cardinality(I)
  BY <1>1, <1>2, FS_Subset
<1>5. Cardinality(T) \in Nat /\ Cardinality(J) \in Nat
  BY <1>3, <1>4, FS_CardinalityType
<1>6. n \in Nat /\ n = CapOf(o)'
  BY <1>1, PlanCaps DEF CapOf
<1>7. Cardinality(S) + Cardinality(I) <= n + Cardinality(Clients) - 1
  BY <1>1 DEF MonitorCapOK
<1>8. Cardinality(T) + Cardinality(J) <= n + Cardinality(Clients) - 1
  BY <1>2, <1>3, <1>4, <1>5, <1>6, <1>7
<1> QED BY <1>1, <1>6, <1>8

LEMMA PagesFewer ==
  ASSUME MonitorsOK, PagesOK, PlansOK, PageCapOK, NEW o \in Orgs, UNCHANGED peak,
         WithOrg(pages, o)' \subseteq WithOrg(pages, o), Paging(o)' \subseteq Paging(o)
  PROVE  (CountStatusPages(o) + Cardinality(Paging(o)) <= PageCaps[peak[o]] + Cardinality(Clients) - 1)'
<1>1. PICK S, I, T, J, n : /\ S = WithOrg(pages, o) /\ I = Paging(o) /\ T = WithOrg(pages, o)' /\ J = Paging(o)'
                           /\ n = PageCaps[peak[o]]
  OBVIOUS
<1>2. IsFiniteSet(S) /\ IsFiniteSet(I) /\ Cardinality(S) \in Nat /\ Cardinality(I) \in Nat /\ Cardinality(Clients) \in Nat
  BY <1>1, Sizes DEF CountStatusPages
<1>3. IsFiniteSet(T) /\ Cardinality(T) <= Cardinality(S)
  BY <1>1, <1>2, FS_Subset
<1>4. IsFiniteSet(J) /\ Cardinality(J) <= Cardinality(I)
  BY <1>1, <1>2, FS_Subset
<1>5. Cardinality(T) \in Nat /\ Cardinality(J) \in Nat
  BY <1>3, <1>4, FS_CardinalityType
<1>6. n \in Nat
  BY <1>1, PlanCaps
<1>7. Cardinality(S) + Cardinality(I) <= n + Cardinality(Clients) - 1
  BY <1>1 DEF PageCapOK, CountStatusPages
<1>8. Cardinality(T) + Cardinality(J) <= n + Cardinality(Clients) - 1
  BY <1>2, <1>3, <1>4, <1>5, <1>6, <1>7
<1> QED BY <1>1, <1>8 DEF CountStatusPages

\* What request r will add to org x.
AddsMonitor(r, x) == /\ r # None /\ r.op \in {"insertMonitor", "overwriteMonitor"}
                     /\ r.m.org = x /\ r.m.enabled
AddsPage(r, x)    == r # None /\ r.op = "insertPage" /\ r.sp.org = x
Asks(c, r)        == req' = [req EXCEPT ![c] = r]

LEMMA Asked ==
  ASSUME RequestsOK, NEW c \in Clients, NEW r, Asks(c, r), NEW x
  PROVE  /\ ~ AddsMonitor(r, x) => ToEnable(x)' \subseteq ToEnable(x) /\ Inserting(x)' \subseteq Inserting(x)
         /\ ~ AddsPage(r, x) => Paging(x)' \subseteq Paging(x)
<1>1. \A d \in Clients : req'[d] = IF d = c THEN r ELSE req[d]
  BY DEF RequestsOK, Asks
<1>2. ASSUME ~ AddsMonitor(r, x) PROVE Enabling(x)' \subseteq Enabling(x) \ {c} /\ Inserting(x)' \subseteq Inserting(x)
  BY <1>1, <1>2 DEF AddsMonitor, Enabling, Inserting
<1>3. ASSUME ~ AddsMonitor(r, x) PROVE ToEnable(x)' \subseteq ToEnable(x)
  BY <1>1, <1>2, <1>3 DEF ToEnable, Enabling
<1>4. ASSUME ~ AddsPage(r, x) PROVE Paging(x)' \subseteq Paging(x)
  BY <1>1, <1>4 DEF AddsPage, Paging
<1> QED BY <1>2, <1>3, <1>4

\* Requests that will add nothing.
Idle(c) == \E r : Asks(c, r) /\ \A x : ~ AddsMonitor(r, x) /\ ~ AddsPage(r, x)
\* Bodies the answer to which, or the row of which, adds nothing.
IdleOp(r) == r.op \notin {"insertMonitor", "overwriteMonitor", "insertPage"}

LEMMA Idles ==
  ASSUME NEW c
  PROVE  /\ \A code, shows : Reply(c, code, shows) => Idle(c)
         /\ \A code, told : ReplyError(c, code, told) => Idle(c)
         /\ \A r : Hold(c, r) /\ IdleOp(r) => Idle(c)
BY DEF Reply, ReplyError, Hold, Idle, IdleOp, Asks, AddsMonitor, AddsPage

\* A step that shrinks the tables, if it changes them, and adds no request.
LEMMA CapsFewer ==
  ASSUME Quiet, MonitorsOK, PagesOK, Capped, UNCHANGED <<plan, peak>>, NEW c \in Clients, Idle(c),
         \A x : Enabled(x)' \subseteq Enabled(x) /\ WithOrg(pages, x)' \subseteq WithOrg(pages, x)
  PROVE  Capped'
<1>1. PICK r : Asks(c, r) /\ \A x : ~ AddsMonitor(r, x) /\ ~ AddsPage(r, x)
  BY DEF Idle
<1>2. ASSUME NEW x PROVE ToEnable(x)' \subseteq ToEnable(x) /\ Inserting(x)' \subseteq Inserting(x) /\ Paging(x)' \subseteq Paging(x)
  BY <1>1, Asked DEF Quiet
<1>3. ASSUME NEW x PROVE Soon(x)' \subseteq Soon(x)
  BY <1>2 DEF Soon
<1>4. MonitorCapOK'
  BY <1>2, <1>3, MonitorsFewer DEF Capped, MonitorCapOK
<1>5. PageCapOK'
  BY <1>2, PagesFewer DEF Capped, PageCapOK
<1>6. PlansOK'
  BY DEF Capped, PlansOK
<1> QED BY <1>4, <1>5, <1>6 DEF Capped

\* Billing's change of a plan: the highest cap only grows.
LEMMA PlanMoved ==
  ASSUME MonitorsOK, PagesOK, Capped, NEW o \in Orgs, PlanChanged(o), UNCHANGED <<monitors, pages>>
  PROVE  Capped'
<1>1. PICK to \in Plans : /\ plan' = [plan EXCEPT ![o] = to]
                          /\ peak' = IF Rank(to) > Rank(peak[o]) THEN [peak EXCEPT ![o] = to] ELSE peak
  BY DEF PlanChanged
<1>2. plan' \in [Orgs -> Plans] /\ peak' \in [Orgs -> Plans]
  BY <1>1 DEF Capped, PlansOK
<1>3. ASSUME NEW x \in Orgs
      PROVE  Rank(peak[x]) <= Rank(peak'[x]) /\ Rank(plan'[x]) <= Rank(peak'[x])
  <2>1. /\ plan[x] \in Plans /\ peak[x] \in Plans /\ Rank(plan[x]) \in Nat /\ Rank(peak[x]) \in Nat
        /\ Rank(to) \in Nat /\ Rank(plan[x]) <= Rank(peak[x])
    BY Ranks DEF Capped, PlansOK
  <2>2. plan'[x] = IF x = o THEN to ELSE plan[x]
    BY <1>1 DEF Capped, PlansOK
  <2>3. peak'[x] = IF x = o /\ Rank(to) > Rank(peak[o]) THEN to ELSE peak[x]
    BY <1>1 DEF Capped, PlansOK
  <2>4. CASE x = o /\ Rank(to) > Rank(peak[o])
    <3>1. plan'[x] = to /\ peak'[x] = to
      BY <2>2, <2>3, <2>4
    <3> QED BY <2>1, <2>4, <3>1
  <2>5. CASE x = o /\ ~ (Rank(to) > Rank(peak[o]))
    <3>1. plan'[x] = to /\ peak'[x] = peak[x]
      BY <2>2, <2>3, <2>5
    <3> QED BY <2>1, <2>5, <3>1
  <2>6. CASE x # o
    <3>1. plan'[x] = plan[x] /\ peak'[x] = peak[x]
      BY <2>2, <2>3, <2>6
    <3> QED BY <2>1, <3>1
  <2> QED BY <2>4, <2>5, <2>6
<1>4. PlansOK'
  BY <1>2, <1>3 DEF PlansOK, Rank
<1>5. req' = req
  BY DEF PlanChanged
<1>6. ASSUME NEW x \in Orgs
      PROVE  /\ CapOf(x) \in Nat /\ CapOf(x)' \in Nat /\ CapOf(x) <= CapOf(x)'
             /\ PageCaps[peak[x]] \in Nat /\ PageCaps[peak'[x]] \in Nat /\ PageCaps[peak[x]] <= PageCaps[peak'[x]]
  <2>1. peak[x] \in Plans /\ peak'[x] \in Plans /\ Rank(peak[x]) <= Rank(peak'[x])
    BY <1>2, <1>3 DEF Capped, PlansOK
  <2> QED BY <2>1, MonitorsAssumption, PagesAssumption DEF CapOf
<1>7. ASSUME NEW x
      PROVE  /\ Soon(x)' = Soon(x) /\ Inserting(x)' = Inserting(x) /\ Paging(x)' = Paging(x)
             /\ CountStatusPages(x)' = CountStatusPages(x)
  BY <1>5 DEF Soon, ToEnable, Enabling, Enabled, Inserting, Paging, CountStatusPages, WithOrg
<1>8. MonitorCapOK'
  <2> SUFFICES ASSUME NEW x \in Orgs
               PROVE  (Cardinality(Soon(x)) + Cardinality(Inserting(x)) <= CapOf(x) + Cardinality(Clients) - 1)'
    BY DEF MonitorCapOK
  <2>1. Cardinality(Soon(x)) + Cardinality(Inserting(x)) <= CapOf(x) + Cardinality(Clients) - 1
    BY DEF Capped, MonitorCapOK
  <2>2. Cardinality(Soon(x)) + Cardinality(Inserting(x)) <= CapOf(x)' + Cardinality(Clients) - 1
    BY <1>6, <2>1, Sizes
  <2> QED BY <1>7, <2>2
<1>9. PageCapOK'
  <2> SUFFICES ASSUME NEW x \in Orgs
               PROVE  (CountStatusPages(x) + Cardinality(Paging(x)) <= PageCaps[peak[x]] + Cardinality(Clients) - 1)'
    BY DEF PageCapOK
  <2>1. CountStatusPages(x) + Cardinality(Paging(x)) <= PageCaps[peak[x]] + Cardinality(Clients) - 1
    BY DEF Capped, PageCapOK
  <2>2. CountStatusPages(x) + Cardinality(Paging(x)) <= PageCaps[peak'[x]] + Cardinality(Clients) - 1
    BY <1>6, <2>1, Sizes
  <2> QED BY <1>7, <2>2
<1> QED BY <1>4, <1>8, <1>9 DEF Capped

\* A request that will add a monitor counted first, or the monitor is one of
\* those already counted.
LEMMA MonitorAsked ==
  ASSUME Quiet, MonitorsOK, PagesOK, Capped, UNCHANGED <<plan, peak, monitors, pages>>,
         NEW c \in Clients, NEW o \in Orgs, NEW r, Asks(c, r),
         r.op \in {"insertMonitor", "overwriteMonitor"}, r.m.org = o,
         \/ ~ r.m.enabled
         \/ CountEnabledMonitors(o) < monitorLimitsOf(o).cap
         \/ r.op = "overwriteMonitor" /\ r.id \in Enabled(o)
  PROVE  Capped'
<1>1. PlansOK /\ RequestsOK
  BY DEF Capped, Quiet
<1>2. ASSUME NEW x PROVE ~ AddsPage(r, x) /\ (x # o \/ ~ r.m.enabled => ~ AddsMonitor(r, x))
  BY DEF AddsPage, AddsMonitor
<1>3. ASSUME NEW x PROVE Enabled(x)' = Enabled(x) /\ WithOrg(pages, x)' = WithOrg(pages, x)
  BY DEF Enabled, WithOrg
<1>4. PageCapOK'
  <2>1. ASSUME NEW x PROVE Paging(x)' \subseteq Paging(x)
    BY <1>1, <1>2, Asked
  <2> QED BY <1>1, <1>3, <2>1, PagesFewer DEF Capped, PageCapOK
<1>5. PlansOK'
  BY <1>1 DEF PlansOK
<1>6. ASSUME NEW x \in Orgs, x # o \/ ~ r.m.enabled
      PROVE  (Cardinality(Soon(x)) + Cardinality(Inserting(x)) <= CapOf(x) + Cardinality(Clients) - 1)'
  <2>1. ToEnable(x)' \subseteq ToEnable(x) /\ Inserting(x)' \subseteq Inserting(x)
    BY <1>1, <1>2, <1>6, Asked
  <2>2. Soon(x)' \subseteq Soon(x)
    BY <1>3, <2>1 DEF Soon
  <2> QED BY <1>1, <2>1, <2>2, MonitorsFewer DEF Capped
<1>7. ASSUME CountEnabledMonitors(o) < monitorLimitsOf(o).cap
      PROVE  (Cardinality(Soon(o)) + Cardinality(Inserting(o)) <= CapOf(o) + Cardinality(Clients) - 1)'
  <2>1. PICK E, A, I, f : /\ E = Enabled(o) /\ A = Enabling(o)' /\ I = Inserting(o)'
                          /\ f = [d \in Clients |-> req'[d].id]
    OBVIOUS
  <2>2. A \subseteq Clients /\ I \subseteq Clients /\ A \cap I = {}
    BY <2>1 DEF Enabling, Inserting
  <2>3. Soon(o)' = E \cup {f[d] : d \in A}
    BY <1>3, <2>1, <2>2 DEF Soon, ToEnable
  <2>4. CapOf(o) \in Nat /\ CapOf(o)' = CapOf(o) /\ monitorLimitsOf(o).cap \in Nat /\ monitorLimitsOf(o).cap <= CapOf(o)
    BY <1>1, PlanCaps DEF CapOf
  <2>5. IsFiniteSet(E) /\ Cardinality(E) \in Nat /\ Cardinality(E) < CapOf(o)
    BY <1>7, <2>1, <2>4, Sizes DEF CountEnabledMonitors, Enabled
  <2>6. Cardinality(E \cup {f[d] : d \in A}) + Cardinality(I) <= CapOf(o) + Cardinality(Clients) - 1
    BY <2>2, <2>4, <2>5, CountedFits
  <2> QED BY <2>1, <2>3, <2>4, <2>6
<1>8. ASSUME r.op = "overwriteMonitor", r.id \in Enabled(o)
      PROVE  (Cardinality(Soon(o)) + Cardinality(Inserting(o)) <= CapOf(o) + Cardinality(Clients) - 1)'
  <2>1. \A d \in Clients : req'[d] = IF d = c THEN r ELSE req[d]
    BY <1>1 DEF RequestsOK, Asks
  <2>2. Inserting(o)' \subseteq Inserting(o) /\ Enabling(o)' \subseteq Enabling(o) \cup {c}
    BY <1>8, <2>1 DEF Inserting, Enabling
  <2>3. ToEnable(o)' \subseteq ToEnable(o) \cup {r.id}
    BY <2>1, <2>2 DEF ToEnable, Enabling
  <2>4. Soon(o)' \subseteq Soon(o)
    BY <1>3, <1>8, <2>3 DEF Soon
  <2> QED BY <1>1, <2>2, <2>4, MonitorsFewer DEF Capped
<1>9. MonitorCapOK'
  BY <1>6, <1>7, <1>8 DEF MonitorCapOK
<1> QED BY <1>4, <1>5, <1>9 DEF Capped

\* A page that is about to be inserted was counted first.
LEMMA PageAsked ==
  ASSUME Quiet, MonitorsOK, PagesOK, Capped, UNCHANGED <<plan, peak, monitors, pages>>,
         NEW c \in Clients, NEW o \in Orgs, NEW r, Asks(c, r), r.op = "insertPage", r.sp.org = o,
         CountStatusPages(o) < statusPageCap(o)
  PROVE  Capped'
<1>1. PlansOK /\ RequestsOK
  BY DEF Capped, Quiet
<1>2. ASSUME NEW x PROVE ~ AddsMonitor(r, x) /\ (x # o => ~ AddsPage(r, x))
  BY DEF AddsPage, AddsMonitor
<1>3. ASSUME NEW x PROVE Enabled(x)' = Enabled(x) /\ WithOrg(pages, x)' = WithOrg(pages, x)
  BY DEF Enabled, WithOrg
<1>4. MonitorCapOK'
  <2>1. ASSUME NEW x PROVE ToEnable(x)' \subseteq ToEnable(x) /\ Inserting(x)' \subseteq Inserting(x)
    BY <1>1, <1>2, Asked
  <2>2. ASSUME NEW x PROVE Soon(x)' \subseteq Soon(x)
    BY <1>3, <2>1 DEF Soon
  <2> QED BY <1>1, <2>1, <2>2, MonitorsFewer DEF Capped, MonitorCapOK
<1>5. PlansOK'
  BY <1>1 DEF PlansOK
<1>6. ASSUME NEW x \in Orgs, x # o
      PROVE  (CountStatusPages(x) + Cardinality(Paging(x)) <= PageCaps[peak[x]] + Cardinality(Clients) - 1)'
  <2>1. Paging(x)' \subseteq Paging(x)
    BY <1>1, <1>2, <1>6, Asked
  <2> QED BY <1>1, <1>3, <2>1, PagesFewer DEF Capped
<1>7. (CountStatusPages(o) + Cardinality(Paging(o)) <= PageCaps[peak[o]] + Cardinality(Clients) - 1)'
  <2>1. PICK J, n, k : J = Paging(o)' /\ n = CountStatusPages(o) /\ k = PageCaps[peak[o]]
    OBVIOUS
  <2>2. n \in Nat /\ k \in Nat /\ n < k /\ Cardinality(Clients) \in Nat
    BY <1>1, <2>1, PlanCaps, Sizes
  <2>3. J \subseteq Clients
    BY <2>1 DEF Paging
  <2>4. IsFiniteSet(J) /\ Cardinality(J) <= Cardinality(Clients)
    BY <2>3, TenantAssumption, FS_Subset
  <2>5. Cardinality(J) \in Nat
    BY <2>4, FS_CardinalityType
  <2>6. n + Cardinality(J) <= k + Cardinality(Clients) - 1
    BY <2>2, <2>4, <2>5
  <2> QED BY <1>3, <2>1, <2>6 DEF CountStatusPages
<1>8. PageCapOK'
  BY <1>6, <1>7 DEF PageCapOK
<1> QED BY <1>4, <1>5, <1>8 DEF Capped

LEMMA CapsStill ==
  ASSUME Quiet, MonitorsOK, PagesOK, Capped, UNCHANGED <<plan, peak, monitors, pages>>, NEW c \in Clients, Idle(c)
  PROVE  Capped'
<1>1. \A x : Enabled(x)' \subseteq Enabled(x) /\ WithOrg(pages, x)' \subseteq WithOrg(pages, x)
  BY DEF Enabled, WithOrg
<1> QED BY <1>1, CapsFewer

LEMMA CapsOfMonitorRequests ==
  ASSUME Quiet, MonitorsOK, PagesOK, Capped, NEW c \in Clients, NEW p \in Actors, MonitorRequest(c, p)
  PROVE  Capped'
<1>1. UNCHANGED <<plan, peak, monitors, pages>>
  BY MonitorRequests DEF monitorVars, pageVars
<1>2. p.org \in Orgs
  BY TenantAssumption DEF ActorRecord
<1>3. CASE ListMonitors(c, p) \/ \E id \in Ids(monSeq) : GetMonitor(c, p, id)
  <2>1. Idle(c)
    BY <1>3, Idles DEF ListMonitors, GetMonitor
  <2> QED BY <1>1, <2>1, CapsStill
<1>4. ASSUME NEW in \in MonitorInputs, CreateMonitor(c, p, in) PROVE Capped'
  <2>1. PICK r : r = [op |-> "insertMonitor", m |-> monitorFromInput(p.org, in)]
    OBVIOUS
  <2>2. r.op = "insertMonitor" /\ r.m.org = p.org /\ r.m.enabled = in.enabled
    BY <2>1 DEF monitorFromInput
  <2>3. CASE Idle(c)
    BY <1>1, <2>3, CapsStill
  <2>4. CASE Hold(c, r) /\ ~ (in.enabled /\ CountEnabledMonitors(p.org) >= monitorLimitsOf(p.org).cap)
    <3>1. Asks(c, r)
      BY <2>4 DEF Hold, Asks
    <3>2. ~ r.m.enabled \/ CountEnabledMonitors(p.org) < monitorLimitsOf(p.org).cap
      <4>1. CountEnabledMonitors(p.org) \in Nat /\ monitorLimitsOf(p.org).cap \in Nat
        BY <1>2, PlanCaps, Sizes DEF CountEnabledMonitors, Enabled, Capped
      <4> QED BY <2>2, <2>4, <4>1
    <3> QED BY <1>1, <1>2, <2>2, <3>1, <3>2, MonitorAsked
  <2> QED BY <1>4, <2>1, <2>3, <2>4, Idles DEF CreateMonitor
<1>5. ASSUME NEW in \in MonitorInputs, NEW id \in Ids(monSeq), UpdateMonitor(c, p, id, in) PROVE Capped'
  <2>1. PICK r : r = [op |-> "overwriteMonitor", id |-> id, m |-> monitorFromInput(p.org, in)]
    OBVIOUS
  <2>2. r.op = "overwriteMonitor" /\ r.id = id /\ r.m.org = p.org /\ r.m.enabled = in.enabled
    BY <2>1 DEF monitorFromInput
  <2>3. CASE Idle(c)
    BY <1>1, <2>3, CapsStill
  <2>4. PICK old : old = Pool_GetMonitor(p.org, id)
    OBVIOUS
  <2>5. CASE /\ old # None /\ Hold(c, r)
             /\ ~ (in.enabled /\ ~ old.enabled /\ CountEnabledMonitors(p.org) >= monitorLimitsOf(p.org).cap)
    <3>1. Asks(c, r)
      BY <2>5 DEF Hold, Asks
    <3>2. id \in WithOrg(monitors, p.org) /\ old = scanMonitor(monitors[id])
      BY <2>4, <2>5 DEF Pool_GetMonitor
    <3>3. old.enabled = monitors[id].enabled
      BY <3>2 DEF scanMonitor, MonitorsOK, IsMonitor, WithOrg
    <3>4. \/ ~ r.m.enabled \/ CountEnabledMonitors(p.org) < monitorLimitsOf(p.org).cap
          \/ r.id \in Enabled(p.org)
      <4>1. CountEnabledMonitors(p.org) \in Nat /\ monitorLimitsOf(p.org).cap \in Nat
        BY <1>2, PlanCaps, Sizes DEF CountEnabledMonitors, Enabled, Capped
      <4>2. CASE ~ in.enabled
        BY <2>2, <4>2
      <4>3. CASE old.enabled
        BY <2>2, <3>2, <3>3, <4>3 DEF Enabled
      <4>4. CASE ~ (CountEnabledMonitors(p.org) >= monitorLimitsOf(p.org).cap)
        BY <4>1, <4>4
      <4> QED BY <2>5, <4>2, <4>3, <4>4
    <3> QED BY <1>1, <1>2, <2>2, <3>1, <3>4, MonitorAsked
  <2> QED BY <1>5, <2>1, <2>3, <2>4, <2>5, Idles DEF UpdateMonitor
<1> QED BY <1>3, <1>4, <1>5 DEF MonitorRequest

LEMMA CapsOfRemoval ==
  ASSUME Quiet, MonitorsOK, PagesOK, Capped, NEW c \in Clients, NEW p, RemoveMonitor(c, p)
  PROVE  Capped'
<1>1. PICK id : DeleteMonitor(c, p, id) /\ CascadeMonitors({id} \cap WithOrg(monitors, p.org))
  BY DEF RemoveMonitor
<1>2. UNCHANGED <<plan, peak, pages>> /\ Idle(c)
  BY <1>1, Idles DEF DeleteMonitor, CascadeMonitors, Request
<1>3. PICK gone : monitors' = Drop(monitors, gone)
  BY <1>1 DEF DeleteMonitor, Pool_DeleteMonitor
<1>4. \A x : Enabled(x)' \subseteq Enabled(x) /\ WithOrg(pages, x)' \subseteq WithOrg(pages, x)
  BY <1>2, <1>3 DEF Enabled, WithOrg, Drop
<1> QED BY <1>2, <1>4, CapsFewer

LEMMA CapsOfChannels ==
  ASSUME Quiet, MonitorsOK, PagesOK, Capped, NEW c \in Clients, NEW p, ChannelRequest(c, p)
  PROVE  Capped'
<1>1. UNCHANGED <<monitors, pages>>
  BY DEF ChannelRequest, monitorVars, pageVars
<1>2. ASSUME UNCHANGED <<plan, peak>>, Idle(c) PROVE Capped'
  BY <1>1, <1>2, CapsStill
<1>3. CASE \/ GetChannelTypes(c, p) \/ ListChannels(c, p) \/ ListWebhooks(c, p)
           \/ \E in \in ChannelInputs : CreateChannel(c, p, in)
           \/ \E id \in Ids(chSeq) : DeleteChannel(c, p, id) \/ TestChannel(c, p, id)
           \/ \E id \in Ids(hookSeq) : GetWebhook(c, p, id) \/ DeleteWebhook(c, p, id)
  <2>1. CASE GetChannelTypes(c, p) \/ ListChannels(c, p) \/ ListWebhooks(c, p)
    BY <1>2, <2>1, Idles DEF Request, GetChannelTypes, ListChannels, ListWebhooks
  <2>2. CASE \E in \in ChannelInputs : CreateChannel(c, p, in)
    BY <1>2, <2>2, Idles DEF Request, CreateChannel
  <2>3. ASSUME NEW id, TestChannel(c, p, id) PROVE Capped'
    <3>1. Idle(c)
      BY <2>3, Idles, ZenonT(40) DEF TestChannel
    <3> QED BY <1>2, <2>3, <3>1 DEF TestChannel, Request
  <2>4. CASE \E id \in Ids(chSeq) : DeleteChannel(c, p, id)
    BY <1>2, <2>4, Idles DEF Request, DeleteChannel
  <2>5. CASE \E id \in Ids(hookSeq) : GetWebhook(c, p, id) \/ DeleteWebhook(c, p, id)
    BY <1>2, <2>5, Idles DEF Request, GetWebhook, DeleteWebhook
  <2> QED BY <1>3, <2>1, <2>2, <2>3, <2>4, <2>5
<1>4. ASSUME NEW id, NEW in, UpdateChannel(c, p, id, in) PROVE Capped'
  <2>1. Idle(c)
    BY <1>4, Idles DEF UpdateChannel, IdleOp
  <2> QED BY <1>2, <1>4, <2>1 DEF UpdateChannel, Request
<1>5. ASSUME NEW in, CreateWebhook(c, p, in) PROVE Capped'
  <2>1. Idle(c)
    BY <1>5, Idles DEF CreateWebhook, IdleOp
  <2> QED BY <1>2, <1>5, <2>1 DEF CreateWebhook, Request
<1>6. ASSUME NEW id, RotateWebhookSecret(c, p, id) PROVE Capped'
  <2>1. Idle(c)
    BY <1>6, Idles DEF RotateWebhookSecret, IdleOp
  <2> QED BY <1>2, <1>6, <2>1 DEF RotateWebhookSecret, Request
<1>7. ASSUME NEW id, NEW in, UpdateWebhook(c, p, id, in) PROVE Capped'
  <2>1. Idle(c)
    BY <1>7, Idles DEF UpdateWebhook, IdleOp
  <2> QED BY <1>2, <1>7, <2>1 DEF UpdateWebhook, Request
<1> QED BY <1>3, <1>4, <1>5, <1>6, <1>7 DEF ChannelRequest

LEMMA CapsOfPageRequests ==
  ASSUME Quiet, MonitorsOK, PagesOK, Capped, NEW c \in Clients, NEW p \in Actors, PageRequest(c, p)
  PROVE  Capped'
<1>1. UNCHANGED monitors
  BY DEF PageRequest, monitorVars
<1>2. p.org \in Orgs
  BY TenantAssumption DEF ActorRecord
<1>3. ASSUME UNCHANGED <<plan, peak, pages>>, Idle(c) PROVE Capped'
  BY <1>1, <1>3, CapsStill
<1>4. CASE \/ ListStatusPages(c, p)
           \/ \E id \in Ids(pageSeq) : GetStatusPage(c, p, id)
           \/ \E in \in PageInputs : GetPublicStatusPage(c, in.slug)
  BY <1>3, <1>4, Idles DEF Request, ListStatusPages, GetStatusPage, GetPublicStatusPage, pageVars
<1>5. ASSUME NEW in \in PageInputs, CreateStatusPage(c, p, in) PROVE Capped'
  <2>1. PICK r : r = [op |-> "insertPage", sp |-> statusPageFromInput(p.org, in), shown |-> in.shown]
    OBVIOUS
  <2>2. r.op = "insertPage" /\ r.sp.org = p.org
    BY <2>1 DEF statusPageFromInput
  <2>3. UNCHANGED <<plan, peak, pages>>
    BY <1>5 DEF CreateStatusPage, Request, pageVars
  <2>4. CASE Idle(c)
    BY <1>3, <2>3, <2>4
  <2>5. CASE Hold(c, r) /\ ~ PageCapReached(p.org)
    <3>1. Asks(c, r)
      BY <2>5 DEF Hold, Asks
    <3>2. CountStatusPages(p.org) \in Nat /\ statusPageCap(p.org) \in Nat
      BY <1>2, PlanCaps, Sizes DEF Capped
    <3>3. CountStatusPages(p.org) < statusPageCap(p.org)
      BY <2>5, <3>2 DEF PageCapReached
    <3> QED BY <1>1, <1>2, <2>2, <2>3, <3>1, <3>3, PageAsked
  <2> QED BY <1>5, <2>1, <2>4, <2>5, Idles DEF CreateStatusPage
<1>6. ASSUME NEW id, DeleteStatusPage(c, p, id) PROVE Capped'
  <2>1. UNCHANGED <<plan, peak>> /\ Idle(c)
    BY <1>6, Idles DEF DeleteStatusPage, Request
  <2>2. PICK gone : pages' = Drop(pages, gone)
    BY <1>6 DEF DeleteStatusPage, Pool_DeleteStatusPage
  <2>3. \A x : Enabled(x)' \subseteq Enabled(x) /\ WithOrg(pages, x)' \subseteq WithOrg(pages, x)
    BY <1>1, <2>2 DEF Enabled, WithOrg, Drop
  <2> QED BY <2>1, <2>3, CapsFewer
<1>7. ASSUME NEW id, NEW in, UpdateStatusPage(c, p, id, in) PROVE Capped'
  <2>1. Idle(c)
    BY <1>7, Idles DEF UpdateStatusPage, IdleOp
  <2> QED BY <1>3, <1>7, <2>1 DEF UpdateStatusPage, Request, pageVars
<1>8. ASSUME NEW id, NEW on, PublishStatusPage(c, p, id, on) PROVE Capped'
  <2>1. Idle(c)
    BY <1>8, Idles DEF PublishStatusPage, IdleOp
  <2> QED BY <1>3, <1>8, <2>1 DEF PublishStatusPage, Request, pageVars
<1> QED BY <1>4, <1>5, <1>6, <1>7, <1>8 DEF PageRequest

\* The row is written: one more of the rows, one request fewer.
LEMMA MonitorInserted ==
  ASSUME Quiet, MonitorsOK, PagesOK, Capped, NEW c \in Clients, InsertMonitor(c), UNCHANGED pages
  PROVE  Capped'
<1>1. PlansOK /\ RequestsOK /\ UNCHANGED <<plan, peak>> /\ req[c] # None /\ req[c].op = "insertMonitor"
  BY DEF Capped, Quiet, InsertMonitor, Resume
<1>2. Asks(c, None)
  BY DEF InsertMonitor, Reply, Asks
<1>3. \A d \in Clients : req'[d] = IF d = c THEN None ELSE req[d]
  BY <1>1, <1>2 DEF Asks, RequestsOK
<1>4. ASSUME NEW x PROVE ~ AddsMonitor(None, x) /\ ~ AddsPage(None, x)
  BY DEF AddsMonitor, AddsPage
<1>5. ASSUME NEW x PROVE ToEnable(x)' \subseteq ToEnable(x) /\ Inserting(x)' \subseteq Inserting(x) /\ Paging(x)' \subseteq Paging(x)
  BY <1>1, <1>2, <1>4, Asked
<1>6. PageCapOK'
  <2>1. ASSUME NEW x PROVE WithOrg(pages, x)' \subseteq WithOrg(pages, x)
    BY DEF WithOrg
  <2> QED BY <1>1, <1>5, <2>1, PagesFewer DEF Capped, PageCapOK
<1>7. PlansOK'
  BY <1>1 DEF PlansOK
<1>8. PICK m, n : m = req[c].m /\ n = monSeq + 1
  OBVIOUS
<1>9. ClearMonitor(m)
  BY <1>1, <1>8 DEF RequestsOK, Carried
<1>10. PICK row : row = monitorRow(m) /\ row.org = m.org /\ row.enabled = m.enabled
  BY <1>9, MonitorStored
<1>11. monitors' = Put(monitors, n, row)
  BY <1>8, <1>10 DEF InsertMonitor, Pool_CreateMonitor
<1>12. ASSUME NEW x, x # m.org \/ ~ m.enabled PROVE Enabled(x)' \subseteq Enabled(x)
  BY <1>10, <1>11, <1>12 DEF Enabled, WithOrg, Put
<1>13. ASSUME NEW x PROVE Enabled(x)' \subseteq Enabled(x) \cup {n}
  BY <1>11 DEF Enabled, WithOrg, Put
<1>14. ASSUME NEW x \in Orgs
       PROVE  (Cardinality(Soon(x)) + Cardinality(Inserting(x)) <= CapOf(x) + Cardinality(Clients) - 1)'
  <2>1. CASE x # m.org \/ ~ m.enabled
    <3>1. Soon(x)' \subseteq Soon(x)
      BY <1>5, <1>12, <2>1 DEF Soon
    <3> QED BY <1>1, <1>5, <3>1, MonitorsFewer DEF Capped
  <2>2. CASE x = m.org /\ m.enabled
    <3>1. c \in Inserting(x) /\ Inserting(x)' \subseteq Inserting(x) \ {c}
      BY <1>1, <1>3, <1>8, <2>2 DEF Inserting
    <3>2. Soon(x)' \subseteq Soon(x) \cup {n}
      BY <1>5, <1>13 DEF Soon
    <3>3. PICK S, I, T, J, k : /\ S = Soon(x) /\ I = Inserting(x) /\ T = Soon(x)' /\ J = Inserting(x)' /\ k = CapOf(x)
      OBVIOUS
    <3>4. IsFiniteSet(S) /\ IsFiniteSet(I) /\ Cardinality(S) \in Nat /\ Cardinality(I) \in Nat /\ Cardinality(Clients) \in Nat
      BY <3>3, Sizes
    <3>5. IsFiniteSet(S \cup {n}) /\ Cardinality(S \cup {n}) <= Cardinality(S) + 1
      <4>1. /\ IsFiniteSet(S \cup {n})
            /\ Cardinality(S \cup {n}) = IF n \in S THEN Cardinality(S) ELSE Cardinality(S) + 1
        BY <3>4, FS_AddElement, Zenon
      <4> QED BY <3>4, <4>1
    <3>6. IsFiniteSet(I \ {c}) /\ Cardinality(I \ {c}) = Cardinality(I) - 1
      BY <3>1, <3>3, <3>4, FS_RemoveElement
    <3>7. IsFiniteSet(T) /\ Cardinality(T) <= Cardinality(S \cup {n})
      BY <3>2, <3>3, <3>5, FS_Subset
    <3>8. IsFiniteSet(J) /\ Cardinality(J) <= Cardinality(I \ {c})
      BY <3>1, <3>3, <3>6, FS_Subset
    <3>9. Cardinality(T) \in Nat /\ Cardinality(J) \in Nat /\ Cardinality(S \cup {n}) \in Nat /\ Cardinality(I \ {c}) \in Nat
      BY <3>5, <3>6, <3>7, <3>8, FS_CardinalityType
    <3>10. k \in Nat /\ k = CapOf(x)'
      BY <1>1, <3>3, PlanCaps DEF CapOf
    <3>11. Cardinality(S) + Cardinality(I) <= k + Cardinality(Clients) - 1
      BY <3>3 DEF Capped, MonitorCapOK
    <3>12. Cardinality(T) + Cardinality(J) <= k + Cardinality(Clients) - 1
      BY <3>4, <3>5, <3>6, <3>7, <3>8, <3>9, <3>10, <3>11
    <3> QED BY <3>3, <3>10, <3>12
  <2> QED BY <2>1, <2>2
<1>15. MonitorCapOK'
  BY <1>14 DEF MonitorCapOK
<1> QED BY <1>6, <1>7, <1>15 DEF Capped

\* A row that an update enables was one of those to enable.
LEMMA MonitorOverwritten ==
  ASSUME Quiet, MonitorsOK, PagesOK, Capped, NEW c \in Clients, OverwriteMonitor(c), UNCHANGED pages
  PROVE  Capped'
<1>1. PlansOK /\ RequestsOK /\ UNCHANGED <<plan, peak>> /\ req[c] # None /\ req[c].op = "overwriteMonitor"
  BY DEF Capped, Quiet, OverwriteMonitor, Resume
<1>2. Idle(c)
  BY Idles DEF OverwriteMonitor
<1>3. PICK r : Asks(c, r) /\ \A x : ~ AddsMonitor(r, x) /\ ~ AddsPage(r, x)
  BY <1>2 DEF Idle
<1>4. ASSUME NEW x PROVE ToEnable(x)' \subseteq ToEnable(x) /\ Inserting(x)' \subseteq Inserting(x) /\ Paging(x)' \subseteq Paging(x)
  BY <1>1, <1>3, Asked
<1>5. CASE UNCHANGED monitors
  BY <1>1, <1>2, <1>5, CapsStill
<1>6. CASE req[c].id \in WithOrg(monitors, req[c].m.org) /\ Pool_UpdateMonitor(req[c].id, req[c].m)
  <2>1. PICK m, n : m = req[c].m /\ n = req[c].id
    OBVIOUS
  <2>2. ClearMonitor(m)
    BY <1>1, <2>1 DEF RequestsOK, Carried
  <2>3. PICK row : row = monitorRow(m) /\ row.org = m.org /\ row.enabled = m.enabled
    BY <2>2, MonitorStored
  <2>4. monitors' = Put(monitors, n, row)
    BY <1>6, <2>1, <2>3 DEF Pool_UpdateMonitor
  <2>5. ASSUME NEW x PROVE Soon(x)' \subseteq Soon(x)
    <3>1. CASE x = m.org /\ m.enabled
      <4>1. c \in Enabling(x)
        BY <1>1, <2>1, <3>1 DEF Enabling
      <4>2. n \in ToEnable(x)
        BY <2>1, <4>1 DEF ToEnable
      <4>3. Enabled(x)' \subseteq Enabled(x) \cup {n}
        BY <2>4 DEF Enabled, WithOrg, Put
      <4> QED BY <1>4, <4>2, <4>3 DEF Soon
    <3>2. CASE x # m.org \/ ~ m.enabled
      <4>1. Enabled(x)' \subseteq Enabled(x)
        BY <2>3, <2>4, <3>2 DEF Enabled, WithOrg, Put
      <4> QED BY <1>4, <4>1 DEF Soon
    <3> QED BY <3>1, <3>2
  <2>6. MonitorCapOK'
    BY <1>1, <1>4, <2>5, MonitorsFewer DEF Capped, MonitorCapOK
  <2>7. ASSUME NEW x PROVE WithOrg(pages, x)' \subseteq WithOrg(pages, x)
    BY DEF WithOrg
  <2>8. PageCapOK'
    BY <1>1, <1>4, <2>7, PagesFewer DEF Capped, PageCapOK
  <2>9. PlansOK'
    BY <1>1 DEF PlansOK
  <2> QED BY <2>6, <2>8, <2>9 DEF Capped
<1> QED BY <1>5, <1>6 DEF OverwriteMonitor

\* The second and third steps of the page handlers.
LEMMA CapsOfPageSteps ==
  ASSUME Quiet, MonitorsOK, PagesOK, Capped, NEW c \in Clients, UNCHANGED monitors,
         InsertPage(c) \/ WritePage(c) \/ SetStatusPageMonitors(c) \/ FlipPage(c)
  PROVE  Capped'
<1>1. PlansOK /\ RequestsOK /\ UNCHANGED <<plan, peak>> /\ req[c] # None
  BY DEF Capped, Quiet, InsertPage, WritePage, SetStatusPageMonitors, FlipPage, Resume
<1>2. Idle(c)
  BY Idles DEF InsertPage, WritePage, SetStatusPageMonitors, FlipPage, IdleOp
<1>3. PICK r : Asks(c, r) /\ \A x : ~ AddsMonitor(r, x) /\ ~ AddsPage(r, x)
  BY <1>2 DEF Idle
<1>4. ASSUME NEW x PROVE ToEnable(x)' \subseteq ToEnable(x) /\ Inserting(x)' \subseteq Inserting(x) /\ Paging(x)' \subseteq Paging(x)
  BY <1>1, <1>3, Asked
<1>5. CASE UNCHANGED pages
  BY <1>1, <1>2, <1>5, CapsStill
<1>6. ASSUME NEW id, NEW sp, id \in WithOrg(pages, sp.org), Pool_UpdateStatusPage(id, sp) PROVE Capped'
  <2>1. \A x : Enabled(x)' \subseteq Enabled(x)
    BY DEF Enabled, WithOrg
  <2>2. \A x : WithOrg(pages, x)' \subseteq WithOrg(pages, x)
    BY <1>6 DEF Pool_UpdateStatusPage, WithOrg, Put
  <2> QED BY <1>1, <1>2, <2>1, <2>2, CapsFewer
<1>7. CASE InsertPage(c) /\ ~ UNCHANGED pages
  <2>1. PICK sp, n : sp = req[c].sp /\ n = pageSeq + 1
    OBVIOUS
  <2>2. pages' = Put(pages, n, sp) /\ req[c].op = "insertPage"
    BY <1>7, <2>1 DEF InsertPage, Pool_CreateStatusPage, pageVars, Resume
  <2>3. \A x : Enabled(x)' = Enabled(x)
    BY DEF Enabled, WithOrg
  <2>4. \A x : Soon(x)' \subseteq Soon(x)
    BY <1>4, <2>3 DEF Soon
  <2>5. MonitorCapOK'
    BY <1>1, <1>4, <2>4, MonitorsFewer DEF Capped, MonitorCapOK
  <2>6. PlansOK'
    BY <1>1 DEF PlansOK
  <2>7. ASSUME NEW x \in Orgs
        PROVE  (CountStatusPages(x) + Cardinality(Paging(x)) <= PageCaps[peak[x]] + Cardinality(Clients) - 1)'
    <3>1. CASE x # sp.org
      <4>1. WithOrg(pages, x)' \subseteq WithOrg(pages, x)
        BY <2>2, <3>1 DEF WithOrg, Put
      <4> QED BY <1>1, <1>4, <4>1, PagesFewer DEF Capped
    <3>2. CASE x = sp.org
      <4>1. c \in Paging(x) /\ Paging(x)' \subseteq Paging(x) \ {c}
        <5>1. \A d \in Clients : req'[d] = IF d = c THEN r ELSE req[d]
          BY <1>1, <1>3 DEF Asks, RequestsOK
        <5>2. c \notin Paging(x)'
          BY <1>3, <5>1 DEF Paging, AddsPage
        <5>3. c \in Paging(x)
          BY <1>1, <2>1, <2>2, <3>2 DEF Paging
        <5> QED BY <1>4, <5>2, <5>3
      <4>2. WithOrg(pages, x)' \subseteq WithOrg(pages, x) \cup {n}
        BY <2>2 DEF WithOrg, Put
      <4>3. PICK S, I, T, J, k : /\ S = WithOrg(pages, x) /\ I = Paging(x) /\ T = WithOrg(pages, x)' /\ J = Paging(x)'
                                 /\ k = PageCaps[peak[x]]
        OBVIOUS
      <4>4. IsFiniteSet(S) /\ IsFiniteSet(I) /\ Cardinality(S) \in Nat /\ Cardinality(I) \in Nat /\ Cardinality(Clients) \in Nat
        BY <4>3, Sizes DEF CountStatusPages
      <4>5. IsFiniteSet(S \cup {n}) /\ Cardinality(S \cup {n}) <= Cardinality(S) + 1
        <5>1. /\ IsFiniteSet(S \cup {n})
              /\ Cardinality(S \cup {n}) = IF n \in S THEN Cardinality(S) ELSE Cardinality(S) + 1
          BY <4>4, FS_AddElement, Zenon
        <5> QED BY <4>4, <5>1
      <4>6. IsFiniteSet(I \ {c}) /\ Cardinality(I \ {c}) = Cardinality(I) - 1
        BY <4>1, <4>3, <4>4, FS_RemoveElement
      <4>7. IsFiniteSet(T) /\ Cardinality(T) <= Cardinality(S \cup {n})
        BY <4>2, <4>3, <4>5, FS_Subset
      <4>8. IsFiniteSet(J) /\ Cardinality(J) <= Cardinality(I \ {c})
        BY <4>1, <4>3, <4>6, FS_Subset
      <4>9. Cardinality(T) \in Nat /\ Cardinality(J) \in Nat /\ Cardinality(S \cup {n}) \in Nat /\ Cardinality(I \ {c}) \in Nat
        BY <4>5, <4>6, <4>7, <4>8, FS_CardinalityType
      <4>10. k \in Nat /\ k = PageCaps[peak[x]]'
        BY <1>1, <4>3, PlanCaps
      <4>11. Cardinality(S) + Cardinality(I) <= k + Cardinality(Clients) - 1
        BY <4>3 DEF Capped, PageCapOK, CountStatusPages
      <4>12. Cardinality(T) + Cardinality(J) <= k + Cardinality(Clients) - 1
        BY <4>4, <4>5, <4>6, <4>7, <4>8, <4>9, <4>10, <4>11
      <4> QED BY <4>3, <4>10, <4>12 DEF CountStatusPages
    <3> QED BY <3>1, <3>2
  <2>8. PageCapOK'
    BY <2>7 DEF PageCapOK
  <2> QED BY <2>5, <2>6, <2>8 DEF Capped
<1>8. CASE SetStatusPageMonitors(c)
  BY <1>5, <1>8 DEF SetStatusPageMonitors
<1>9. CASE WritePage(c)
  BY <1>5, <1>6, <1>9 DEF WritePage
<1>10. CASE FlipPage(c)
  BY <1>5, <1>6, <1>10 DEF FlipPage
<1> QED BY <1>5, <1>7, <1>8, <1>9, <1>10

LEMMA CapsStart == Init => Capped
<1> SUFFICES ASSUME Init PROVE Capped
  OBVIOUS
<1>1. plan = [o \in Orgs |-> "tier1"] /\ peak = plan /\ \A c \in Clients : req[c] = None
  BY DEF Init, TenantInit
<1>2. PlansOK
  <2>1. "tier1" \in Plans
    BY DEF Plans
  <2>2. plan \in [Orgs -> Plans] /\ peak = plan
    BY <1>1, <2>1
  <2>3. ASSUME NEW o \in Orgs PROVE Rank(plan[o]) <= Rank(peak[o])
    BY <2>2, Ranks
  <2> QED BY <2>2, <2>3 DEF PlansOK
<1>3. DOMAIN << >> = {}
  OBVIOUS
<1>4. ASSUME NEW o PROVE Soon(o) = {} /\ Inserting(o) = {} /\ Paging(o) = {} /\ WithOrg(pages, o) = {}
  BY <1>1, <1>3 DEF Soon, Enabled, ToEnable, Enabling, Inserting, Paging, WithOrg, Init, MonitorsInit, PagesInit
<1>5. Cardinality(Clients) \in Nat \ {0}
  BY TenantAssumption, FS_CardinalityType, FS_EmptySet
<1>6. Cardinality({}) = 0
  BY FS_EmptySet
<1>7. MonitorCapOK
  <2> SUFFICES ASSUME NEW o \in Orgs
               PROVE  Cardinality(Soon(o)) + Cardinality(Inserting(o)) <= CapOf(o) + Cardinality(Clients) - 1
    BY DEF MonitorCapOK
  <2>1. Cardinality(Soon(o)) = 0 /\ Cardinality(Inserting(o)) = 0
    BY <1>4, <1>6
  <2> QED BY <1>2, <1>5, <2>1, PlanCaps
<1>8. PageCapOK
  <2> SUFFICES ASSUME NEW o \in Orgs
               PROVE  CountStatusPages(o) + Cardinality(Paging(o)) <= PageCaps[peak[o]] + Cardinality(Clients) - 1
    BY DEF PageCapOK
  <2>1. CountStatusPages(o) = 0 /\ Cardinality(Paging(o)) = 0
    BY <1>4, <1>6 DEF CountStatusPages
  <2> QED BY <1>2, <1>5, <2>1, PlanCaps
<1> QED BY <1>2, <1>7, <1>8 DEF Capped

LEMMA CapsStep ==
  ASSUME TenantInv, Capped, [Next]_vars
  PROVE  Capped'
<1> USE DEF TenantInv, RowsOK
<1>1. ASSUME NEW c \in Clients, NEW p \in Actors,
             MonitorRequest(c, p) \/ RemoveMonitor(c, p) \/ ChannelRequest(c, p) \/ PageRequest(c, p)
      PROVE  Capped'
  BY <1>1, CapsOfMonitorRequests, CapsOfRemoval, CapsOfChannels, CapsOfPageRequests
<1>2. ASSUME NEW c \in Clients, NextStep(c) PROVE Capped'
  <2>1. CASE (InsertMonitor(c) \/ OverwriteMonitor(c)) /\ UNCHANGED <<channelVars, pageVars>>
    BY <2>1, MonitorInserted, MonitorOverwritten DEF pageVars
  <2>2. CASE (WriteChannel(c) \/ ShowSecret(c) \/ WriteHook(c)) /\ UNCHANGED <<monitorVars, pageVars>>
    <3>1. Idle(c) /\ UNCHANGED <<plan, peak>>
      BY <2>2, Idles DEF WriteChannel, ShowSecret, WriteHook, Resume
    <3> QED BY <2>2, <3>1, CapsStill DEF monitorVars, pageVars
  <2>3. CASE /\ InsertPage(c) \/ WritePage(c) \/ SetStatusPageMonitors(c) \/ FlipPage(c)
             /\ UNCHANGED <<monitorVars, channelVars>>
    BY <2>3, CapsOfPageSteps DEF monitorVars
  <2> QED BY <1>2, <2>1, <2>2, <2>3 DEF NextStep
<1>3. ASSUME Environment PROVE Capped'
  <2>1. CASE \E o \in Orgs : PlanChanged(o) /\ UNCHANGED <<monitorVars, channelVars, pageVars>>
    BY <2>1, PlanMoved DEF monitorVars, pageVars
  <2>2. ASSUME NEW c \in Clients, Abort(c), UNCHANGED <<monitorVars, channelVars, pageVars>> PROVE Capped'
    <3>1. Idle(c) /\ UNCHANGED <<plan, peak>>
      BY <2>2, Idles DEF Abort
    <3> QED BY <2>2, <3>1, CapsStill DEF monitorVars, pageVars
  <2>3. ASSUME NEW id, PipelineWrites(id), UNCHANGED <<channelVars, pageVars>> PROVE Capped'
    <3>1. UNCHANGED <<plan, peak, req, monitors, pages>>
      BY <2>3 DEF PipelineWrites, tenantVars, pageVars
    <3> QED BY <3>1 DEF Capped, PlansOK, MonitorCapOK, PageCapOK, Soon, Enabled, ToEnable, Enabling, Inserting,
                        Paging, WithOrg, CapOf, CountStatusPages
  <2> QED BY <1>3, <2>1, <2>2, <2>3 DEF Environment
<1>4. CASE UNCHANGED vars
  <2>1. UNCHANGED <<plan, peak, req, monitors, pages>>
    BY <1>4 DEF vars, tenantVars, monitorVars, pageVars
  <2> QED BY <2>1 DEF Capped, PlansOK, MonitorCapOK, PageCapOK, Soon, Enabled, ToEnable, Enabling, Inserting,
                      Paging, WithOrg, CapOf, CountStatusPages
<1> QED BY <1>1, <1>2, <1>3, <1>4 DEF Next

\* The plan caps on enabled monitors and status pages, counted in one
\* transaction and written in the next, are passed by at most one row for each
\* other request in flight, over the highest cap the org had (CreateMonitor,
\* UpdateMonitor, CreateStatusPage), for any number of clients.
THEOREM CapsSlip == Spec => []CapSlack
<1>1. TenantInv /\ Capped => CapSlack
  <2> SUFFICES ASSUME MonitorsOK, PagesOK, Capped, NEW o \in Orgs
               PROVE  /\ CountEnabledMonitors(o) <= MonitorResolver[peak[o]].cap + Cardinality(Clients) - 1
                      /\ CountStatusPages(o) <= PageCaps[peak[o]] + Cardinality(Clients) - 1
    BY DEF TenantInv, RowsOK, CapSlack
  <2>1. Cardinality(Enabled(o)) <= Cardinality(Soon(o))
    BY Sizes, FS_Subset DEF Soon
  <2>2. CapOf(o) \in Nat /\ PageCaps[peak[o]] \in Nat
    BY PlanCaps DEF Capped
  <2>3. Cardinality(Soon(o)) + Cardinality(Inserting(o)) <= CapOf(o) + Cardinality(Clients) - 1
    BY DEF Capped, MonitorCapOK
  <2>4. CountStatusPages(o) + Cardinality(Paging(o)) <= PageCaps[peak[o]] + Cardinality(Clients) - 1
    BY DEF Capped, PageCapOK
  <2>5. Cardinality(Enabled(o)) <= CapOf(o) + Cardinality(Clients) - 1
    BY <2>1, <2>2, <2>3, Sizes
  <2>6. CountStatusPages(o) <= PageCaps[peak[o]] + Cardinality(Clients) - 1
    BY <2>2, <2>4, Sizes
  <2> QED BY <2>5, <2>6 DEF CountEnabledMonitors, Enabled, CapOf
<1> QED BY <1>1, TenantInvariance, CapsStart, CapsStep, PTL DEF Spec
=============================================================================
