---------------------------- MODULE MCTenantApi -----------------------------
(* A small instance of TenantApi: an admin and a key of one org, an admin of
   another, caps of one row, and inputs on both sides of each rule. *)
EXTENDS TenantApi

CONSTANTS o1, o2, u1, u2, secretValue, c1, c2

Text(x) == [kind |-> "text", val |-> x]

MCActors ==
  {[kind |-> "human", user |-> u1, org |-> o1, role |-> "member"],
   [kind |-> "human", user |-> u2, org |-> o2, role |-> "owner"],
   [kind |-> "api_key", user |-> 0, org |-> o1, role |-> "admin"]}

MCLimits == [p \in Plans |-> [monitorLimits[p] EXCEPT !.cap = IF p = "tier1" THEN 1 ELSE 2]]
MCCaps   == [p \in Plans |-> IF p = "tier1" THEN 0 ELSE 1]
MCMoves  == {<<"tier1", "tier3">>, <<"tier3", "tier1">>}

Http(enabled, interval) ==
  [type |-> "", name |-> "ok", url |-> "https", method |-> "", body |-> "none",
   expected |-> "ok", timeout |-> 10, interval |-> interval, enabled |-> enabled,
   latency |-> None, contains |-> "none", threshold |-> 1, regions |-> <<DefaultRegion>>,
   policy |-> "", headers |-> <<[key |-> "auth", secret |-> TRUE, value |-> secretValue]>>,
   channels |-> [ok |-> TRUE, ids |-> {1}]]
MCMonitorInputs == {Http(TRUE, 900), Http(FALSE, 60)}

MCChannelInputs ==
  {[name |-> "ok", type |-> "discord", enabled |-> TRUE, cfg |-> [webhook_url |-> Text(w)]] :
     w \in {secretValue, Blank}}
  \cup {[name |-> "ok", type |-> "telegram", enabled |-> FALSE,
         cfg |-> [bot_token |-> Text(Blank), chat_id |-> Text("42")]]}
MCHookInputs == {[url |-> "https", events |-> {"monitor.down"}, enabled |-> None]}
MCPageInputs ==
  {[name |-> "ok", slug |-> s, theme |-> "", accent |-> "", logo |-> "", shown |-> <<1>>] :
     s \in {"a", "b"}}
MCMembers == [o \in Orgs |-> {u1}]
=============================================================================
