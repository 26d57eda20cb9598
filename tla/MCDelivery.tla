----------------------------- MODULE MCDelivery -----------------------------
(* A small instance of Delivery: an outage and its recovery over a
   Team email channel, an SMTP channel, an on-call channel and a disabled one. *)
EXTENDS Delivery

CONSTANTS m1, m2, key

Text(v) == [kind |-> "text", val |-> v]
MCMembers == {m1, m2}
MCScript ==
  <<[type |-> "down", inc |-> 1, test |-> FALSE],
    [type |-> "recovery", inc |-> 1, test |-> FALSE]>>
MCChannels ==
  <<[type |-> "email", enabled |-> TRUE,
     cfg |-> [members |-> [kind |-> "list", val |-> {m1, m2}]]],
    [type |-> "smtp", enabled |-> TRUE,
     cfg |-> [host |-> Text(key), from |-> Text(key), to |-> Text(key)]],
    [type |-> "pagerduty", enabled |-> TRUE, cfg |-> [routing_key |-> Text(key)]],
    [type |-> "slack", enabled |-> FALSE, cfg |-> [webhook_url |-> Text(key)]]>>
MCHooks == <<[id |-> 1, events |-> {}], [id |-> 2, events |-> {"monitor.down"}]>>
=============================================================================
