------------------------------ MODULE MCChecks ------------------------------
(* A small instance of Checks: one monitor, http or ssl, from two regions. *)
EXTENDS Checks

CONSTANTS m1, r1, r2

NewRow(type, interval, regions, expected, contains) ==
  [type |-> type, enabled |-> TRUE, interval |-> interval, regions |-> regions,
   policy |-> "quorum", expected |-> expected, latency |-> 5, contains |-> contains]
Code(n)  == [kind |-> "code", n |-> n]
Range(n) == [kind |-> "range", n |-> n]

MCConfigs ==
  <<NewRow("http", 1, <<r1, r2>>, <<Range(2), Code(404)>>, TRUE),
    NewRow("ssl", 1, <<r2, r1>>, << >>, FALSE)>>

Net(lookup, dials, answer, status, ms, has, cert, days) ==
  [lookup |-> lookup, dials |-> dials, answer |-> answer, status |-> status, ms |-> ms,
   read |-> "ok", has |-> has, cert |-> cert, days |-> days]
Reply(status, ms, has, cert, days) ==
  Net({"public"}, <<"public">>, "reply", status, ms, has, cert, days)

MCWorlds ==
  {Reply(s, 5, TRUE, "ok", 8) : s \in {200, 299, 300, 404, 405}}
  \cup {Reply(200, 6, TRUE, "ok", 7), Reply(200, 5, TRUE, "invalid", 8),
        Reply(200, 5, FALSE, "expired", 0), Reply(200, 5, TRUE, "none", 30),
        Reply(200, 5, TRUE, "ok", 0)}
  \cup {[Reply(200, 5, TRUE, "ok", 30) EXCEPT !.read = e] : e \in {"refused", "timeout"}}
  \cup {Net(l, ds, "reply", 200, 1, TRUE, "ok", 30) :
          l \in {{}, {"public"}, {"public", "private"}},
          ds \in {<<"public">>, <<"public", "loopback">>, <<"private">>}}
  \cup {Net({"public"}, <<"public">>, a, 200, 1, TRUE, "ok", 30) : a \in {"refused", "timeout"}}
=============================================================================
