----------------------------- MODULE MCServices -----------------------------
(* The services one by one, and the api with the scheduler, whose jobs both
   carry a monitor; environments that are sound and that only look so. *)
EXTENDS Services

Base == {"region", "booleans", "postgres", "redis", "brokers", "secret", "jwt", "webhookSecret"}
Env(more, bus, provider) == [given |-> Base \cup more, bus |-> bus, provider |-> provider]

MCDeployments == {{"api"}, {"scheduler"}, {"worker"}, {"alerting"}, {"notifier"}, {"billing"}}
Both          == {{"api", "scheduler"}}
MCEnvs ==
  {Env({"googleID", "googleSecret"}, "redis", "stub"),
   Env({"githubID", "githubSecret", "paddleKey"}, "kafka", "paddle"),
   Env({"googleID"}, "redis", "stub"),
   Env({"devLogin"}, "kafka", "paddle"),
   [Env({"devLogin"}, "kafka", "stub") EXCEPT !.given = @ \ {"brokers"}]}
Plain == {Env({"devLogin"}, "kafka", "stub")}
=============================================================================
