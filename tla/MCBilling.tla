----------------------------- MODULE MCBilling ------------------------------
(* Two owners who may leave at once; a full org whose invitation is mailed   *)
(* over Kafka, and one with room that loses its plan, each with an           *)
(* invitation out; an owner who buys a plan.                                 *)
EXTENDS Billing, TLC

CONSTANTS u1, u2, u3, e4, e5, slug

Start(t, v, b, plan, second, guest) ==
  [topic |-> t, vendor |-> v, bus |-> b, plan |-> plan,
   roles |-> (u1 :> "owner" @@ u2 :> second @@ u3 :> None), guest |-> guest]
MemberStarts ==
  {Start("roles", "stub", "redis", "tier2", "owner", None),
   Start("seats", "stub", "kafka", "tier2", "viewer", u3),
   Start("seats", "paddle", "redis", "tier2", None, u3)}
BillingStarts ==
  {Start("seats", v, "redis", "tier1", None, None) : v \in {"stub", "paddle"}}

FewEvents == [stub |-> 0, paddle |-> 3]
MCEvents  == [stub |-> 2, paddle |-> 3]
MCPrices  == {[plan |-> "tier2", trial |-> t] : t \in BOOLEAN}
=============================================================================
