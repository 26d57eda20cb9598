------------------------------ MODULE Billing -------------------------------
(***************************************************************************)
(* Billing: the webhook of the payment provider (internal/billing/         *)
(* ingest.go, stub.go and paddle/paddle.go over internal/store             *)
(* subscriptions.go, payments.go and billing_events.go), the self-serve    *)
(* and the operators' handlers (internal/api/billing_selfserve.go,         *)
(* billing_admin.go, admin.go).  The provider is outside: it makes an      *)
(* event of every change and posts it until it is answered with 200, in no *)
(* particular order.  Composed with the orgs and members of Members.       *)
(***************************************************************************)
EXTENDS Members

CONSTANTS
  Admins,            \* PULSE_PLATFORM_ADMINS
  Prices,            \* plan_prices: set of [plan, trial]
  Hooks,             \* webhook requests served at once
  Customs,           \* org ids a subscription's custom data may name besides its own
  Outcomes,          \* what becomes of a subscription: "active", "past_due", "canceled", "paid"
  OperatorPlans,     \* plans operators set
  Starts,            \* states org 1 may start in, see StartRecord
  MaxEvents,         \* bound: vendor -> events it makes
  MaxFaults          \* bound: calls that fail in a webhook, deliveries after a 200

ASSUME BillingAssumption ==
  /\ MaxFaults \in Nat /\ MaxEvents \in [{"stub", "paddle"} -> Nat] /\ 0 \notin Admins
  /\ Prices \subseteq [plan : Plans, trial : BOOLEAN]
  /\ None \notin Prices \cup [org : OrgIds, status : {"completed"}]

\* What a behaviour is about, the provider, the bus, and org 1: its plan, the
\* role of every user, and the address that is invited already, or None.
Topics == {"roles", "seats"}
StartRecord ==
  [topic : Topics, vendor : {"stub", "paddle"}, bus : {"kafka", "redis"}, plan : Plans,
   roles : [Users -> Roles \cup {None}], guest : InviteEmails \cup {None}]

\* An org has an owner from the start and whoever is in it.
ASSUME StartsAssumption ==
  /\ Starts \subseteq StartRecord /\ OperatorPlans \subseteq Plans
  /\ \A s \in Starts : \E u \in Users : s.roles[u] = "owner"

VARIABLES
  topic,             \* "roles", or "seats": invitations, their mail, plans and billing
  vendor,            \* "stub" or "paddle"
  subs,              \* subscriptions: org -> [plan, status, customer, ended, atEnd], or None
  payments,          \* payment id -> [org, status], or None
  sent,              \* the provider's events: id -> raw event
  answered,          \* events answered with 200
  recorded,          \* billing_events
  processed,         \* billing_events with processed_at
  hook,              \* webhook request -> [ev, pc, org], or None
  faults,
  newest,            \* history: org -> last subscription event applied
  stale,             \* history: orgs an older event was applied to after a newer one
  override,          \* history: orgs whose plan an operator set since the last event
  unresolved         \* history: events acknowledged without an org

hookVars == <<answered, recorded, processed, hook, faults, newest, stale, unresolved>>
billVars == <<subs, payments, sent, override, hookVars>>
vars == <<topic, vendor, memberVars, billVars>>

\* One org with a few members and perhaps an invitation that is out.
Init ==
  /\ \E s \in Starts :
       /\ topic = s.topic /\ vendor = s.vendor /\ bus = s.bus
       /\ orgs = <<[slug |-> 1, plan |-> s.plan]>>
       /\ members = [x \in OrgIds \X Users |-> IF x[1] = 1 THEN s.roles[x[2]] ELSE None]
       /\ invites = IF s.guest = None \/ topic = "roles" THEN << >>
                    ELSE <<[org |-> 1, email |-> s.guest, role |-> "viewer", state |-> "pending",
                            token |-> 1, over |-> FALSE]>>
  /\ rcache = members
  /\ minted = 1 /\ mailed = {1}
  /\ intents \in {<< >>} \cup
       IF topic = "roles" THEN {} ELSE {<<[kind |-> k, inv |-> None]>> : k \in OtherIntents}
  /\ acked = {} /\ dropped = {}
  /\ mailer = [m \in Mailers |-> None]
  /\ req = [c \in Clients |-> None] /\ served = 0
  /\ overlapped = {} /\ doubled = {} /\ overtaken = {}
  /\ subs = [o \in OrgIds |-> None] /\ payments = [x \in 1..MaxEvents[vendor] |-> None]
  /\ sent = << >> /\ answered = {} /\ recorded = {} /\ processed = {}
  /\ hook = [w \in Hooks |-> None] /\ faults = 0
  /\ newest = [o \in OrgIds |-> 0] /\ stale = {} /\ override = {} /\ unresolved = {}

-----------------------------------------------------------------------------
(* The provider's side: a raw event is [type, custom, customer, price,      *)
(* status, ending, pay]: custom is the org id put into the checkout, 0 when *)
(* absent, ending that a cancellation is scheduled.                         *)

\* PriceMaps, priceFor: a buyer without a trial gets the trialless price if
\* there is one, else the one with a trial.
priceFor(plan, trial) ==
  LET exact == {x \in Prices : x.plan = plan /\ x.trial = trial}
      any   == {x \in Prices : x.plan = plan /\ x.trial} IN
  IF exact # {} THEN exact ELSE any

Emit(raws) == Len(sent) + Len(raws) <= MaxEvents[vendor] /\ sent' = sent \o raws

RawSub(type, custom, o, price, status, ending) ==
  [type |-> type, custom |-> custom, customer |-> o, price |-> price, status |-> status,
   ending |-> ending, pay |-> None]
RawPayment(type, custom, o, pay) ==
  [type |-> type, custom |-> custom, customer |-> o, price |-> None, status |-> "completed",
   ending |-> FALSE, pay |-> pay]

subscriptionEvents ==
  {"subscription.created", "subscription.activated", "subscription.updated",
   "subscription.canceled", "subscription.past_due", "subscription.paused",
   "subscription.resumed", "subscription.trialing", "subscription.imported"}
paymentEvents == {"transaction.completed", "transaction.paid"}

KindOf(type) == IF type \in subscriptionEvents THEN "subscription"
                ELSE IF type \in paymentEvents THEN "payment" ELSE "unknown"

\* mapSubscription and mapTransaction: the plan is looked up by the price, and
\* stays empty for a price that is not in the table.
mapSubscription(raw) ==
  [kind |-> KindOf(raw.type), org |-> raw.custom, customer |-> raw.customer, pay |-> raw.pay,
   plan |-> IF raw.price \in Prices THEN raw.price.plan ELSE "", status |-> raw.status,
   ending |-> raw.ending]

\* The stub's envelope names the plan itself.
stubEvent(raw) ==
  [mapSubscription(raw) EXCEPT !.plan = IF raw.price = None THEN "" ELSE raw.price.plan]

VerifyWebhook(raw) == IF vendor = "stub" THEN stubEvent(raw) ELSE mapSubscription(raw)

\* The provider bills a subscription it has: renewals, failures, the end of a
\* period; what it sends may lack the custom data.
Subscribed(o) == {e \in DOMAIN sent : sent[e].customer = o /\ KindOf(sent[e].type) = "subscription"}
Current(o)    == sent[CHOOSE e \in Subscribed(o) : \A f \in Subscribed(o) : f <= e]
ProviderBills(o, custom, status) ==
  /\ Subscribed(o) # {} /\ Current(o).status # "canceled"
  /\ Emit(<<IF status = "paid" THEN RawPayment("transaction.paid", custom, o, Len(sent) + 1)
            ELSE RawSub("subscription.updated", custom, o, Current(o).price, status, FALSE)>>)
  /\ UNCHANGED <<topic, vendor, memberVars, subs, payments, override, hookVars>>

-----------------------------------------------------------------------------
(* The webhook *)

Fault == faults < MaxFaults /\ faults' = faults + 1
HookAt(w, pc)    == hook[w] # None /\ hook[w].pc = pc
HookGo(w, pc)    == hook' = [hook EXCEPT ![w].pc = pc]
HookEnd(w)       == hook' = [hook EXCEPT ![w] = None]
Answer200(w)     == answered' = answered \cup {hook[w].id} /\ HookEnd(w)

\* Mutant: a row that exists counts as processed.
seenBefore(e) == e \in recorded
alreadyProcessed(e) == e \in processed

\* A post with a bad signature is refused.  A genuine one comes until it is
\* answered, and sometimes after; it is recorded, and one that was processed
\* before is answered at once (RecordBillingEvent).
ServeHTTP(w, e) ==
  /\ hook[w] = None
  /\ IF e \in answered THEN Fault ELSE UNCHANGED faults
  /\ recorded' = recorded \cup {e}
  /\ IF alreadyProcessed(e) THEN answered' = answered \cup {e} /\ UNCHANGED hook
     ELSE /\ hook' = [hook EXCEPT ![w] = [id |-> e, ev |-> VerifyWebhook(sent[e]), pc |-> "act", org |-> 0]]
          /\ UNCHANGED answered
  /\ UNCHANGED <<topic, vendor, memberVars, subs, payments, sent, override,
                 processed, newest, stale, unresolved>>
RejectSignature(w) == hook[w] = None /\ UNCHANGED vars

\* A call fails, the answer is not 200 and the provider posts again.
HookFails(w) ==
  /\ hook[w] # None /\ Fault /\ HookEnd(w)
  /\ UNCHANGED <<topic, vendor, memberVars, subs, payments, sent, override,
                 answered, recorded, processed, newest, stale, unresolved>>

OrgByCustomer(customer) == {o \in OrgIds : subs[o] # None /\ subs[o].customer = customer}

\* act, when the event names no org: one is looked up by the customer.  Unknown
\* kinds, and customers nobody has, are acknowledged.
resolveOrg(w) ==
  /\ HookAt(w, "act")
  /\ LET ev == hook[w].ev  found == OrgByCustomer(ev.customer) IN
     \/ ev.kind = "unknown" /\ HookGo(w, "mark") /\ UNCHANGED unresolved
     \/ /\ ev.kind # "unknown" /\ ev.org = 0 /\ found = {}
        /\ HookGo(w, "mark") /\ unresolved' = unresolved \cup {hook[w].id}
     \/ /\ ev.kind # "unknown" /\ ev.org = 0
        /\ \E o \in found : hook' = [hook EXCEPT ![w].pc = "apply", ![w].org = o]
        /\ UNCHANGED unresolved
  /\ UNCHANGED <<topic, vendor, memberVars, subs, payments, sent, override,
                 answered, recorded, processed, faults, newest, stale>>

\* The org the event is about, once it is known.
Applying(w, kind) ==
  /\ HookAt(w, "apply") \/ (HookAt(w, "act") /\ hook[w].ev.org # 0)
  /\ hook[w].ev.kind = kind
OrgOf(w) == IF hook[w].ev.org # 0 THEN hook[w].ev.org ELSE hook[w].org

Running == {"active", "trialing"}
endedAt(old, status) ==
  IF status \in Running THEN "no"
  ELSE IF old = None \/ old.status \in Running THEN "recent" ELSE old.ended
upsertSubscriptionTx(o, plan, ev) ==
  subs' = [subs EXCEPT ![o] = [plan |-> plan, status |-> ev.status, customer |-> ev.customer,
                               ended |-> endedAt(subs[o], ev.status), atEnd |-> ev.ending]]
\* A smaller plan overtakes the invitations that were let in under the old one.
SetOrganizationPlan(o, plan) ==
  /\ orgs' = [orgs EXCEPT ![o].plan = plan]
  /\ IF SeatCap(plan) < SeatCap(orgs[o].plan) THEN Overtake(None, o, "insert") ELSE UNCHANGED overtaken

\* Mutant: a canceled subscription keeps its plan.
keepsPlan(ev) == ParsePlan(ev.plan)
EventPlan(ev) == IF ev.status = "canceled" THEN "tier1" ELSE ParsePlan(ev.plan)

\* One transaction: the subscription and the org's plan.  The row of an org
\* that is not there breaks a foreign key: an error, posted again for ever.
ApplySubscriptionEvent(w) ==
  /\ Applying(w, "subscription")
  /\ LET o == OrgOf(w)  ev == hook[w].ev  e == hook[w].id IN
     IF o \in DOMAIN orgs
     THEN /\ upsertSubscriptionTx(o, EventPlan(ev), ev)
          /\ SetOrganizationPlan(o, EventPlan(ev))
          /\ stale' = IF e < newest[o] THEN stale \cup {o} ELSE stale
          /\ newest' = [newest EXCEPT ![o] = e]
          /\ override' = override \ {o}
          /\ HookGo(w, "mark")
     ELSE HookEnd(w) /\ UNCHANGED <<subs, orgs, overtaken, newest, stale, override>>
  /\ UNCHANGED <<topic, vendor, members, rcache, overlapped, mailVars, invites, req, served,
                 payments, sent, answered, recorded, processed, faults, unresolved>>

\* An org that is not there: acknowledged, marked if that works.
ApplyPaymentEvent(w) ==
  /\ Applying(w, "payment")
  /\ LET o == OrgOf(w)  ev == hook[w].ev IN
     IF o \in DOMAIN orgs
     THEN /\ payments' = [payments EXCEPT ![ev.pay] = [org |-> o, status |-> ev.status]]
          /\ HookGo(w, "mark")
     ELSE UNCHANGED payments /\ HookGo(w, "gone")
  /\ UNCHANGED <<topic, vendor, memberVars, subs, sent, override,
                 answered, recorded, processed, faults, newest, stale, unresolved>>

MarkBillingEventProcessed(w) ==
  /\ HookAt(w, "mark") \/ HookAt(w, "gone")
  /\ \/ processed' = processed \cup {hook[w].id} /\ UNCHANGED faults
     \/ HookAt(w, "gone") /\ Fault /\ UNCHANGED processed
  /\ Answer200(w)
  /\ UNCHANGED <<topic, vendor, memberVars, subs, payments, sent, override,
                 recorded, newest, stale, unresolved>>

-----------------------------------------------------------------------------
(* Self-serve *)

GetSubscriptionByOrg(o) == subs[o]

PersonHadRecentInactiveSubscription(u) ==
  \E o \in DOMAIN orgs :
    /\ GetMembership(o, u) \in {"owner", "admin"}
    /\ subs[o] # None /\ subs[o].status \notin Running /\ subs[o].ended = "recent"
trialEligible(u, plan) == plan = "tier1" /\ ~ PersonHadRecentInactiveSubscription(u)

BillingUnchanged == UNCHANGED <<orgs, members, overlapped, mailVars, inviteVars, topic, vendor>>

\* The link to a checkout; whoever has it pays, or not.
CreateBillingCheckout(c, p, plan) ==
  /\ humanInOrg(c, p)
  /\ IF CanInOrg(p, "manage_billing") /\ plan \in {"tier2", "tier3"}
     THEN \/ Refuse(c) /\ UNCHANGED sent
          \/ \E price \in priceFor(plan, trialEligible(p.user, orgPlan(p.org))) :
               LET status == IF price.trial THEN "trialing" ELSE "active" IN
               /\ Emit(<<RawSub("subscription.created", p.org, p.org, price, status, FALSE),
                         RawPayment("transaction.completed", p.org, p.org, Len(sent) + 2)>>)
               /\ Once(c)
     ELSE Refuse(c) /\ UNCHANGED sent
  /\ BillingUnchanged /\ UNCHANGED <<subs, payments, override, hookVars>>

\* The link to the provider's portal, where the subscription can be ended.
CreateBillingPortal(c, p) ==
  /\ humanInOrg(c, p)
  /\ LET o == p.org IN
     IF CanInOrg(p, "manage_billing") /\ GetSubscriptionByOrg(o) # None
     THEN Emit(<<RawSub("subscription.canceled", o, o, Current(o).price, "canceled", FALSE)>>) /\ Once(c)
     ELSE Refuse(c) /\ UNCHANGED sent
  /\ BillingUnchanged /\ UNCHANGED <<subs, payments, override, hookVars>>

ListBillingPayments(o) == {x \in DOMAIN payments : payments[x] # None /\ payments[x].org = o}

-----------------------------------------------------------------------------
(* Operators.  They are told apart by their address only. *)

isPlatformAdmin(u) == u \in Admins
AdminRequest(op, u, o, plan) ==
  [op |-> op, p |-> [kind |-> "human", user |-> u, org |-> o, role |-> "out"], plan |-> plan]

\* The provider is told (neither adapter changes a subscription), then the
\* subscription and the org are written in two transactions.
SetAdminOrgPlan(c, u, o, plan) ==
  /\ Request(c)
  /\ IF isPlatformAdmin(u) /\ IsKnownPlan(plan) /\ o \in DOMAIN orgs
     THEN Begin(c, AdminRequest(IF GetSubscriptionByOrg(o) = None THEN "orgPlan" ELSE "subPlan", u, o, plan))
     ELSE Refuse(c)
  /\ UNCHANGED <<rcache, billVars>> /\ BillingUnchanged

UpdateSubscriptionPlan(c) ==
  /\ At(c, "subPlan")
  /\ subs' = [subs EXCEPT ![req[c].p.org].plan = req[c].plan]
  /\ Goto(c, "orgPlan")
  /\ BillingUnchanged /\ UNCHANGED <<rcache, payments, sent, override, hookVars>>

setOrgPlan(c) ==
  /\ At(c, "orgPlan")
  /\ SetOrganizationPlan(req[c].p.org, req[c].plan)
  /\ override' = override \cup {req[c].p.org}
  /\ Done(c)
  /\ UNCHANGED <<members, overlapped, mailVars, invites, topic, vendor, rcache, subs, payments, sent, hookVars>>

\* The provider first: Paddle makes an event of it, the stub does nothing.
CancelAdminOrgSubscription(c, u, o, when) ==
  /\ Request(c)
  /\ IF isPlatformAdmin(u) /\ GetSubscriptionByOrg(o) # None
     THEN /\ Begin(c, AdminRequest(when, u, o, None))
          /\ IF vendor = "paddle"
             THEN Emit(<<IF when = "cancelNow"
                         THEN RawSub("subscription.canceled", o, o, Current(o).price, "canceled", FALSE)
                         ELSE RawSub("subscription.updated", o, o, Current(o).price, Current(o).status, TRUE)>>)
             ELSE UNCHANGED sent
     ELSE Refuse(c) /\ UNCHANGED sent
  /\ BillingUnchanged /\ UNCHANGED <<rcache, subs, payments, override, hookVars>>

CancelSubscriptionNow(c) ==
  /\ At(c, "cancelNow")
  /\ LET o == req[c].p.org IN
     /\ subs' = [subs EXCEPT ![o].status = "canceled", ![o].atEnd = FALSE,
                             ![o].ended = IF subs[o].status \in Running THEN "recent" ELSE @]
     /\ SetOrganizationPlan(o, "tier1")
     /\ override' = override \cup {o}
  /\ Done(c)
  /\ UNCHANGED <<members, overlapped, mailVars, invites, topic, vendor, rcache, payments, sent, hookVars>>

SetSubscriptionCancelAtPeriodEnd(c) ==
  /\ At(c, "cancelAtEnd")
  /\ subs' = [subs EXCEPT ![req[c].p.org].atEnd = TRUE]
  /\ Done(c)
  /\ BillingUnchanged /\ UNCHANGED <<rcache, payments, sent, override, hookVars>>

\* The provider makes an adjustment of it, an event of no kind; Paddle's
\* adapter refunds whole payments only.
RefundAdminOrgPayment(c, u, x, partial) ==
  /\ Request(c)
  /\ IF isPlatformAdmin(u) /\ payments[x] # None /\ ~ (vendor = "paddle" /\ partial)
     THEN Emit(<<RawPayment("adjustment.created", 0, payments[x].org, x)>>) /\ Once(c)
     ELSE Refuse(c) /\ UNCHANGED sent
  /\ UNCHANGED <<rcache, subs, payments, override, hookVars>> /\ BillingUnchanged

TrialWindowPasses(o) ==
  /\ subs[o] # None /\ subs[o].ended = "recent"
  /\ subs' = [subs EXCEPT ![o].ended = "old"]
  /\ UNCHANGED <<memberVars, topic, vendor, payments, sent, override, hookVars>>

-----------------------------------------------------------------------------

Webhook(w) ==
  \/ resolveOrg(w) \/ ApplySubscriptionEvent(w)
  \/ ApplyPaymentEvent(w) \/ MarkBillingEventProcessed(w)

BillingNext ==
  \/ \E w \in Hooks :
       \/ \E e \in DOMAIN sent : ServeHTTP(w, e)
       \/ RejectSignature(w) \/ Webhook(w) \/ HookFails(w)
  \/ \E o \in DOMAIN orgs :
       \/ \E custom \in {o} \cup Customs, status \in Outcomes :
            ProviderBills(o, custom, status)
       \/ TrialWindowPasses(o)
  \/ \E c \in Clients :
       \/ \E p \in Principals :
            \/ \E plan \in Plans : CreateBillingCheckout(c, p, plan)
            \/ CreateBillingPortal(c, p)
       \/ \E u \in Users :
            \/ \E o \in OrgIds : \/ \E plan \in OperatorPlans : SetAdminOrgPlan(c, u, o, plan)
                                 \/ \E when \in {"cancelNow", "cancelAtEnd"} : CancelAdminOrgSubscription(c, u, o, when)
            \/ \E x \in DOMAIN payments, partial \in BOOLEAN : RefundAdminOrgPayment(c, u, x, partial)
       \/ UpdateSubscriptionPlan(c) \/ setOrgPlan(c)
       \/ CancelSubscriptionNow(c) \/ SetSubscriptionCancelAtPeriodEnd(c)
       \/ Abort(c) /\ UNCHANGED <<topic, vendor, billVars>>

Next ==
  \/ topic = "roles" /\ RoleNext /\ UNCHANGED <<topic, vendor, billVars>>
  \/ topic = "seats" /\ InviteNext /\ UNCHANGED <<topic, vendor, billVars>>
  \/ topic = "seats" /\ BillingNext

\* The provider posts an event until it is answered, and a request runs on.
Fairness ==
  /\ \A w \in Hooks : WF_vars(Webhook(w))
  /\ \A e \in 1..MaxEvents["paddle"] : SF_vars(\E w \in Hooks : e \in DOMAIN sent \ answered /\ ServeHTTP(w, e))

Spec == Init /\ [][Next]_vars /\ Fairness

-----------------------------------------------------------------------------
(* Correctness *)

\* Events of an org the database has not are answered with an error for ever
\* when they are about a subscription.
Foreign(e) == sent[e].custom # 0 /\ sent[e].custom \notin DOMAIN orgs

\* Every event the provider makes is processed in the end, through failures
\* after any of the calls, duplicates in flight and answers that are lost.
Unsettled == {e \in DOMAIN sent : ~ Foreign(e)} \ processed
EventsSettle == (Unsettled # {}) ~> (Unsettled = {})

\* Once every event of an org was processed, its plan is the one its newest
\* subscription event says and its payments are listed.  Three things undo
\* it, and nothing else: an event applied after a newer one (no order is kept),
\* an event without an org id that came before the org's first subscription,
\* and an operator who set the plan.
MirrorsProvider ==
  \A o \in DOMAIN orgs :
    LET mine == {e \in DOMAIN sent : sent[e].customer = o /\ ~ Foreign(e)}
        news == {e \in mine : KindOf(sent[e].type) = "subscription"} IN
    mine \subseteq processed \ unresolved =>
      /\ \A e \in mine : KindOf(sent[e].type) = "payment" => sent[e].pay \in ListBillingPayments(o)
      /\ o \notin stale \cup override /\ news # {} =>
           LET last == sent[CHOOSE e \in news : \A f \in news : f <= e] IN
           GetEntitlements(o).plan = IF last.status = "canceled" THEN "tier1" ELSE last.price.plan
=============================================================================
