------------------------------- MODULE Authz --------------------------------
(***************************************************************************)
(* internal/authz/authz.go: which role may do what (RBAC matrix), and the  *)
(* two guards that look at the member acted upon.  Pure operators; every   *)
(* handler of the api asks Can before it touches a row.                    *)
(***************************************************************************)
EXTENDS Naturals

Roles      == {"viewer", "member", "admin", "owner"}
ActorKinds == {"human", "api_key"}

\* An actor is what authentication resolved: who, in which org, as what.
ActorRecord(users, orgs) ==
  [kind : ActorKinds, user : users, org : orgs, role : Roles]

viewerActions == {"view_monitoring", "view_members", "create_organization"}
memberActions == viewerActions \cup
  {"manage_monitors", "manage_channels", "ack_incident", "manage_status_pages"}
adminActions  == memberActions \cup
  {"close_incident", "configure_custom_domain", "invite_member", "manage_invitation",
   "change_member_role", "remove_member", "view_audit_log", "edit_org_settings",
   "manage_api_keys", "manage_webhooks", "view_billing"}
ownerOnly     == {"manage_billing", "transfer_ownership", "delete_organization"}

roleActions ==
  [viewer |-> viewerActions, member |-> memberActions,
   admin  |-> adminActions,  owner  |-> adminActions \cup ownerOnly]

isLastOwner(r) == r.owners <= 1

\* Admins never touch the owner role; the last owner is never demoted.
guardChangeRole(actor, r) ==
  /\ actor.role = "admin" => r.target # "owner" /\ r.new # "owner"
  /\ ~ (r.target = "owner" /\ r.new # "owner" /\ isLastOwner(r))

guardRemoveMember(actor, r) ==
  /\ ~ (actor.role = "admin" /\ r.target = "owner")
  /\ ~ (r.target = "owner" /\ isLastOwner(r))

EnsureNotLastOwner(target, owners) == ~ (target = "owner" /\ owners <= 1)

\* A resource names its org and, for the member actions, the target's role,
\* the role it would get and the number of owners.
OrgResource(org) == [org |-> org, target |-> "none", new |-> "none", owners |-> 0]

Can(actor, action, r) ==
  /\ action # "create_organization" => r.org \in {0, actor.org}   \* 0: not set
  /\ ~ (actor.kind = "api_key" /\ action \in ownerOnly)
  /\ action \in roleActions[actor.role]
  /\ action = "change_member_role" => guardChangeRole(actor, r)
  /\ action = "remove_member" => guardRemoveMember(actor, r)

CanInOrg(actor, action) == Can(actor, action, OrgResource(actor.org))
=============================================================================
