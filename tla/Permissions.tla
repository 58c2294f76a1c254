---------------------------- MODULE Permissions ----------------------------
(***************************************************************************)
(* The permission package: which scopes an action may be granted in, what  *)
(* each role is meant to do, and authorize, the decision every request of  *)
(* the API is put to.  A grant is a pair <<scope, action>>; a policy is a  *)
(* set of grants, merged by union.                                         *)
(***************************************************************************)
EXTENDS FiniteSets

Grant(scopes, actions) == scopes \X actions

Flat == {"ACTIVE_FLAT"}
GateOrSociety == {"ASSIGNED_GATE", "SOCIETY"}
FlatOrSociety == {"ACTIVE_FLAT", "SOCIETY"}
WorkOrSociety == {"ASSIGNED_COMPLAINT", "SOCIETY"}

\* PERMISSION_CATALOG.
Catalog == UNION {
    Grant({"SELF"}, {"account.read_self", "account.manage_self", "session.read_self",
        "session.revoke_self", "membership.request", "notification.read_self",
        "notification.manage_preferences"}),
    Grant({"SOCIETY"}, {"society.read", "society.manage", "membership.approve", "membership.reject",
        "membership.suspend", "resident.read_all", "guard.manage", "visitor.read_all",
        "daily_help.manage", "parcel.read_all", "notice.create", "notice.publish", "notice.manage",
        "complaint.read_all", "complaint.assign", "dues.read_all", "dues.manage", "payment.record",
        "payment.read_all", "payment.reverse", "receipt.generate", "receipt.read_all",
        "receipt.void", "notification.diagnostics", "role.read", "role.manage"}),
    Grant(FlatOrSociety, {"membership.read_flat", "membership.manage_flat", "membership.end",
        "daily_help.manage_assignment", "complaint.cancel"}),
    Grant(GateOrSociety, {"resident.directory_gate", "guard.read_gate", "guard.device_enroll",
        "guard.device_revoke", "visitor.check_in", "visitor.check_out", "visitor.override",
        "daily_help.attendance", "parcel.record", "parcel.collect", "parcel.return",
        "emergency.read_active", "emergency.acknowledge", "emergency.respond",
        "emergency.resolve", "audit.read", "report.export"}),
    Grant(Flat, {"visitor.preapprove", "visitor.cancel_preapproval", "visitor.read_flat",
        "visitor.approve", "visitor.reject", "daily_help.read_flat", "parcel.read_flat",
        "parcel.decide", "complaint.create", "complaint.read_flat", "complaint.reopen",
        "dues.read_flat", "payment.read_flat", "receipt.read_flat", "emergency.create"}),
    Grant({"ASSIGNED_GATE"}, {"visitor.create_request", "visitor.read_gate", "daily_help.read_gate",
        "parcel.read_gate"}),
    Grant({"ASSIGNED_COMPLAINT"}, {"complaint.read_assigned"}),
    Grant(WorkOrSociety, {"complaint.update", "complaint.internal_note", "complaint.resolve"}),
    Grant(WorkOrSociety \cup Flat, {"complaint.comment"}),
    Grant({"TARGETED", "SOCIETY"}, {"notice.read"}),
    Grant({"TARGETED"}, {"notice.acknowledge"}),
    Grant(GateOrSociety \cup WorkOrSociety \cup Flat, {"file.upload"}),
    Grant(GateOrSociety \cup WorkOrSociety \cup Flat \cup {"TARGETED"}, {"file.download"})}

Actions == {g[2] : g \in Catalog}
Scopes == {g[1] : g \in Catalog}
ScopesIn(policy, action) == {s \in Scopes : <<s, action>> \in policy}

\* requiresRecentAuthentication and requiresReason in the catalog.
NeedsRecent == {"visitor.override", "payment.reverse", "receipt.void", "role.manage"}
NeedsReason == NeedsRecent \cup
    {"membership.reject", "membership.suspend", "membership.end", "guard.device_revoke",
     "parcel.return", "complaint.cancel", "emergency.resolve"}

-----------------------------------------------------------------------------
(* ROLE_POLICIES *)

SelfPolicy == {g \in Catalog : g[1] = "SELF"}

ResidentReadPolicy ==
    Grant(Flat, {"membership.read_flat", "visitor.preapprove", "visitor.cancel_preapproval",
        "visitor.read_flat", "visitor.approve", "visitor.reject", "daily_help.read_flat",
        "parcel.read_flat", "parcel.decide", "complaint.create", "complaint.read_flat",
        "complaint.comment", "complaint.reopen", "complaint.cancel", "dues.read_flat",
        "payment.read_flat", "receipt.read_flat", "emergency.create", "file.upload",
        "file.download"})
    \cup Grant({"TARGETED"}, {"notice.read", "notice.acknowledge", "file.download"})

ResidentManagerPolicy ==
    Grant(Flat, {"membership.manage_flat", "membership.end", "daily_help.manage_assignment"})

GuardPolicy ==
    SelfPolicy \cup
    Grant({"ASSIGNED_GATE"}, {"resident.directory_gate", "guard.read_gate", "visitor.create_request",
        "visitor.read_gate", "visitor.check_in", "visitor.check_out", "daily_help.read_gate",
        "daily_help.attendance", "parcel.read_gate", "parcel.record", "parcel.collect",
        "parcel.return", "emergency.read_active", "emergency.acknowledge", "emergency.respond",
        "file.upload", "file.download"})

SupervisorPolicy ==
    GuardPolicy \cup
    Grant({"ASSIGNED_GATE"}, {"visitor.override", "guard.device_enroll", "guard.device_revoke",
        "emergency.resolve", "audit.read", "report.export"})

StaffPolicy ==
    SelfPolicy \cup
    Grant({"ASSIGNED_COMPLAINT"}, {"complaint.read_assigned", "complaint.comment",
        "complaint.update", "complaint.internal_note", "complaint.resolve", "file.upload",
        "file.download"})

AccountantPolicy ==
    SelfPolicy \cup
    Grant({"SOCIETY"}, {"society.read", "dues.read_all", "dues.manage", "payment.record",
        "payment.read_all", "receipt.generate", "receipt.read_all", "report.export"})

\* Mutant: only what can be granted nowhere but in the society.
AdminPolicyNarrow ==
    SelfPolicy \cup {g \in Catalog : g[1] = "SOCIETY" /\ ScopesIn(Catalog, g[2]) = {"SOCIETY"}}

\* SOCIETY_ADMIN_ACTIONS: everything that may be granted in the society.
AdminPolicy == SelfPolicy \cup {g \in Catalog : g[1] = "SOCIETY"}

RolePolicy ==
    [RESIDENT_OWNER |-> SelfPolicy \cup ResidentReadPolicy \cup ResidentManagerPolicy,
     RESIDENT_TENANT |-> SelfPolicy \cup ResidentReadPolicy \cup ResidentManagerPolicy,
     RESIDENT_FAMILY |-> SelfPolicy \cup ResidentReadPolicy,
     GUARD |-> GuardPolicy,
     SECURITY_SUPERVISOR |-> SupervisorPolicy,
     COMPLAINT_STAFF |-> StaffPolicy,
     ACCOUNTANT |-> AccountantPolicy,
     SOCIETY_ADMIN |-> AdminPolicy,
     SUPER_ADMIN |-> AdminPolicy]

RoleActions == [r \in DOMAIN RolePolicy |-> {g[2] : g \in RolePolicy[r]}]

-----------------------------------------------------------------------------
(* authorize *)

\* scopeMatches: the actor and the object the action is about.
ScopeMatches(scope, actor, object) ==
    CASE scope = "SELF" -> object.owner = actor.user
      [] scope = "ACTIVE_FLAT" -> object.flat \in actor.flats
      [] scope = "ASSIGNED_GATE" -> object.gate \in actor.gates
      [] scope = "SOCIETY" -> TRUE
      [] OTHER -> FALSE     \* nothing gives authorize complaints or targets

\* The decision, with the reason of a denial; the order is the code's.
Authorize(actor, action, object, recent, reasoned) ==
    LET scopes == ScopesIn(actor.grants, action)
    IN CASE scopes = {} -> "ACTION_NOT_GRANTED"
         [] scopes # {} /\ action \in NeedsRecent /\ ~recent -> "RECENT_AUTHENTICATION_REQUIRED"
         [] scopes # {} /\ (action \in NeedsRecent => recent)
              /\ action \in NeedsReason /\ ~reasoned -> "REASON_REQUIRED"
         [] OTHER -> IF \E s \in scopes : ScopeMatches(s, actor, object)
                     THEN "ALLOWED" ELSE "SCOPE_MISMATCH"

\* CurrentIdentityService: what one role assignment grants.  The scope of the assignment
\* picks among the scopes the catalog allows the action, whatever the policy of the role.
DirectGrants(assignment, members, gates) ==
    {g \in Catalog :
        /\ g[2] \in RoleActions[assignment.role]
        /\ \/ g[1] \in {"SELF", "TARGETED"}
           \/ g[1] = "SOCIETY" /\ assignment.scope = "SOCIETY"
           \/ g[1] = "ACTIVE_FLAT" /\ assignment.scope = "FLAT" /\ assignment.at \in members
           \/ g[1] = "ASSIGNED_GATE" /\ assignment.scope = "GATE" /\ assignment.at \in gates}
=============================================================================
