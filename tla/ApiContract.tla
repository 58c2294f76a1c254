---------------------------- MODULE ApiContract ----------------------------
(***************************************************************************)
(* The routes of the API, as its controllers declare them: the permission  *)
(* a request needs and on what resource, and the keys its body (or, for a  *)
(* list, its query) must and may have, by the schema of its pipe.          *)
(***************************************************************************)
EXTENDS Naturals, Sequences, FiniteSets

Route(method, path, action, resource, must, may) ==
    [method |-> method, path |-> path, action |-> action, resource |-> resource,
     must |-> must, may |-> may]

\* operationsListQuerySchema; status is further limited to QueryStatuses.
ListKeys == {"cursor", "limit", "permission", "q", "search", "status", "type", "role"}
CursorKeys == {"cursor", "limit", "search", "sortDirection"}
SessionKeys == {"cursor", "limit"}
LargestLimit == 100

ListRoutes(action, paths) == {Route("GET", p, action, "SOCIETY", {}, ListKeys) : p \in paths}
Post(path, action, must, may) == Route("POST", path, action, "SOCIETY", must, may)

\* operationStatusSchema: one enumeration for every list.
QueryStatuses ==
    {"ACKNOWLEDGED", "ACTIVE", "APPROVED", "ARCHIVED", "ARRIVED_AT_GATE", "ASSIGNED",
     "AWAITING_APPROVAL", "CANCELLED", "CHECKED_IN", "CHECKED_OUT", "CLOSED", "CONFIRMED",
     "CONSUMED", "DEACTIVATED", "DELIVERED", "DENIED", "DRAFT", "EXPIRED", "FAILED", "FAILURE",
     "FALSE_ALARM", "INACTIVE", "IN_PROGRESS", "ISSUED", "LOST", "PAID", "PARTIALLY_PAID",
     "PENDING", "PENDING_VERIFICATION", "POSTED", "PROCESSING", "PUBLISHED", "REJECTED",
     "REOPENED", "RESPONDING", "RESOLVED", "RETRY", "REVERSED", "REVOKED", "SCHEDULED",
     "SUCCESS", "SUSPENDED", "TIMED_OUT", "UNPAID", "VOIDED", "WAIVED"}

-----------------------------------------------------------------------------
(* OperationsController *)

PeopleRoutes ==
    {Route("GET", "/admin/dashboard", "society.read", "SOCIETY", {}, {})}
    \cup ListRoutes("resident.read_all", {"/users"})
    \cup ListRoutes("membership.read_flat", {"/family-members"})
    \cup ListRoutes("guard.manage", {"/guards"})
    \cup ListRoutes("guard.device_enroll", {"/guards/devices"})
    \cup ListRoutes("visitor.read_all", {"/visitors/visits", "/visitors/approvals",
                                    "/visitors/pre-approvals", "/visitors/events"})
    \cup ListRoutes("visitor.override", {"/visitors/overrides"})
    \cup ListRoutes("daily_help.manage", {"/daily-help"})
    \cup ListRoutes("daily_help.manage_assignment", {"/daily-help/assignments"})
    \cup ListRoutes("daily_help.attendance", {"/daily-help/attendance"})
    \cup ListRoutes("parcel.read_all", {"/parcels"})

NoticeRoutes ==
    ListRoutes("notice.read", {"/notices", "/notices/acknowledgements"})
    \cup {Post("/notices", "notice.create", {"title", "body", "category", "audienceType"},
              {"priority", "publishAt", "expiresAt", "acknowledgementRequired", "attachmentIds",
               "targetIds"}),
          Post("/notices/:id/publish", "notice.publish", {}, {}),
          Post("/notices/:id/archive", "notice.manage", {"reason"}, {})}

ComplaintRoutes ==
    ListRoutes("complaint.read_all", {"/complaints"})
    \cup {Post("/complaints/:id/assign", "complaint.assign", {"assignedToUserId"}, {"note"}),
          Post("/complaints/:id/transition", "complaint.update", {"status"},
              {"comment", "reason", "resolutionNotes", "version"}),
          Post("/complaints/:id/internal-notes", "complaint.internal_note", {"body"}, {})}

MoneyRoutes ==
    ListRoutes("dues.read_all", {"/maintenance/charge-batches", "/maintenance/charges"})
    \cup ListRoutes("payment.read_all", {"/maintenance/payments", "/maintenance/allocations"})
    \cup ListRoutes("receipt.read_all", {"/maintenance/receipts"})
    \cup ListRoutes("payment.reverse", {"/maintenance/reversals"})
    \cup {Post("/maintenance/payments", "payment.record",
              {"flatId", "amount", "method", "reference", "receivedAt"}, {"notes"}),
          Post("/maintenance/allocations", "payment.record",
              {"paymentId", "chargeId", "amount"}, {})}

EmergencyRoutes ==
    ListRoutes("emergency.read_active", {"/emergencies"})
    \cup {Post("/emergencies/:id/acknowledge", "emergency.acknowledge", {}, {}),
          Post("/emergencies/:id/respond", "emergency.respond", {"status", "note"}, {"version"}),
          Post("/emergencies/:id/resolve", "emergency.resolve", {"resolution", "reason"},
              {"version"})}

AdministrationRoutes ==
    ListRoutes("role.read", {"/roles", "/roles/permissions"})
    \cup ListRoutes("audit.read", {"/audit"})
    \cup ListRoutes("notification.diagnostics", {"/notifications/deliveries"})
    \cup {Post("/roles", "role.manage", {"name", "code", "description", "permissionIds", "reason"},
              {}),
          Post("/roles/:id/deactivate", "role.manage", {"reason"}, {}),
          Post("/notifications/deliveries/:id/retry", "notification.diagnostics", {}, {})}

\* OperationsController.acknowledge, publish and retryDelivery take no body at all.
TakesAnyBody == {"/notices/:id/publish", "/emergencies/:id/acknowledge",
                 "/notifications/deliveries/:id/retry", "/auth/logout"}

-----------------------------------------------------------------------------
(* MembershipController, SocietyController, the controllers of auth *)

MembershipRoutes ==
    {Route("GET", "/memberships/me", "account.read_self", "SELF", {}, CursorKeys),
     Route("GET", "/memberships/flat/:flatId", "membership.read_flat", "PARAM_FLAT", {}, CursorKeys),
     Route("GET", "/memberships", "resident.read_all", "SOCIETY", {}, CursorKeys),
     Route("POST", "/memberships/requests", "membership.request", "SELF",
         {"flatId", "occupancyType", "relationship", "startAt"}, {}),
     Post("/memberships/:id/approve", "membership.approve", {}, {"reason"}),
     Post("/memberships/:id/reject", "membership.reject", {}, {"reason"}),
     Post("/memberships/:id/suspend", "membership.suspend", {}, {"reason"}),
     Route("POST", "/memberships/:id/end", "membership.end", "MEMBERSHIP", {}, {"reason"}),
     Route("GET", "/memberships/:id/family", "membership.read_flat", "MEMBERSHIP", {}, {}),
     Route("POST", "/memberships/:id/family", "membership.manage_flat", "MEMBERSHIP",
         {"name", "relationship"}, {"dateOfBirth", "normalizedPhone", "notes"}),
     Route("PATCH", "/memberships/family/:id", "membership.manage_flat", "FAMILY", {},
         {"name", "relationship", "dateOfBirth", "normalizedPhone", "notes"})}

SocietyRoutes ==
    LET Manage(method, path, must, may) ==
            Route(method, path, "society.manage", "SOCIETY", must, may)
    IN {Route("GET", "/society", "society.read", "SOCIETY", {}, {}),
        Manage("POST", "/society/blocks", {"code", "name"}, {"sortOrder"}),
        Manage("PATCH", "/society/blocks/:id", {}, {"code", "name", "sortOrder", "status"}),
        Manage("POST", "/society/blocks/:id/floors", {"label"}, {"number", "sortOrder"}),
        Manage("PATCH", "/society/floors/:id", {}, {"label", "number", "sortOrder", "status"}),
        Manage("POST", "/society/floors/:id/flats", {"displayName", "number"},
            {"intercomNumber", "occupancyType"}),
        Manage("PATCH", "/society/flats/:id", {},
            {"displayName", "number", "intercomNumber", "occupancyType", "status"}),
        Manage("POST", "/society/gates", {"code", "name"}, {}),
        Manage("PATCH", "/society/gates/:id", {}, {"code", "name", "status"})}

\* The routes of auth that need a session; MeController answers at /me and at /users/me.
AccountRoutes ==
    UNION {
        {Route("GET", me, "account.read_self", "SELF", {}, {}),
         Route("PATCH", me, "account.manage_self", "SELF", {"displayName", "email"}, {}),
         Route("GET", me \o "/sessions", "session.read_self", "SELF", {}, SessionKeys),
         Route("POST", me \o "/sessions/:id/revoke", "session.revoke_self", "SESSION", {},
             {"reason"})} : me \in {"/me", "/users/me"}}
    \cup {Route("PUT", "/auth/pin", "account.manage_self", "SELF", {"pin"}, {}),
          Route("POST", "/auth/logout", "session.revoke_self", "SELF", {}, {}),
          Route("GET", "/auth/sessions", "session.read_self", "SELF", {}, SessionKeys),
          Route("DELETE", "/auth/sessions/:id", "session.revoke_self", "SESSION", {}, {})}

\* @Public: no permission; the keys of the device are one.
PublicRoutes ==
    LET Public(path, must, may) == Route("POST", path, "public", "NONE", must, may)
    IN {Public("/auth/otp/request", {"deviceNonce", "phone", "purpose"}, {}),
        Public("/auth/otp/verify",
            {"challengeId", "code", "device", "deviceNonce", "phone", "purpose"}, {}),
        Public("/auth/guard/sign-in", {"device", "employeeCode", "pin"}, {}),
        Public("/auth/guard/enroll", {"device", "employeeCode", "pin", "enrollmentToken"}, {}),
        Public("/auth/admin/sign-in", {"device", "email", "password"}, {"mfaCode"}),
        Public("/auth/pin/unlock", {"device", "phone", "pin"}, {}),
        Public("/auth/refresh", {"deviceFingerprint"}, {"refreshToken"})}

Routes == PeopleRoutes \cup NoticeRoutes \cup ComplaintRoutes \cup MoneyRoutes
          \cup EmergencyRoutes \cup AdministrationRoutes \cup MembershipRoutes
          \cup SocietyRoutes \cup AccountRoutes \cup PublicRoutes

-----------------------------------------------------------------------------
(* ZodValidationPipe: strict objects, so an unknown key is refused as a    *)
(* missing one is; an instant must carry its offset from UTC, and a        *)
(* status must be one the schema lists.                                    *)

WholeInstants == {"receivedAt", "startAt", "publishAt", "expiresAt"}

TransitionStatuses == {"ASSIGNED", "IN_PROGRESS", "RESOLVED", "CLOSED", "REOPENED", "CANCELLED"}
ResponseStatuses ==
    {"RESPONDING", "SECURITY_DISPATCHED", "MEDICAL_ASSISTANCE_REQUESTED", "POLICE_CONTACTED"}

StatusesOf(route) ==
    CASE route.path = "/complaints/:id/transition" -> TransitionStatuses
      [] route.path = "/emergencies/:id/respond" -> ResponseStatuses
      [] route.method = "GET" -> QueryStatuses
      [] OTHER -> {"ACTIVE", "INACTIVE", "SUSPENDED"}

\* What a request carries: its keys, the local times among them, the status if it has one,
\* and whether it has a body at all.
BodyAccepted(route, call) ==
    \/ route.path \in TakesAnyBody
    \/ /\ route.method = "POST" => call.body
       /\ route.must \subseteq call.keys
       /\ call.keys \subseteq route.must \cup route.may
       /\ route.method = "PATCH" => call.keys # {}
       /\ call.keys \cap call.locals \cap WholeInstants = {}
       /\ "status" \in call.keys => call.status \in StatusesOf(route)

\* The route of a method and path, where the API has one.
RouteAt ==
    [key \in {<<r.method, r.path>> : r \in Routes} |->
        CHOOSE r \in Routes : <<r.method, r.path>> = key]
=============================================================================
