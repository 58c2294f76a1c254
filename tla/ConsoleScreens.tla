--------------------------- MODULE ConsoleScreens ---------------------------
(***************************************************************************)
(* The screens of the administration web, as resource-config.ts configures *)
(* them: the list a screen asks for, the permission that shows it, and the *)
(* forms it offers with the call each sends.  hasPermission is the test    *)
(* that shows or hides all of it.                                          *)
(***************************************************************************)
EXTENDS Naturals, Sequences, FiniteSets

\* A control of a screen: its permission, its call, its required and optional fields.
Control(permission, path, must, may) ==
    [permission |-> permission, method |-> "POST", path |-> path, must |-> must, may |-> may]
Download(permission, path) ==
    [Control(permission, path, {}, {}) EXCEPT !.method = "GET"]

\* The fixed part of the list's query, the statuses its selector offers.
Screen(path, permission, query, statuses, controls) ==
    [path |-> path, permission |-> permission, query |-> query, statuses |-> statuses,
     controls |-> controls]

OnOff == {"ACTIVE", "INACTIVE"}
Reason == {"reason"}

\* deactivateAction.
Deactivate(path) == Control("society.manage", path \o "/:id/deactivate", Reason, {})
SuspendActivate(path, suspend, activate) ==
    {Control(suspend, path \o "/:id/suspend", Reason, {}),
     Control(activate, path \o "/:id/activate", {}, {})}

SocietyScreens ==
    {Screen("/society/blocks", "society.read", {}, OnOff,
         {Control("society.manage", "/society/blocks", {"code", "name"}, {}),
          Deactivate("/society/blocks")}),
     Screen("/society/floors", "society.read", {}, OnOff,
         {Control("society.manage", "/society/floors", {"blockId", "label", "level"}, {}),
          Deactivate("/society/floors")}),
     Screen("/society/flats", "society.read", {}, OnOff,
         {Control("society.manage", "/society/flats",
              {"blockId", "floorId", "number", "occupancyType"}, {}),
          Deactivate("/society/flats")}),
     Screen("/society/gates", "society.read", {}, OnOff,
         {Control("society.manage", "/society/gates", {"code", "name", "location"}, {}),
          Deactivate("/society/gates")})}

ResidentScreens ==
    {Screen("/users", "user.read", {"type"}, {"PENDING", "ACTIVE", "SUSPENDED", "DEACTIVATED"},
         {Control("user.create", "/users", {"name", "phone"}, {"email"})}
         \cup SuspendActivate("/users", "user.suspend", "user.activate"))}

EndOccupancy == Control("membership.end", "/memberships/:id/end", {"endAt", "reason"}, {})
DecideRequest == {Control("membership.approve", "/memberships/:id/approve", {}, {}),
           Control("membership.approve", "/memberships/:id/reject", Reason, {})}

MembershipScreens ==
    {Screen("/memberships", "membership.read", {},
         {"PENDING", "APPROVED", "REJECTED", "SUSPENDED", "ENDED"},
         DecideRequest \cup
         {Control("membership.create", "/memberships",
              {"userId", "flatId", "relationship", "occupancyType", "startAt"}, {"endAt"}),
          Control("membership.suspend", "/memberships/:id/suspend", Reason, {}),
          EndOccupancy})}

FamilyScreens ==
    {Screen("/family-members", "family.read", {}, OnOff,
         {Control("family.manage", "/family-members", {"membershipId", "name", "relationship"},
              {"birthDate"}),
          Control("family.manage", "/family-members/:id/deactivate", Reason, {})}),
     \* approvals and occupancyEnd: the memberships again, meant to be narrowed by a status
     Screen("/memberships", "membership.approve", {"status"}, {}, DecideRequest),
     Screen("/memberships", "membership.end", {"status"}, {}, {EndOccupancy})}

SecurityScreens ==
    LET Guards == SuspendActivate("/guards", "guard.manage", "guard.manage")
        GuardStatuses == {"ACTIVE", "SUSPENDED", "INACTIVE"}
    IN {Screen("/guards", "guard.read", {}, GuardStatuses,
            {Control("guard.manage", "/guards",
                 {"name", "phone", "employeeCode", "initialPin", "gateIds"}, {})} \cup Guards),
        Screen("/guards", "guard.read", {"role"}, GuardStatuses, Guards),
        Screen("/guards/devices", "device.read", {}, {"PENDING", "ACTIVE", "REVOKED", "LOST"},
            {Control("device.enroll", "/guards/device-enrollments", {"guardId", "gateIds"}, {}),
             Control("device.revoke", "/guards/devices/:id/revoke", Reason, {})})}

VisitorScreens ==
    {Screen("/visitors/visits", "visitor.read_all", {},
         {"EXPECTED", "ARRIVED_AT_GATE", "AWAITING_APPROVAL", "APPROVED", "REJECTED",
          "APPROVAL_TIMED_OUT", "CHECKED_IN", "CHECKED_OUT", "CANCELLED", "EXPIRED"}, {}),
     Screen("/visitors/approvals", "visitor.read_all", {},
         {"PENDING", "APPROVED", "REJECTED", "TIMED_OUT", "CANCELLED", "OVERRIDDEN"}, {}),
     Screen("/visitors/pre-approvals", "visitor.read_all", {},
         {"ACTIVE", "CONSUMED", "CANCELLED", "EXPIRED", "SUSPENDED"},
         {Control("visitor.preapproval.cancel_all", "/visitors/pre-approvals/:id/cancel",
              Reason, {})}),
     Screen("/visitors/overrides", "visitor.override.read", {}, {}, {}),
     Screen("/visitors/events", "visitor.read_all", {}, {}, {})}

DailyHelpScreens ==
    {Screen("/daily-help", "daily_help.read", {}, {"ACTIVE", "SUSPENDED", "INACTIVE"},
         {Control("daily_help.manage", "/daily-help", {"name", "type"},
              {"phone", "identificationReference", "notes"})}
         \cup SuspendActivate("/daily-help", "daily_help.manage", "daily_help.manage"))}

AssignmentScreens ==
    {Screen("/daily-help/assignments", "daily_help.read", {}, {"ACTIVE", "ENDED", "SUSPENDED"},
         {Control("daily_help.assign", "/daily-help/assignments",
              {"dailyHelpId", "flatId", "validFrom"},
              {"validUntil", "allowedDays", "startTime", "endTime"}),
          Control("daily_help.assign", "/daily-help/assignments/:id/end", {"endAt", "reason"}, {})}),
     Screen("/daily-help/attendance", "daily_help.read", {},
         {"CHECKED_IN", "CHECKED_OUT", "VOIDED"}, {}),
     Screen("/parcels", "parcel.read_all", {},
         {"EXPECTED", "ARRIVED", "HELD_AT_GATE", "COLLECTED", "RETURNED", "CANCELLED"},
         {Control("parcel.manage", "/parcels/:id/return", Reason, {}),
          Control("parcel.manage", "/parcels/:id/cancel", Reason, {})})}

NoticeScreens ==
    {Screen("/notices", "notice.read", {},
         {"DRAFT", "SCHEDULED", "PUBLISHED", "EXPIRED", "ARCHIVED"},
         {Control("notice.publish", "/notices/:id/publish", {}, {}),
          Control("notice.manage", "/notices/:id/archive", Reason, {})}),
     Screen("/notices/acknowledgements", "notice.report", {}, {"UNREAD", "READ", "ACKNOWLEDGED"},
         {})}

ComplaintScreens ==
    {Screen("/complaints", "complaint.read_all", {},
         {"OPEN", "ACKNOWLEDGED", "ASSIGNED", "IN_PROGRESS", "RESOLVED", "CLOSED", "REOPENED"},
         {Control("complaint.assign", "/complaints/:id/assign", {"assignedToUserId"}, {"note"}),
          Control("complaint.update", "/complaints/:id/transition", {"status"}, {"comment"}),
          Control("complaint.internal_note", "/complaints/:id/internal-notes", {"body"}, {})})}

ChargeScreens ==
    {Screen("/maintenance/charge-batches", "maintenance.read", {}, {"DRAFT", "POSTED", "CANCELLED"},
         {Control("maintenance.charge.create", "/maintenance/charge-batches",
              {"periodStart", "dueDate", "amount", "description"}, {}),
          Control("maintenance.charge.create", "/maintenance/charge-batches/:id/post", {}, {}),
          Control("maintenance.charge.cancel", "/maintenance/charge-batches/:id/cancel",
              Reason, {})}),
     Screen("/maintenance/charges", "maintenance.read", {},
         {"UNPAID", "PARTIALLY_PAID", "PAID", "OVERDUE", "WAIVED", "CANCELLED"},
         {Control("maintenance.charge.adjust", "/maintenance/charges/:id/adjustments",
              {"amount", "reason"}, {})})}

PaymentScreens ==
    {Screen("/maintenance/payments", "payment.read", {},
         {"PENDING_VERIFICATION", "CONFIRMED", "REVERSED", "FAILED"},
         {Control("payment.record", "/maintenance/payments",
              {"flatId", "amount", "method", "reference", "receivedAt"}, {"notes"}),
          Control("payment.reverse", "/maintenance/payments/:id/reverse", Reason, {})}),
     Screen("/maintenance/allocations", "payment.read", {}, {},
         {Control("payment.allocate", "/maintenance/allocations",
              {"paymentId", "chargeId", "amount"}, {})})}

ReceiptScreens ==
    {Screen("/maintenance/receipts", "payment.read", {}, {"ISSUED", "VOIDED"},
         {Download("payment.read", "/maintenance/receipts/:id/download")}),
     Screen("/maintenance/reversals", "payment.reverse", {}, {}, {}),
     Screen("/reports/exports", "report.finance", {"module"},
         {"PENDING", "PROCESSING", "COMPLETED", "FAILED", "EXPIRED"},
         {Control("report.finance", "/reports/exports", {"type", "fromDate", "toDate"}, {"status"}),
          Download("report.finance", "/reports/exports/:id/download")})}

EmergencyScreens ==
    {Screen("/emergencies", "emergency.read_all", {},
         {"ACTIVE", "ACKNOWLEDGED", "RESPONDING", "RESOLVED", "FALSE_ALARM"},
         {Control("emergency.acknowledge", "/emergencies/:id/acknowledge", {}, {}),
          Control("emergency.respond", "/emergencies/:id/respond", {"status", "note"}, {}),
          Control("emergency.resolve", "/emergencies/:id/resolve", {"resolution", "reason"}, {})})}

RoleScreens ==
    {Screen("/users", "user.read", {}, {"PENDING", "ACTIVE", "SUSPENDED", "DEACTIVATED"},
         SuspendActivate("/users", "user.suspend", "user.activate")),
     Screen("/roles", "role.read", {}, OnOff,
         {Control("role.manage", "/roles", {"name", "code", "description", "permissionIds"}, {}),
          Control("role.manage", "/roles/:id/deactivate", Reason, {})}),
     Screen("/roles/permissions", "role.read", {}, {}, {}),
     Screen("/audit", "audit.read", {}, {"SUCCESS", "DENIED", "FAILED"}, {})}

ExportScreens ==
    {Screen("/reports/exports", "report.export", {},
         {"PENDING", "PROCESSING", "COMPLETED", "FAILED", "EXPIRED"},
         {Control("report.export", "/reports/exports", {"type", "fromDate", "toDate"}, {}),
          Download("report.export", "/reports/exports/:id/download")}),
     Screen("/notifications/deliveries", "notification.diagnostics", {"status"}, {},
         {Control("notification.retry", "/notifications/deliveries/:id/retry", {}, {})})}

Screens == SocietyScreens \cup ResidentScreens \cup MembershipScreens \cup FamilyScreens
           \cup SecurityScreens \cup VisitorScreens \cup DailyHelpScreens \cup AssignmentScreens
           \cup NoticeScreens \cup ComplaintScreens \cup ChargeScreens \cup PaymentScreens
           \cup ReceiptScreens \cup EmergencyScreens \cup RoleScreens \cup ExportScreens

-----------------------------------------------------------------------------
(* Fields filled from a list of the API, with the keys of the query that   *)
(* narrows it (every lookup also asks for 200 records); fields that hold a *)
(* local date and time; the statuses a form offers.                        *)

LookupOf ==
    [blockId |-> [path |-> "/society/blocks", query |-> {"status"}],
     floorId |-> [path |-> "/society/floors", query |-> {"status"}],
     flatId |-> [path |-> "/society/flats", query |-> {"status"}],
     gateIds |-> [path |-> "/society/gates", query |-> {"status"}],
     userId |-> [path |-> "/users", query |-> {"type"}],
     membershipId |-> [path |-> "/memberships", query |-> {"status"}],
     guardId |-> [path |-> "/guards", query |-> {"status"}],
     dailyHelpId |-> [path |-> "/daily-help", query |-> {"status"}],
     assignedToUserId |-> [path |-> "/users", query |-> {"permission"}],
     paymentId |-> [path |-> "/maintenance/payments", query |-> {"status"}],
     chargeId |-> [path |-> "/maintenance/charges", query |-> {"status"}],
     permissionIds |-> [path |-> "/roles/permissions", query |-> {}]]

LookupLimit == 200
LocalTimes == {"startAt", "endAt", "receivedAt", "publishAt", "expiresAt"}

StatusesOffered(control) ==
    CASE control.path = "/complaints/:id/transition" ->
             {"ACKNOWLEDGED", "IN_PROGRESS", "RESOLVED", "CLOSED", "REOPENED"}
      [] control.path = "/emergencies/:id/respond" ->
             {"RESPONDING", "SECURITY_DISPATCHED", "MEDICAL_ASSISTANCE_REQUESTED",
              "POLICE_CONTACTED"}
      [] OTHER -> {"PENDING"}     \* the export's filter

-----------------------------------------------------------------------------
(* hasPermission: the profile is the cached answer of /users/me.  A        *)
(* namespace wildcard or "*" would do too; the API never sends one.        *)

NoProfile == [roles |-> {}, permissions |-> {}]

HasPermission(profile, permission) ==
    /\ profile # NoProfile
    /\ "SUPER_ADMIN" \in profile.roles \/ permission \in profile.permissions
=============================================================================
