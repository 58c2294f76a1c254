------------------------------ MODULE AppCalls ------------------------------
(***************************************************************************)
(* The requests the two apps make: endpoints.ts of the guard app,          *)
(* resident-api.ts of the resident app.  A call is its method, its path    *)
(* with the names of the API's parameters, and the keys of its body or     *)
(* query; Reachable asks the API's own table whether it has the route and  *)
(* takes the keys.                                                         *)
(***************************************************************************)
EXTENDS ApiContract

Unset == "unset"

\* keyed: the call is sent with an Idempotency-Key.
AppCall(method, path, keys) ==
    [method |-> method, path |-> path, keys |-> keys, status |-> Unset,
     body |-> method # "GET" /\ keys # {}, keyed |-> method # "GET"]
Unkeyed(call) == [call EXCEPT !.keyed = FALSE]
Gets(paths, keys) == {AppCall("GET", p, keys) : p \in paths}
\* A POST with an empty object for its body, and one without any body.
Empty(path) == [AppCall("POST", path, {}) EXCEPT !.body = TRUE]
Bare(path) == AppCall("POST", path, {})

ListOptions == {"cursor", "limit", "search", "status"}
UploadKeys == {"bytes", "checksumSha256", "fileName", "mimeType", "purpose"}
EndpointKeys == {"deviceId", "platform", "provider", "token"}

\* endpoints
GuardCalls ==
    Gets({"/guards/dashboard", "/guards/devices/current", "/guards/me/context", "/emergencies/:id",
          "/daily-help/:id", "/parcels/:id", "/visitors/:id"}, {})
    \cup Gets({"/guards/activity"}, {"category", "cursor"})
    \cup Gets({"/daily-help/gate"}, {"query"})
    \cup Gets({"/parcels/gate", "/visitors/gate"}, {"status"})
    \cup Gets({"/offline-sync/snapshot"}, {"gateId"})
    \cup {[AppCall("GET", "/emergencies", {"scope", "status"})
              EXCEPT !.status = "ACTIVE,ACKNOWLEDGED,RESPONDING"]}
    \cup {AppCall("POST", "/emergencies/:id/acknowledge", {"version"}),
          AppCall("POST", "/emergencies/:id/respond", {"note", "version"}),
          AppCall("POST", "/parcels", {"flatId", "courierName", "description", "photoFileId"}),
          AppCall("POST", "/parcels/codes/verify", {"code"}),
          AppCall("POST", "/files/upload-intents", UploadKeys),
          AppCall("POST", "/visitors/requests",
              {"category", "flatId", "name", "phone", "vehicleNumber", "purpose", "photoFileId"}),
          AppCall("POST", "/visitors/codes/verify", {"code"}),
          AppCall("POST", "/visitors/:id/check-in", {"version"}),
          AppCall("POST", "/visitors/:id/check-out", {"version"}),
          AppCall("POST", "/visitors/:id/override", {"reason", "version"}),
          AppCall("POST", "/notifications/push-endpoints", EndpointKeys),
          AppCall("POST", "/offline-sync/mutations", {"deviceId", "gateId", "mutations"}),
          AppCall("POST", "/auth/guard/enroll", {"device", "employeeCode", "pin", "enrollmentToken"}),
          AppCall("POST", "/auth/guard/sign-in", {"device", "employeeCode", "pin"})}
    \cup {Empty(p) : p \in {"/files/:id/complete", "/daily-help/:id/attendance/check-in",
              "/daily-help/:id/attendance/check-out", "/auth/logout", "/parcels/:id/collect",
              "/parcels/:id/return", "/guards/me/gates/:id/select"}}

\* authApi, profileApi, membershipApi
ResidentAccountCalls ==
    Gets({"/users/me"}, {})
    \cup Gets({"/auth/sessions", "/memberships/me"}, {"limit"})
    \cup Gets({"/society/flats"}, {"limit", "search"})
    \cup {AppCall("POST", "/auth/otp/request", {"deviceNonce", "phone", "purpose"}),
          AppCall("POST", "/auth/otp/verify",
              {"challengeId", "code", "device", "deviceNonce", "phone", "purpose"}),
          AppCall("POST", "/auth/refresh", {"deviceFingerprint", "refreshToken"}),
          AppCall("POST", "/auth/pin/unlock", {"device", "phone", "pin"}),
          AppCall("PUT", "/auth/pin", {"pin"}),
          Unkeyed(AppCall("PATCH", "/users/me", {"displayName", "email"})),
          AppCall("DELETE", "/auth/sessions/:id", {}),
          AppCall("POST", "/memberships/requests", {"flatId", "occupancyType", "relationship"}),
          Bare("/auth/logout")}

\* visitorApi, familyApi, dailyHelpApi, parcelApi
ResidentGateCalls ==
    Gets({"/visitors/visits/:id", "/daily-help/:id", "/parcels/:id"}, {})
    \cup Gets({"/visitors/approvals/pending", "/memberships/:id/family-members"}, {"limit"})
    \cup Gets({"/visitors/visits", "/visitors/pre-approvals", "/daily-help/me", "/parcels/me"},
              ListOptions \ {"status"})
    \cup Gets({"/daily-help/directory"}, {"limit", "search"})
    \cup {AppCall("POST", "/visitors/approvals/:id/decision", {"decision", "reason"}),
          AppCall("POST", "/visitors/pre-approvals",
              {"category", "expectedAt", "purpose", "vehicleNumber", "visitorName", "visitorPhone"}),
          Bare("/visitors/pre-approvals/:id/cancel"),
          AppCall("POST", "/memberships/:id/family-members", {"dateOfBirth", "name", "relationship"}),
          Unkeyed(AppCall("PATCH", "/memberships/:id/family-members/:id",
              {"name", "relationship", "status"})),
          AppCall("POST", "/daily-help/:id/assignments", {"allowedDays", "notes"}),
          Bare("/daily-help/:id/assignments/current/end"),
          AppCall("POST", "/parcels/:id/decision", {"decision"})}

\* noticeApi, complaintApi, maintenanceApi, emergencyApi
ResidentServiceCalls ==
    Gets({"/notices/:id", "/complaints/:id", "/maintenance/charges/:id", "/maintenance/payments/:id",
          "/maintenance/payment-capabilities", "/emergencies/:id"}, {})
    \cup Gets({"/notices/me", "/complaints/me", "/maintenance/me/charges", "/maintenance/me/payments",
               "/emergencies/me"}, ListOptions \ {"status"})
    \cup Gets({"/complaints/categories"}, {"limit"})
    \cup {[AppCall("GET", "/emergencies/me", {"limit", "status"}) EXCEPT !.status = "ACTIVE"]}
    \cup {Bare(p) : p \in {"/notices/:id/read", "/notices/:id/acknowledge", "/complaints/:id/close",
              "/complaints/:id/reopen", "/maintenance/online-payment/checkout"}}
    \cup {AppCall("POST", "/complaints",
              {"attachmentFileIds", "categoryId", "description", "priority", "subject"}),
          AppCall("POST", "/complaints/:id/comments", {"body"}),
          AppCall("POST", "/emergencies", {"category", "details"}),
          AppCall("POST", "/emergencies/:id/false-alarm", {"reason"})}

\* notificationApi, fileApi
ResidentDeliveryCalls ==
    Gets({"/notifications/unread-count", "/notifications/preferences", "/files/:id",
          "/files/:id/download"}, {})
    \cup Gets({"/notifications"}, ListOptions \ {"status"})
    \cup {Bare(p) : p \in {"/notifications/:id/read", "/notifications/read-all",
              "/files/:id/complete"}}
    \cup {Unkeyed(AppCall("PATCH", "/notifications/preferences", {"preferences"})),
          Unkeyed(AppCall("POST", "/notifications/push-endpoints", EndpointKeys)),
          AppCall("POST", "/files/upload-intents", UploadKeys)}

ResidentCalls == ResidentAccountCalls \cup ResidentGateCalls \cup ResidentServiceCalls
                 \cup ResidentDeliveryCalls

HasRoute(call) == <<call.method, call.path>> \in DOMAIN RouteAt

\* MutationJournal.begin refuses what changes state and comes without a key.
Reachable(call) ==
    /\ HasRoute(call)
    /\ BodyAccepted(RouteAt[<<call.method, call.path>>],
           [keys |-> call.keys, locals |-> {}, status |-> call.status, body |-> call.body])
    /\ call.method # "GET" => call.keyed

\* Every request of the apps can be answered by this API: it has a route, and the route takes
\* what is sent.
AppCallsServed == \A call \in GuardCalls \cup ResidentCalls : Reachable(call)
=============================================================================
