---------------------------- MODULE AdminConsole ----------------------------
(***************************************************************************)
(* An administrator at the administration web: the profile loaded at the   *)
(* sign-in decides which screens, buttons and forms are shown, and the API *)
(* answers each request by what the account may do now.  Requests are      *)
(* answered one at a time; the rows of a list are only counted as none or  *)
(* some.                                                                   *)
(***************************************************************************)
EXTENDS ConsoleScreens, ApiContract, Permissions

CONSTANT ShownScreens    \* the screens the administrator opens, a subset of Screens

VARIABLES role,      \* the account's active role in the database, or NoRole
          recent,    \* last_authenticated_at is within ten minutes
          changed,   \* the role changed since the profile was loaded
          profile,   \* the role whose profile AuthProvider holds, or SignedOut
          screen,    \* the resource screen that is mounted, or NoScreen
          rows,      \* whether its table shows records
          control,   \* the control whose dialog is open, or NoControl
          choices,   \* the fields of the dialog whose options are loaded
          answer     \* the last answer: the call and the verdict

consoleVars == <<role, recent, changed, profile, screen, rows, control, choices, answer>>

NoRole == "NO_ROLE"
SignedOut == "SIGNED_OUT"
NoScreen == [none |-> "screen"]
NoControl == [none |-> "control"]
NoStatus == "NO_STATUS"
NoAnswer == [none |-> "answer"]

-----------------------------------------------------------------------------
(* The API's side *)

\* provision-admin assigns an administrator's role for the whole society.
AdminRoles == {"SOCIETY_ADMIN", "SUPER_ADMIN"}
GrantsOf ==
    [r \in AdminRoles \cup {NoRole} |->
        IF r = NoRole THEN {}
        ELSE DirectGrants([role |-> r, scope |-> "SOCIETY", at |-> "society"], {}, {})]

Administrator == [user |-> "admin", flats |-> {}, gates |-> {}, grants |-> GrantsOf[role]]

\* resolveResource: an administrator's object is his own only where the route says so.
ObjectOf(route) ==
    [owner |-> IF route.resource = "SELF" THEN "admin" ELSE "resident",
     flat |-> "flat", gate |-> "gate"]

\* assertAny, with the reason of the body; a denied object is hidden, a denied operation refused.
Permitted(route, call) ==
    Authorize(Administrator, route.action, ObjectOf(route), recent, "reason" \in call.keys)
        = "ALLOWED"

Verdict(key, call) ==
    IF key \notin DOMAIN RouteAt THEN "NO_ROUTE"
    ELSE LET route == RouteAt[key]
         IN IF ~Permitted(route, call)
            THEN IF route.resource = "SOCIETY" THEN "FORBIDDEN" ELSE "HIDDEN"
            ELSE IF BodyAccepted(route, call) THEN "SERVED" ELSE "INVALID"

\* What a request carries; a list also its limit, within the schema's or not.
Call(keys, status, fits) ==
    [keys |-> keys \cup (IF fits THEN {} ELSE {"limit over 100"}), locals |-> LocalTimes,
     status |-> status, body |-> TRUE]

Ask(method, path, call) ==
    answer' = [method |-> method, path |-> path, keys |-> call.keys,
               verdict |-> Verdict(<<method, path>>, call)]

\* /users/me: the effective permissions and the codes of the roles.
ProfileOf ==
    [r \in AdminRoles \cup {NoRole, SignedOut} |->
        IF r = SignedOut THEN NoProfile
        ELSE [roles |-> {r} \ {NoRole}, permissions |-> {g[2] : g \in GrantsOf[r]}]]

-----------------------------------------------------------------------------
(* The session *)

ConsoleInit ==
    /\ role \in AdminRoles
    /\ recent = FALSE /\ changed = FALSE
    /\ profile = SignedOut
    /\ screen = NoScreen /\ rows = FALSE
    /\ control = NoControl /\ choices = {}
    /\ answer = NoAnswer

LeaveScreen ==
    screen' = NoScreen /\ rows' = FALSE /\ control' = NoControl /\ choices' = {} /\ answer' = NoAnswer

\* login: only the two administrative roles may; it renews last_authenticated_at.
SignIn ==
    /\ profile = SignedOut
    /\ role \in AdminRoles
    /\ profile' = role /\ recent' = TRUE /\ changed' = FALSE
    /\ LeaveScreen
    /\ UNCHANGED role

\* refreshSession, when the page is loaded again: the profile is read anew.
Reload ==
    /\ profile # SignedOut
    /\ profile' = role /\ changed' = FALSE
    /\ LeaveScreen
    /\ UNCHANGED <<role, recent>>

TenMinutesPass ==
    /\ recent /\ recent' = FALSE
    /\ UNCHANGED <<role, changed, profile, screen, rows, control, choices, answer>>

\* An assignment is revoked or expires, another starts; the session lives on.
RoleChanges ==
    /\ \E r \in AdminRoles \cup {NoRole} : r # role /\ role' = r
    /\ changed' = TRUE
    /\ UNCHANGED <<recent, profile, screen, rows, control, choices, answer>>

-----------------------------------------------------------------------------
(* ResourceScreen *)

Can(permission) == HasPermission(ProfileOf[profile], permission)
IsCreate(c) == c.method = "POST" /\ c.path \in {"/guards/device-enrollments", screen.path}
Lookups(c) == (c.must \cup c.may) \cap DOMAIN LookupOf

\* The list's query: the status of the selector replaces the screen's own, and is left out
\* when the selector is empty (or is not shown).
ListKeysOf(s, chosen) == {"limit"} \cup (s.query \ {"status"}) \cup chosen

Load(s, chosen, status) ==
    /\ Ask("GET", s.path, Call(ListKeysOf(s, chosen), status, TRUE))
    /\ rows' \in IF answer'.verdict = "SERVED" THEN BOOLEAN ELSE {FALSE}

OpenScreen(s) ==
    /\ profile # SignedOut
    /\ screen = NoScreen
    /\ screen' = s
    /\ IF Can(s.permission) THEN Load(s, {}, NoStatus) ELSE UNCHANGED <<rows, answer>>
    /\ UNCHANGED <<role, recent, changed, profile, control, choices>>

\* Another page of the console, from which the next screen is opened.
CloseScreen ==
    /\ screen # NoScreen
    /\ LeaveScreen
    /\ UNCHANGED <<role, recent, changed, profile>>

\* The refresh button, the status selector, the search.
ReadList ==
    /\ screen # NoScreen
    /\ Can(screen.permission)
    /\ \/ \E chosen \in {{}, {"q"}} : Load(screen, chosen, NoStatus)
       \/ \E status \in screen.statuses : Load(screen, {"status"}, status)
    /\ UNCHANGED <<role, recent, changed, profile, screen, control, choices>>

\* RecordDetailDialog asks for the record at the list's path; the API has no such route.
ViewRecord ==
    /\ rows
    /\ Ask("GET", screen.path \o "/:id", Call({}, NoStatus, TRUE))
    /\ UNCHANGED <<role, recent, changed, profile, screen, rows, control, choices>>

\* The button to create stands in the header whether or not the list was served.
OpenControl(c) ==
    /\ control = NoControl
    /\ Can(c.permission)
    /\ IsCreate(c) \/ (Can(screen.permission) /\ rows)
    /\ control' = c
    /\ choices' = {}
    /\ answer' = NoAnswer
    /\ UNCHANGED <<role, recent, changed, profile, screen, rows>>

\* useLookup, on mounting the form and on "Retry loading options".
LoadChoices(f) ==
    /\ control # NoControl
    /\ f \in Lookups(control) \ choices
    /\ Ask("GET", LookupOf[f].path, Call({"limit"} \cup LookupOf[f].query, "ACTIVE",
                                         LookupLimit <= LargestLimit))
    /\ choices' = IF answer'.verdict = "SERVED" THEN choices \cup {f} ELSE choices
    /\ UNCHANGED <<role, recent, changed, profile, screen, rows, control>>

\* The form's schema: every required field is filled; a lookup can be once it is loaded.
Fillable(c) == c.must \cap Lookups(c) \subseteq choices

Submit ==
    /\ control # NoControl
    /\ Fillable(control)
    /\ \E extra \in {{}, control.may \ (Lookups(control) \ choices)},
          status \in StatusesOffered(control) :
          Ask(control.method, control.path, Call(control.must \cup extra, status, TRUE))
    /\ IF answer'.verdict = "SERVED" THEN control' = NoControl /\ choices' = {}
                                     ELSE UNCHANGED <<control, choices>>
    /\ UNCHANGED <<role, recent, changed, profile, screen, rows>>

Cancel ==
    /\ control # NoControl
    /\ control' = NoControl /\ choices' = {}
    /\ UNCHANGED <<role, recent, changed, profile, screen, rows, answer>>

ConsoleNext ==
    \/ SignIn \/ Reload \/ TenMinutesPass \/ RoleChanges
    \/ \E s \in ShownScreens : OpenScreen(s)
    \/ CloseScreen \/ ReadList \/ ViewRecord
    \/ screen # NoScreen /\ \E c \in screen.controls : OpenControl(c)
    \/ control # NoControl /\ \E f \in Lookups(control) : LoadChoices(f)
    \/ Submit \/ Cancel

ConsoleSpec == ConsoleInit /\ [][ConsoleNext]_consoleVars
-----------------------------------------------------------------------------
(* Who sees a control holds the permission its route asks for, though the  *)
(* console and the API name permissions independently: a request is        *)
(* refused for want of permission only when the role changed since the     *)
(* profile was loaded, the sign-in is no longer recent where the action    *)
(* needs it to be, or the body has no reason where it needs one.           *)
Refused(verdict) == verdict \in {"FORBIDDEN", "HIDDEN"}

ActionOf(call) == RouteAt[<<call.method, call.path>>].action

RefusalsExplained ==
    [][answer' # answer /\ answer' # NoAnswer /\ Refused(answer'.verdict) =>
          \/ changed
          \/ ActionOf(answer') \in NeedsRecent /\ ~recent
          \/ ActionOf(answer') \in NeedsReason /\ "reason" \notin answer'.keys
      ]_consoleVars

\* A screen the console offers is served by the API.
ScreensAreServed ==
    answer # NoAnswer /\ answer.method = "GET" /\ screen # NoScreen /\ answer.path = screen.path
        => answer.verdict = "SERVED"

\* A form that can be filled in can be sent: with the role unchanged and the sign-in recent,
\* the API has its route and takes what it sends.
FormsAreServed ==
    answer # NoAnswer /\ answer.method = "POST" /\ ~changed /\ recent => answer.verdict = "SERVED"
=============================================================================
