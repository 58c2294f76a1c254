----------------------------- MODULE MCConsole -----------------------------
(* Finite instances of the lists, the screens of the administration web, the *)
(* admission of a request and the keys an app retains.  Each is checked by   *)
(* itself, as in MCServices: Init chooses the part, and only its variables   *)
(* move.                                                                     *)
EXTENDS Listing, AdminConsole, RequestAccess, RetainedKeys

VARIABLE part

\* A resident, a guard and an administrator in one: each request needs one of the three.
RequesterRoles ==
    {[role |-> "RESIDENT_OWNER", scope |-> "FLAT", at |-> "m1"],
     [role |-> "GUARD", scope |-> "GATE", at |-> "g1"],
     [role |-> "SOCIETY_ADMIN", scope |-> "SOCIETY", at |-> "society"]}
RequesterFlats == "m1" :> "f1"

\* Routes on oneself, on what one owns, on a flat (a membership has an owner and a flat), and on
\* the society, one of them with recency and a reason.
SomeRoutes ==
    {<<"GET", "/users/me">>, <<"DELETE", "/auth/sessions/:id">>,
     <<"GET", "/memberships/flat/:flatId">>, <<"POST", "/roles">>, <<"GET", "/emergencies">>,
     <<"GET", "/notices">>}

\* A guard who acknowledges an emergency and a resident who sets the PIN.
SomeCalls ==
    {AppCall("POST", "/emergencies/:id/acknowledge", {"version"}), AppCall("PUT", "/auth/pin", {"pin"})}

consoleRunVars == <<part, listVars, consoleVars, accessVars, retryVars>>

\* Of an idle part any initial state will do.
AnyOf(S) == CHOOSE x \in S : TRUE
IdlePartsSettled ==
    /\ part # "lists" => table = {} /\ list = AnyOf(Lists)
    /\ part # "web" => role = "SUPER_ADMIN"
    /\ part # "access" =>
         /\ ~facts.recent /\ facts.members = {} /\ facts.gates = {} /\ facts.roles = {}
         /\ asked.key = <<"GET", "/users/me">>

ConsoleRunInit ==
    /\ part \in {"lists", "web", "access", "app"}
    /\ ListInit /\ ConsoleInit /\ AccessInit /\ RetryInit
    /\ IdlePartsSettled

ConsoleRunNext ==
    /\ UNCHANGED part
    /\ \/ part = "lists" /\ ListNext /\ UNCHANGED <<consoleVars, accessVars, retryVars>>
       \/ part = "web" /\ ConsoleNext /\ UNCHANGED <<listVars, accessVars, retryVars>>
       \/ part = "access" /\ AccessNext /\ UNCHANGED <<listVars, consoleVars, retryVars>>
       \/ part = "app" /\ RetryNext /\ UNCHANGED <<listVars, consoleVars, accessVars>>

ConsoleRunSpec == ConsoleRunInit /\ [][ConsoleRunNext]_consoleRunVars
=============================================================================
