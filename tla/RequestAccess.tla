--------------------------- MODULE RequestAccess ---------------------------
(***************************************************************************)
(* How the API admits one request: AccessSessionGuard loads the identity   *)
(* with several queries outside a transaction, PermissionGuard looks up    *)
(* the object and decides, while other requests end sessions, decide on    *)
(* memberships and move gates, and assignments of roles start and expire.  *)
(* The device's fingerprint and the claims of the token fit; a session, a  *)
(* user or a device that is not active is the one fact live.               *)
(***************************************************************************)
EXTENDS ApiContract, Permissions

CONSTANTS Assignments,   \* user_roles of the requester: [role, scope, at]
          FlatOf,        \* the flat of each of the requester's memberships
          Gates,         \* the gates that can be assigned to the requester or the device
          RequestKeys,   \* the routes asked for, a subset of DOMAIN RouteAt
          MaxEdits       \* bound on what changes while the request is served

\* RoleScope; the roles are those of ROLE_POLICIES.
ASSUME AssignmentsTyped ==
    \A a \in Assignments : a.role \in DOMAIN RolePolicy /\ a.scope \in {"SOCIETY", "FLAT", "GATE"}

VARIABLES facts,     \* the rows as they are: [live, recent, members, gates, roles]
          asked,     \* the request: its route, object and whether its body has a reason
          seen,      \* what its queries found, by fact
          verdict,   \* "pending" until it is admitted or refused
          ever,      \* all that was true at some time since it arrived
          always,    \* what was true at every time since
          edits

accessVars == <<facts, asked, seen, verdict, ever, always, edits>>

Memberships == DOMAIN FlatOf
Flats == {FlatOf[m] : m \in Memberships} \cup {"other flat"}
Fields == {"live", "recent", "members", "gates", "roles"}

\* Objects of a route: nobody's (the society), one's own, a flat, a row with flat and owner;
\* Missing when the row does not exist.
RouteAsked == RouteAt[asked.key]
Missing == [none |-> "object"]
Object(owner, flat) == [owner |-> owner, flat |-> flat, gate |-> "no gate"]
ObjectsOf(route) ==
    CASE route.resource = "SOCIETY" -> {Object("nobody", "no flat")}
      [] route.resource = "SELF" -> {Object("me", "no flat")}
      [] route.resource = "SESSION" -> {Object(o, "no flat") : o \in {"me", "other"}} \cup {Missing}
      [] route.resource \in {"PARAM_FLAT", "FAMILY"} ->
             {Object("nobody", f) : f \in Flats} \cup {Missing}
      [] route.resource = "MEMBERSHIP" ->
             {Object("me", FlatOf[m]) : m \in Memberships}
                 \cup {Object("other", f) : f \in Flats} \cup {Missing}

AccessInit ==
    /\ facts \in [live : {TRUE}, recent : BOOLEAN, members : SUBSET Memberships,
                  gates : SUBSET Gates, roles : SUBSET Assignments]
    /\ \E key \in RequestKeys :
          LET route == RouteAt[key]
          IN \E object \in ObjectsOf(route), reasoned \in BOOLEAN :
                /\ reasoned => "reason" \in route.must \cup route.may
                /\ asked = [key |-> key, object |-> object, reasoned |-> reasoned]
    /\ seen = <<>>
    /\ verdict = "pending"
    /\ ever = facts /\ always = facts
    /\ edits = 0

-----------------------------------------------------------------------------
(* CurrentIdentityService.load *)

Read(f) ==
    /\ verdict = "pending"
    /\ f \notin DOMAIN seen
    /\ seen' = [g \in DOMAIN seen \cup {f} |-> IF g = f THEN facts[f] ELSE seen[g]]

\* The session's row is found first; without a live one the request is not authenticated.
ReadSession ==
    /\ Read("live")
    /\ verdict' = IF facts.live THEN "pending" ELSE "UNAUTHENTICATED"
    /\ UNCHANGED <<facts, asked, ever, always, edits>>

\* The included rows follow, a query each: the user, memberships, gates, roles.
ReadRelated(f) ==
    /\ "live" \in DOMAIN seen
    /\ Read(f)
    /\ UNCHANGED <<facts, asked, verdict, ever, always, edits>>

Actor(f) ==
    [user |-> "me", flats |-> {FlatOf[m] : m \in f.members}, gates |-> f.gates,
     grants |-> UNION {DirectGrants(a, f.members, f.gates) : a \in f.roles}]

(* AuthorizationService.assertAny, with the one requirement a route has *)

\* OBJECT_RESOURCES: what one may not touch is answered as if it did not exist.
Hidden(route) == route.resource \notin {"SOCIETY", "SELF"}

\* Mutant: the recency of the sign-in is not passed on.
AllowedAnytime(f) ==
    /\ asked.object # Missing
    /\ Authorize(Actor(f), RouteAsked.action, asked.object, TRUE, asked.reasoned) = "ALLOWED"

Allowed(f) ==
    /\ asked.object # Missing
    /\ Authorize(Actor(f), RouteAsked.action, asked.object, f.recent, asked.reasoned)
          = "ALLOWED"

Decide ==
    /\ verdict = "pending"
    /\ DOMAIN seen = Fields
    /\ verdict' = IF Allowed(seen) THEN "ADMITTED"
                  ELSE IF Hidden(RouteAsked) THEN "NOT_FOUND" ELSE "FORBIDDEN"
    /\ UNCHANGED <<facts, asked, seen, ever, always, edits>>

-----------------------------------------------------------------------------
(* Meanwhile *)

Edit(changed) ==
    /\ verdict = "pending"
    /\ edits < MaxEdits
    /\ facts' = changed
    /\ ever' = [live |-> ever.live \/ changed.live, recent |-> ever.recent \/ changed.recent,
                members |-> ever.members \cup changed.members,
                gates |-> ever.gates \cup changed.gates, roles |-> ever.roles \cup changed.roles]
    /\ always' = [live |-> always.live /\ changed.live, recent |-> always.recent /\ changed.recent,
                  members |-> always.members \cap changed.members,
                  gates |-> always.gates \cap changed.gates,
                  roles |-> always.roles \cap changed.roles]
    /\ edits' = edits + 1
    /\ UNCHANGED <<asked, seen, verdict>>

Toggled(S, x) == IF x \in S THEN S \ {x} ELSE S \cup {x}

\* The session, its device or the user is ended or suspended; none of it comes back.
SessionEnds == facts.live /\ Edit([facts EXCEPT !.live = FALSE])

\* Ten minutes pass, or another sign-in of the same user renews them.
RecencyChanges == Edit([facts EXCEPT !.recent = ~@])

\* Approved, suspended, approved again, or past its end.
MembershipChanges(m) == Edit([facts EXCEPT !.members = Toggled(@, m)])

GateChanges(g) == Edit([facts EXCEPT !.gates = Toggled(@, g)])

\* An assignment starts, expires or is revoked.
AssignmentChanges(a) == Edit([facts EXCEPT !.roles = Toggled(@, a)])

AccessNext ==
    \/ ReadSession
    \/ \E f \in Fields : ReadRelated(f)
    \/ Decide
    \/ SessionEnds \/ RecencyChanges
    \/ \E m \in Memberships : MembershipChanges(m)
    \/ \E g \in Gates : GateChanges(g)
    \/ \E a \in Assignments : AssignmentChanges(a)

AccessSpec == AccessInit /\ [][AccessNext]_accessVars

-----------------------------------------------------------------------------
(* What the request may do, read off the roles' policies: a role assigned  *)
(* for the society, for a flat or for a gate allows what its policy allows *)
(* at the places it reaches while the requester has them.                  *)

\* The places of an assignment in the sense of the policies.
Reaches(a, f) ==
    {"SELF"} \cup CASE a.scope = "SOCIETY" -> {"SOCIETY"}
                    [] a.scope = "FLAT" -> IF a.at \in f.members THEN {"ACTIVE_FLAT"} ELSE {}
                    [] a.scope = "GATE" -> IF a.at \in f.gates THEN {"ASSIGNED_GATE"} ELSE {}

Applies(scope, f) ==
    \/ scope = "SOCIETY"
    \/ scope = "SELF" /\ asked.object.owner = "me"
    \/ scope = "ACTIVE_FLAT" /\ \E m \in f.members : FlatOf[m] = asked.object.flat
    \/ scope = "ASSIGNED_GATE" /\ asked.object.gate \in f.gates

Entitled(f) ==
    /\ f.live
    /\ asked.object # Missing
    /\ RouteAsked.action \in NeedsRecent => f.recent
    /\ RouteAsked.action \in NeedsReason => asked.reasoned
    /\ \E a \in f.roles : \E scope \in Reaches(a, f) :
          /\ <<scope, RouteAsked.action>> \in RolePolicy[a.role]
          /\ Applies(scope, f)

\* The assignment is in a scope of its role's policy; the column's default, SOCIETY, need not be.
InPolicy(a) ==
    \A g \in DirectGrants(a, Memberships, Gates) : g[1] = "TARGETED" \/ g \in RolePolicy[a.role]

\* No decision rests on what was never so while the request was served, though its queries
\* see the rows at different times: who is admitted was entitled by facts each true at some
\* time since the request arrived, so what was revoked before it arrived admits nobody, as
\* long as the assignments are in the scopes of their policies; and who was entitled by facts
\* that stood all the while is admitted.
DecisionsGrounded ==
    /\ verdict = "ADMITTED" /\ (\A a \in ever.roles : InPolicy(a)) => Entitled(ever)
    /\ verdict \notin {"pending", "ADMITTED"} => ~Entitled(always)

\* A resident whose membership is approved and who has a session may ask for the notices.
ResidentsSeeNotices ==
    verdict # "pending" /\ RouteAsked.action = "notice.read" /\ always.live
        /\ (\E a \in always.roles : a.role = "RESIDENT_OWNER" /\ a.at \in always.members)
        => verdict = "ADMITTED"

\* A membership in force is all a resident needs to see who lives in the flat.
MembersSeeTheirFlat ==
    verdict # "pending" /\ RouteAsked.path = "/memberships/flat/:flatId" /\ always.live
        /\ (\E m \in always.members : asked.object # Missing /\ FlatOf[m] = asked.object.flat)
        => verdict = "ADMITTED"
=============================================================================
