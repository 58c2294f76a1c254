--------------------------- MODULE RequestProofs ---------------------------
(***************************************************************************)
(* Theorems about one request.  Of the API (RequestAccess): for any        *)
(* assignments, memberships, gates and routes, and however often they      *)
(* change while it is served, a decision rests on what was so at some time *)
(* since the request arrived.  Of the apps (RetainedKeys): for any calls,  *)
(* number of retained keys and tries, a call that is tried again under the *)
(* key kept for it takes effect once.  Of the lists (Listing): for any     *)
(* rows, page size and number of pages, a walk to the end shows what       *)
(* matched all the while once.                                             *)
(***************************************************************************)
EXTENDS RequestAccess, RetainedKeys, Listing, FiniteSetTheorems, SequenceTheorems, WellFoundedInduction,
        TLAPS

-----------------------------------------------------------------------------
(* The policies *)

LEMMA PoliciesInCatalog == \A r \in DOMAIN RolePolicy : RolePolicy[r] \subseteq Catalog
<1>1. SelfPolicy \subseteq Catalog /\ AdminPolicy \subseteq Catalog
  BY DEF SelfPolicy, AdminPolicy
<1>2. ResidentReadPolicy \subseteq Catalog
  BY DEF ResidentReadPolicy, Catalog, Grant, Flat, FlatOrSociety, GateOrSociety, WorkOrSociety
<1>3. ResidentManagerPolicy \subseteq Catalog
  BY DEF ResidentManagerPolicy, Catalog, Grant, Flat, FlatOrSociety
<1>4. GuardPolicy \subseteq Catalog
  BY <1>1 DEF GuardPolicy, Catalog, Grant, GateOrSociety, Flat, WorkOrSociety
<1>5. SupervisorPolicy \subseteq Catalog
  BY <1>4 DEF SupervisorPolicy, Catalog, Grant, GateOrSociety
<1>6. StaffPolicy \subseteq Catalog
  BY <1>1 DEF StaffPolicy, Catalog, Grant, GateOrSociety, WorkOrSociety, Flat
<1>7. AccountantPolicy \subseteq Catalog
  BY <1>1 DEF AccountantPolicy, Catalog, Grant, GateOrSociety
<1> QED
  BY <1>1, <1>2, <1>3, <1>4, <1>5, <1>6, <1>7 DEF RolePolicy

-----------------------------------------------------------------------------
(* What a grant comes to *)

LEMMA DirectGrantMeans ==
    ASSUME NEW a, NEW members, NEW gates, NEW s, NEW act
    PROVE  <<s, act>> \in DirectGrants(a, members, gates) <=>
             /\ <<s, act>> \in Catalog
             /\ act \in RoleActions[a.role]
             /\ \/ s \in {"SELF", "TARGETED"}
                \/ s = "SOCIETY" /\ a.scope = "SOCIETY"
                \/ s = "ACTIVE_FLAT" /\ a.scope = "FLAT" /\ a.at \in members
                \/ s = "ASSIGNED_GATE" /\ a.scope = "GATE" /\ a.at \in gates
BY DEF DirectGrants

LEMMA MatchesMeans ==
    ASSUME NEW f, NEW s
    PROVE  ScopeMatches(s, Actor(f), asked.object) <=>
             \/ s = "SELF" /\ asked.object.owner = "me"
             \/ s = "ACTIVE_FLAT" /\ \E m \in f.members : FlatOf[m] = asked.object.flat
             \/ s = "ASSIGNED_GATE" /\ asked.object.gate \in f.gates
             \/ s = "SOCIETY"
<1>1. Actor(f).user = "me" /\ Actor(f).gates = f.gates
        /\ Actor(f).flats = {FlatOf[m] : m \in f.members}
  BY DEF Actor
<1> QED
  BY <1>1 DEF ScopeMatches

Act == RouteAsked.action

\* AuthorizationService admits when a grant's scope fits, with recency and reason if needed.
LEMMA AllowedMeans ==
    ASSUME NEW f, f.recent \in BOOLEAN, asked.reasoned \in BOOLEAN
    PROVE  Allowed(f) <=>
             /\ asked.object # Missing
             /\ Act \in NeedsRecent => f.recent
             /\ Act \in NeedsReason => asked.reasoned
             /\ \E a \in f.roles : \E s :
                   /\ <<s, Act>> \in DirectGrants(a, f.members, f.gates)
                   /\ ScopeMatches(s, Actor(f), asked.object)
<1> DEFINE grants == Actor(f).grants
           scopes == ScopesIn(grants, Act)
           fits == \E s \in scopes : ScopeMatches(s, Actor(f), asked.object)
<1>1. grants = UNION {DirectGrants(a, f.members, f.gates) : a \in f.roles}
  BY DEF Actor
<1>2. \A s : s \in scopes <=> \E a \in f.roles : <<s, Act>> \in DirectGrants(a, f.members, f.gates)
  <2>1. ASSUME NEW s PROVE <<s, Act>> \in grants => s \in Scopes
    <3>1. <<s, Act>>[1] = s
      OBVIOUS
    <3> QED
      BY <1>1, <3>1 DEF DirectGrants, Scopes
  <2> QED
    BY <1>1, <2>1 DEF ScopesIn
<1>3. fits <=> \E a \in f.roles : \E s :
                   /\ <<s, Act>> \in DirectGrants(a, f.members, f.gates)
                   /\ ScopeMatches(s, Actor(f), asked.object)
  BY <1>2
<1>4. fits => scopes # {}
  OBVIOUS
<1>5. NeedsRecent \subseteq NeedsReason
  BY DEF NeedsReason
<1> HIDE DEF fits, scopes, grants
<1>6. (Authorize(Actor(f), Act, asked.object, f.recent, asked.reasoned) = "ALLOWED")
        <=> /\ Act \in NeedsRecent => f.recent
            /\ Act \in NeedsReason => asked.reasoned
            /\ fits
  <2> DEFINE d == Authorize(Actor(f), Act, asked.object, f.recent, asked.reasoned)
  <2>1. d = CASE scopes = {} -> "ACTION_NOT_GRANTED"
              [] scopes # {} /\ Act \in NeedsRecent /\ ~f.recent -> "RECENT_AUTHENTICATION_REQUIRED"
              [] scopes # {} /\ (Act \in NeedsRecent => f.recent)
                   /\ Act \in NeedsReason /\ ~asked.reasoned -> "REASON_REQUIRED"
              [] OTHER -> IF fits THEN "ALLOWED" ELSE "SCOPE_MISMATCH"
    BY DEF Authorize, fits, scopes, grants
  <2> SUFFICES (d = "ALLOWED") <=> /\ Act \in NeedsRecent => f.recent
                                   /\ Act \in NeedsReason => asked.reasoned
                                   /\ fits
    OBVIOUS
  <2> HIDE DEF d
  <2>2. CASE scopes = {}
    <3>1. d = "ACTION_NOT_GRANTED"
      BY <2>1, <2>2
    <3> QED
      BY <3>1, <2>2, <1>4
  <2>3. CASE scopes # {} /\ Act \in NeedsRecent /\ ~f.recent
    <3>1. d = "RECENT_AUTHENTICATION_REQUIRED"
      BY <2>1, <2>3
    <3> QED
      BY <3>1, <2>3
  <2>4. CASE scopes # {} /\ (Act \in NeedsRecent => f.recent)
               /\ Act \in NeedsReason /\ ~asked.reasoned
    <3>1. d = "REASON_REQUIRED"
      BY <2>1, <2>4
    <3> QED
      BY <3>1, <2>4
  <2>5. CASE scopes # {} /\ (Act \in NeedsRecent => f.recent)
               /\ (Act \in NeedsReason => asked.reasoned)
    <3>1. d = IF fits THEN "ALLOWED" ELSE "SCOPE_MISMATCH"
      BY <2>1, <2>5
    <3> QED
      BY <3>1, <2>5
  <2> QED
    BY <2>2, <2>3, <2>4, <2>5
<1> QED
  BY <1>3, <1>6 DEF Allowed, Act

-----------------------------------------------------------------------------
(* More facts, more rights *)

FactTypes == [live : BOOLEAN, recent : BOOLEAN, members : SUBSET Memberships,
              gates : SUBSET Gates, roles : SUBSET Assignments]

\* Whatever is so in f is so in h.
AtMost(f, h) ==
    /\ f.live => h.live
    /\ f.recent => h.recent
    /\ f.members \subseteq h.members
    /\ f.gates \subseteq h.gates
    /\ f.roles \subseteq h.roles

Rows(f) ==
    /\ f.recent \in BOOLEAN
    /\ f.members \subseteq Memberships /\ f.gates \subseteq Gates /\ f.roles \subseteq Assignments

\* What is admitted by what was found is what the policies entitle to by no less.
LEMMA AdmittedIsEntitled ==
    ASSUME NEW f, NEW h, Rows(f), AtMost(f, h), asked.reasoned \in BOOLEAN,
           f.live, Allowed(f), \A a \in h.roles : InPolicy(a)
    PROVE  Entitled(h)
<1>1. /\ asked.object # Missing
      /\ Act \in NeedsRecent => f.recent
      /\ Act \in NeedsReason => asked.reasoned
      /\ \E a \in f.roles : \E s :
            /\ <<s, Act>> \in DirectGrants(a, f.members, f.gates)
            /\ ScopeMatches(s, Actor(f), asked.object)
  BY AllowedMeans DEF Rows
<1>2. PICK a \in f.roles : \E s : /\ <<s, Act>> \in DirectGrants(a, f.members, f.gates)
                                  /\ ScopeMatches(s, Actor(f), asked.object)
  BY <1>1
<1>3. PICK s : /\ <<s, Act>> \in DirectGrants(a, f.members, f.gates)
                /\ ScopeMatches(s, Actor(f), asked.object)
  BY <1>2
<1>4. /\ <<s, Act>> \in Catalog
      /\ Act \in RoleActions[a.role]
      /\ \/ s \in {"SELF", "TARGETED"}
         \/ s = "SOCIETY" /\ a.scope = "SOCIETY"
         \/ s = "ACTIVE_FLAT" /\ a.scope = "FLAT" /\ a.at \in f.members
         \/ s = "ASSIGNED_GATE" /\ a.scope = "GATE" /\ a.at \in f.gates
  BY <1>3, DirectGrantMeans
<1>5. \/ s = "SELF" /\ asked.object.owner = "me"
      \/ s = "ACTIVE_FLAT" /\ \E m \in f.members : FlatOf[m] = asked.object.flat
      \/ s = "ASSIGNED_GATE" /\ asked.object.gate \in f.gates
      \/ s = "SOCIETY"
  BY <1>3, MatchesMeans
<1>6. a \in h.roles /\ f.members \subseteq Memberships /\ f.gates \subseteq Gates
        /\ f.members \subseteq h.members /\ f.gates \subseteq h.gates
  BY DEF AtMost, Rows
<1>7. <<s, Act>> \in DirectGrants(a, Memberships, Gates)
  BY <1>4, <1>6, DirectGrantMeans
<1>8. <<s, Act>> \in RolePolicy[a.role]
  <2>1. <<s, Act>>[1] = s
    OBVIOUS
  <2> QED
    BY <1>5, <1>6, <1>7, <2>1 DEF InPolicy
<1>9. s \in Reaches(a, h)
  BY <1>4, <1>5, <1>6 DEF Reaches
<1>10. Applies(s, h)
  BY <1>5, <1>6 DEF Applies
<1>11. h.live /\ (Act \in NeedsRecent => h.recent)
  BY <1>1 DEF AtMost
<1> QED
  BY <1>1, <1>6, <1>8, <1>9, <1>10, <1>11 DEF Entitled, Act

\* What the policies entitle to is admitted by what was found when it is no less.
LEMMA EntitledIsAdmitted ==
    ASSUME NEW f, NEW h, Rows(h), f.roles \subseteq Assignments, AtMost(f, h),
           asked.reasoned \in BOOLEAN, Entitled(f)
    PROVE  Allowed(h)
<1>1. /\ asked.object # Missing
      /\ Act \in NeedsRecent => f.recent
      /\ Act \in NeedsReason => asked.reasoned
  BY DEF Entitled, Act
<1>0. PICK a \in f.roles : \E s \in Reaches(a, f) : /\ <<s, Act>> \in RolePolicy[a.role]
                                                    /\ Applies(s, f)
  BY DEF Entitled, Act
<1>2. PICK s \in Reaches(a, f) : /\ <<s, Act>> \in RolePolicy[a.role]
                                 /\ Applies(s, f)
  BY <1>0
<1>3. a \in h.roles /\ a.role \in DOMAIN RolePolicy /\ a.scope \in {"SOCIETY", "FLAT", "GATE"}
        /\ f.members \subseteq h.members /\ f.gates \subseteq h.gates
  BY AssignmentsTyped DEF AtMost
<1>4. \/ s = "SELF"
      \/ s = "SOCIETY" /\ a.scope = "SOCIETY"
      \/ s = "ACTIVE_FLAT" /\ a.scope = "FLAT" /\ a.at \in f.members
      \/ s = "ASSIGNED_GATE" /\ a.scope = "GATE" /\ a.at \in f.gates
  BY <1>2, <1>3 DEF Reaches
<1>5. <<s, Act>> \in Catalog
  BY <1>2, <1>3, PoliciesInCatalog
<1>6. Act \in RoleActions[a.role]
  <2>1. RoleActions[a.role] = {g[2] : g \in RolePolicy[a.role]}
    BY <1>3 DEF RoleActions
  <2>2. <<s, Act>>[2] = Act
    OBVIOUS
  <2> QED
    BY <1>2, <2>1, <2>2
<1>7. <<s, Act>> \in DirectGrants(a, h.members, h.gates)
  BY <1>3, <1>4, <1>5, <1>6, DirectGrantMeans
<1>8. ScopeMatches(s, Actor(h), asked.object)
  <2>1. \/ s = "SELF" /\ asked.object.owner = "me"
        \/ s = "ACTIVE_FLAT" /\ \E m \in h.members : FlatOf[m] = asked.object.flat
        \/ s = "ASSIGNED_GATE" /\ asked.object.gate \in h.gates
        \/ s = "SOCIETY"
    BY <1>2, <1>3 DEF Applies
  <2> QED
    BY <2>1, MatchesMeans
<1>9. Act \in NeedsRecent => h.recent
  BY <1>1 DEF AtMost
<1>10. \E b \in h.roles : \E t : /\ <<t, Act>> \in DirectGrants(b, h.members, h.gates)
                                 /\ ScopeMatches(t, Actor(h), asked.object)
  BY <1>3, <1>7, <1>8
<1> QED
  BY <1>1, <1>9, <1>10, AllowedMeans DEF Rows

-----------------------------------------------------------------------------
(* What a request has found lies between what always was and what ever was *)

SeenBetween ==
    /\ DOMAIN seen \subseteq Fields
    /\ "live" \in DOMAIN seen => (always.live => seen.live) /\ (seen.live => ever.live)
    /\ "recent" \in DOMAIN seen =>
         /\ seen.recent \in BOOLEAN
         /\ (always.recent => seen.recent) /\ (seen.recent => ever.recent)
    /\ "members" \in DOMAIN seen =>
         always.members \subseteq seen.members /\ seen.members \subseteq ever.members
    /\ "gates" \in DOMAIN seen =>
         always.gates \subseteq seen.gates /\ seen.gates \subseteq ever.gates
    /\ "roles" \in DOMAIN seen =>
         always.roles \subseteq seen.roles /\ seen.roles \subseteq ever.roles

AccessInv ==
    /\ facts \in FactTypes /\ ever \in FactTypes /\ always \in FactTypes
    /\ AtMost(always, facts) /\ AtMost(facts, ever)
    /\ asked.reasoned \in BOOLEAN
    /\ SeenBetween
    /\ verdict = "pending" /\ "live" \in DOMAIN seen => seen.live
    /\ DecisionsGrounded

LEMMA AccessStarts == AccessInit => AccessInv
<1> SUFFICES ASSUME AccessInit PROVE AccessInv
  OBVIOUS
<1>1. facts \in FactTypes /\ ever = facts /\ always = facts /\ verdict = "pending"
  BY DEF AccessInit, FactTypes
<1>2. DOMAIN seen = {}
  BY DEF AccessInit
<1>3. asked.reasoned \in BOOLEAN
  <2>1. PICK key \in RequestKeys :
          \E object \in ObjectsOf(RouteAt[key]), reasoned \in BOOLEAN :
             asked = [key |-> key, object |-> object, reasoned |-> reasoned]
    BY DEF AccessInit
  <2> QED
    BY <2>1
<1>4. AtMost(facts, facts)
  BY DEF AtMost
<1>5. DecisionsGrounded /\ SeenBetween
  BY <1>1, <1>2 DEF DecisionsGrounded, SeenBetween
<1> QED
  BY <1>1, <1>2, <1>3, <1>4, <1>5 DEF AccessInv

\* What changes while the request is served moves ever and always apart, the rows in between.
LEMMA EditsKeep ==
    ASSUME NEW changed \in FactTypes, AccessInv, Edit(changed)
    PROVE  AccessInv'
<1>1. /\ verdict = "pending" /\ verdict' = "pending" /\ asked' = asked /\ seen' = seen
      /\ facts' = changed
      /\ ever' = [live |-> ever.live \/ changed.live, recent |-> ever.recent \/ changed.recent,
                  members |-> ever.members \cup changed.members,
                  gates |-> ever.gates \cup changed.gates,
                  roles |-> ever.roles \cup changed.roles]
      /\ always' = [live |-> always.live /\ changed.live,
                    recent |-> always.recent /\ changed.recent,
                    members |-> always.members \cap changed.members,
                    gates |-> always.gates \cap changed.gates,
                    roles |-> always.roles \cap changed.roles]
  BY DEF Edit
<1>2. facts \in FactTypes /\ ever \in FactTypes /\ always \in FactTypes
  BY DEF AccessInv
<1>3. facts' \in FactTypes /\ ever' \in FactTypes /\ always' \in FactTypes
  BY <1>1, <1>2 DEF FactTypes
<1>4. /\ AtMost(always', facts') /\ AtMost(facts', ever')
      /\ AtMost(always', always) /\ AtMost(ever, ever')
  BY <1>1, <1>2 DEF FactTypes, AtMost
<1>5. SeenBetween'
  <2>1. SeenBetween
    BY DEF AccessInv
  <2> QED
    BY <1>1, <1>4, <2>1 DEF SeenBetween, AtMost
<1>6. DecisionsGrounded'
  BY <1>1 DEF DecisionsGrounded
<1>7. asked'.reasoned \in BOOLEAN /\ (verdict' = "pending" /\ "live" \in DOMAIN seen' => seen'.live)
  BY <1>1 DEF AccessInv
<1>8. AtMost(always, facts)' /\ AtMost(facts, ever)'
  BY <1>4 DEF AtMost
<1> QED
  BY <1>3, <1>5, <1>6, <1>7, <1>8 DEF AccessInv

LEMMA MeanwhileKeeps ==
    ASSUME AccessInv,
           \/ SessionEnds \/ RecencyChanges
           \/ \E m \in Memberships : MembershipChanges(m)
           \/ \E g \in Gates : GateChanges(g)
           \/ \E a \in Assignments : AssignmentChanges(a)
    PROVE  AccessInv'
<1>1. facts \in FactTypes
  BY DEF AccessInv
<1>2. ASSUME NEW S, NEW T, S \subseteq T, NEW x \in T PROVE Toggled(S, x) \subseteq T
  BY <1>2 DEF Toggled
<1>3. CASE SessionEnds
  <2>1. [facts EXCEPT !.live = FALSE] \in FactTypes
    BY <1>1 DEF FactTypes
  <2> QED
    BY <1>3, <2>1, EditsKeep DEF SessionEnds
<1>4. CASE RecencyChanges
  <2>1. [facts EXCEPT !.recent = ~@] \in FactTypes
    BY <1>1 DEF FactTypes
  <2> QED
    BY <1>4, <2>1, EditsKeep DEF RecencyChanges
<1>5. ASSUME NEW m \in Memberships, MembershipChanges(m) PROVE AccessInv'
  <2>1. Toggled(facts.members, m) \subseteq Memberships
    BY <1>1, <1>2 DEF FactTypes
  <2>2. [facts EXCEPT !.members = Toggled(@, m)] \in FactTypes
    BY <1>1, <2>1 DEF FactTypes
  <2> QED
    BY <1>5, <2>2, EditsKeep DEF MembershipChanges
<1>6. ASSUME NEW g \in Gates, GateChanges(g) PROVE AccessInv'
  <2>1. Toggled(facts.gates, g) \subseteq Gates
    BY <1>1, <1>2 DEF FactTypes
  <2>2. [facts EXCEPT !.gates = Toggled(@, g)] \in FactTypes
    BY <1>1, <2>1 DEF FactTypes
  <2> QED
    BY <1>6, <2>2, EditsKeep DEF GateChanges
<1>7. ASSUME NEW a \in Assignments, AssignmentChanges(a) PROVE AccessInv'
  <2>1. Toggled(facts.roles, a) \subseteq Assignments
    BY <1>1, <1>2 DEF FactTypes
  <2>2. [facts EXCEPT !.roles = Toggled(@, a)] \in FactTypes
    BY <1>1, <2>1 DEF FactTypes
  <2> QED
    BY <1>7, <2>2, EditsKeep DEF AssignmentChanges
<1> QED
  BY <1>3, <1>4, <1>5, <1>6, <1>7

\* A query finds a row as it is, which lies in between.
LEMMA ReadsBetween ==
    ASSUME AccessInv, NEW f \in Fields, Read(f), UNCHANGED <<facts, asked, ever, always>>
    PROVE  SeenBetween' /\ seen'[f] = facts[f]
<1>1. /\ f \notin DOMAIN seen
      /\ seen' = [g \in DOMAIN seen \cup {f} |-> IF g = f THEN facts[f] ELSE seen[g]]
  BY DEF Read
<1>2. DOMAIN seen' = DOMAIN seen \cup {f} /\ seen'[f] = facts[f]
        /\ \A g \in DOMAIN seen : seen'[g] = seen[g]
  BY <1>1
<1>3. SeenBetween /\ AtMost(always, facts) /\ AtMost(facts, ever) /\ facts \in FactTypes
  BY DEF AccessInv
<1>4. ever' = ever /\ always' = always
  OBVIOUS
<1>5. DOMAIN seen' \subseteq Fields
  BY <1>2, <1>3 DEF SeenBetween
<1>6. "live" \in DOMAIN seen' => (always.live => seen'.live) /\ (seen'.live => ever.live)
  BY <1>2, <1>3 DEF SeenBetween, AtMost
<1>7. "recent" \in DOMAIN seen' =>
        /\ seen'.recent \in BOOLEAN
        /\ (always.recent => seen'.recent) /\ (seen'.recent => ever.recent)
  BY <1>2, <1>3 DEF SeenBetween, AtMost, FactTypes
<1>8. "members" \in DOMAIN seen' =>
        always.members \subseteq seen'.members /\ seen'.members \subseteq ever.members
  BY <1>2, <1>3 DEF SeenBetween, AtMost
<1>9. "gates" \in DOMAIN seen' =>
        always.gates \subseteq seen'.gates /\ seen'.gates \subseteq ever.gates
  BY <1>2, <1>3 DEF SeenBetween, AtMost
<1>10. "roles" \in DOMAIN seen' =>
        always.roles \subseteq seen'.roles /\ seen'.roles \subseteq ever.roles
  BY <1>2, <1>3 DEF SeenBetween, AtMost
<1> QED
  BY <1>2, <1>4, <1>5, <1>6, <1>7, <1>8, <1>9, <1>10 DEF SeenBetween

LEMMA DecisionHolds ==
    ASSUME AccessInv, Decide
    PROVE  DecisionsGrounded'
<1>1. /\ verdict = "pending" /\ DOMAIN seen = Fields
      /\ verdict' = IF Allowed(seen) THEN "ADMITTED"
                    ELSE IF Hidden(RouteAsked) THEN "NOT_FOUND" ELSE "FORBIDDEN"
      /\ UNCHANGED <<facts, asked, seen, ever, always, edits>>
  BY DEF Decide
<1>2. SeenBetween /\ ever \in FactTypes /\ always \in FactTypes /\ asked.reasoned \in BOOLEAN
  BY DEF AccessInv
<1>3. AtMost(always, seen) /\ AtMost(seen, ever)
  BY <1>1, <1>2 DEF SeenBetween, AtMost, Fields
<1>4. Rows(seen)
  BY <1>1, <1>2 DEF SeenBetween, Rows, Fields, FactTypes
<1>5. seen.live
  BY <1>1 DEF AccessInv, Fields
<1>6. Allowed(seen) /\ (\A a \in ever.roles : InPolicy(a)) => Entitled(ever)
  BY <1>2, <1>3, <1>4, <1>5, AdmittedIsEntitled
<1>7. Entitled(always) => Allowed(seen)
  BY <1>2, <1>3, <1>4, EntitledIsAdmitted DEF FactTypes
<1>8. (verdict' = "ADMITTED") <=> Allowed(seen)
  BY <1>1
<1>9. Entitled(ever)' <=> Entitled(ever)
  BY <1>1 DEF Entitled, RouteAsked, Reaches, Applies
<1>10. Entitled(always)' <=> Entitled(always)
  BY <1>1 DEF Entitled, RouteAsked, Reaches, Applies
<1> QED
  BY <1>1, <1>6, <1>7, <1>8, <1>9, <1>10 DEF DecisionsGrounded

LEMMA AccessStep ==
    ASSUME AccessInv, [AccessNext]_accessVars
    PROVE  AccessInv'
<1>1. facts \in FactTypes /\ ever \in FactTypes /\ always \in FactTypes
        /\ AtMost(always, facts) /\ AtMost(facts, ever) /\ asked.reasoned \in BOOLEAN
  BY DEF AccessInv
<1>2. ASSUME UNCHANGED <<facts, asked, ever, always>>
      PROVE  /\ facts' \in FactTypes /\ ever' \in FactTypes /\ always' \in FactTypes
             /\ AtMost(always, facts)' /\ AtMost(facts, ever)' /\ asked'.reasoned \in BOOLEAN
  BY <1>1, <1>2 DEF AtMost
<1>3. CASE ReadSession
  <2>1. SeenBetween' /\ seen'["live"] = facts["live"]
    BY <1>3, ReadsBetween DEF ReadSession, Fields
  <2>2. facts' = facts /\ asked' = asked /\ ever' = ever /\ always' = always
          /\ verdict' = IF facts.live THEN "pending" ELSE "UNAUTHENTICATED"
    BY <1>3 DEF ReadSession
  <2>3. CASE facts.live
    BY <1>2, <2>1, <2>2, <2>3 DEF AccessInv, DecisionsGrounded
  <2>4. CASE ~facts.live
    <3>1. ~always.live
      BY <1>1, <2>4 DEF AtMost
    <3>2. ~Entitled(always)'
      BY <2>2, <3>1 DEF Entitled
    <3>3. DecisionsGrounded' /\ verdict' # "pending"
      BY <2>2, <2>4, <3>2 DEF DecisionsGrounded
    <3> QED
      BY <1>2, <2>1, <2>2, <3>3 DEF AccessInv
  <2> QED
    BY <2>3, <2>4
<1>4. ASSUME NEW f \in Fields, ReadRelated(f) PROVE AccessInv'
  <2>1. /\ verdict = "pending" /\ verdict' = "pending" /\ "live" \in DOMAIN seen /\ Read(f)
        /\ facts' = facts /\ asked' = asked /\ ever' = ever /\ always' = always
    BY <1>4 DEF ReadRelated, Read
  <2>2. SeenBetween'
    BY <2>1, ReadsBetween
  <2>3. seen'["live"] = seen["live"]
    BY <2>1 DEF Read
  <2>4. seen.live
    BY <2>1 DEF AccessInv
  <2>5. DecisionsGrounded'
    BY <2>1 DEF DecisionsGrounded
  <2> QED
    BY <1>2, <2>1, <2>2, <2>3, <2>4, <2>5 DEF AccessInv
<1>5. CASE Decide
  <2>1. /\ facts' = facts /\ asked' = asked /\ ever' = ever /\ always' = always /\ seen' = seen
        /\ verdict' # "pending"
    BY <1>5 DEF Decide
  <2>2. SeenBetween'
    BY <2>1 DEF AccessInv, SeenBetween
  <2> QED
    BY <1>2, <1>5, <2>1, <2>2, DecisionHolds DEF AccessInv
<1>6. CASE UNCHANGED accessVars
  <2>1. /\ facts' = facts /\ asked' = asked /\ ever' = ever /\ always' = always /\ seen' = seen
        /\ verdict' = verdict
    BY <1>6 DEF accessVars
  <2>2. SeenBetween' /\ (verdict' = "pending" /\ "live" \in DOMAIN seen' => seen'.live)
    BY <2>1 DEF AccessInv, SeenBetween
  <2>3. DecisionsGrounded'
    <3>1. DecisionsGrounded
      BY DEF AccessInv
    <3> QED
      BY <2>1, <3>1 DEF DecisionsGrounded, Entitled, RouteAsked, Reaches, Applies
  <2> QED
    BY <1>2, <2>1, <2>2, <2>3 DEF AccessInv
<1> QED
  BY <1>3, <1>4, <1>5, <1>6, MeanwhileKeeps DEF AccessNext

\* Whoever is admitted was entitled by what was true at some time since the request arrived,
\* and whoever was entitled all the while is admitted, whatever changes between its queries.
THEOREM AccessSpecGrounded == AccessSpec => []DecisionsGrounded
<1>1. AccessInit => AccessInv
  BY AccessStarts
<1>2. AccessInv /\ [AccessNext]_accessVars => AccessInv'
  BY AccessStep
<1>3. AccessInv => DecisionsGrounded
  BY DEF AccessInv
<1> QED
  BY <1>1, <1>2, <1>3, PTL DEF AccessSpec

-----------------------------------------------------------------------------
(* One call: the keys kept for it, its tries, what took effect, successes *)

Ats == {"sent", "ok", "refused", "busy"}
EntriesOf == [call : Submitted, key : Nat]
Tries == [call : Submitted, proposed : Nat, key : Nat, at : Ats, awaited : BOOLEAN,
          retried : BOOLEAN]
Effect(c, k) == [key |-> k, call |-> c]

\* The keys the next try may be sent under, or is under way with.
Current(K, T) == K \cup {t.key : t \in {u \in T : u.awaited}}
Ahead(c, K, T, A) == \E k \in Current(K, T) : Effect(c, k) \in A

\* A call none of whose keys was let go: one key is current, and only that one's effect
\* may be ahead of the successes; whoever is given up on has that key, or no effect left.
CallOK(c, K, T, A, n) ==
    /\ \A j, k \in K : j = k
    /\ \A t, u \in T : t.awaited /\ u.awaited => t = u
    /\ \A t \in T : t.awaited =>
          /\ \A k \in K : t.key = k
          /\ t.at = "ok" => Effect(c, t.key) \in A
          /\ K = {} => t.key = t.proposed /\ (t.at # "ok" => Effect(c, t.key) \notin A)
    /\ \A t \in T : ~t.awaited => t.key \in K \/ Effect(c, t.key) \in A
    /\ Cardinality(A) = n + (IF Ahead(c, K, T, A) THEN 1 ELSE 0)

LEMMA CallTapped ==
    ASSUME NEW c, NEW K, NEW T, NEW A, NEW n, CallOK(c, K, T, A, n),
           \A u \in T : ~u.awaited,
           NEW t, t.awaited, t.at = "sent", t.proposed = t.key \/ K # {},
           K # {} => t.key \in K, K = {} => Effect(c, t.key) \notin A
    PROVE  CallOK(c, K, T \cup {t}, A, n)
<1>1. Ahead(c, K, T \cup {t}, A) <=> Ahead(c, K, T, A)
  BY DEF Ahead, Current
<1> QED
  BY <1>1 DEF CallOK

LEMMA CallResent ==
    ASSUME NEW c, NEW K, NEW T, NEW A, NEW n, CallOK(c, K, T, A, n),
           NEW t \in T, t.awaited, t.at # "ok",
           NEW u, u.awaited, u.at # "ok", u.key = t.key, u.proposed = t.proposed
    PROVE  CallOK(c, K, (T \ {t}) \cup {u}, A, n)
<1>1. \A v \in T : v.awaited => v = t
  BY DEF CallOK
<1>2. Ahead(c, K, (T \ {t}) \cup {u}, A) <=> Ahead(c, K, T, A)
  BY <1>1 DEF Ahead, Current
<1> QED
  BY <1>1, <1>2 DEF CallOK

LEMMA CallDropped ==
    ASSUME NEW c, NEW K, NEW T, NEW A, NEW n, CallOK(c, K, T, A, n),
           NEW U \in SUBSET T, \A t \in T \ U : t.awaited => t.at # "ok"
    PROVE  CallOK(c, K, U, A, n)
<1>1. Ahead(c, K, U, A) <=> Ahead(c, K, T, A)
  <2>1. Ahead(c, K, U, A) => Ahead(c, K, T, A)
    BY DEF Ahead, Current
  <2>2. ASSUME NEW k \in K, Effect(c, k) \in A PROVE Ahead(c, K, U, A)
    BY <2>2 DEF Ahead, Current
  <2>3. ASSUME NEW t \in T, t.awaited, Effect(c, t.key) \in A PROVE Ahead(c, K, U, A)
    <3>1. CASE K = {}
      BY <2>3, <3>1 DEF CallOK, Ahead, Current
    <3>2. CASE K # {}
      BY <2>3, <3>2 DEF CallOK, Ahead, Current
    <3> QED
      BY <3>1, <3>2
  <2> QED
    BY <2>1, <2>2, <2>3 DEF Ahead, Current
<1> QED
  BY <1>1 DEF CallOK

LEMMA CallRetained ==
    ASSUME NEW c, NEW K, NEW T, NEW A, NEW n, CallOK(c, K, T, A, n),
           NEW t \in T, t.awaited,
           NEW U, \A u \in U : (u \in T /\ u # t) \/ (~u.awaited /\ u.key = t.key)
    PROVE  CallOK(c, {t.key}, U, A, n)
<1>1. \A v \in T : v.awaited => v = t
  BY DEF CallOK
<1>2. \A u \in U : ~u.awaited
  BY <1>1
<1>3. \A k \in K : k = t.key
  BY DEF CallOK
<1>4. Ahead(c, {t.key}, U, A) <=> Ahead(c, K, T, A)
  BY <1>1, <1>2, <1>3 DEF Ahead, Current
<1>5. \A u \in U : u.key = t.key \/ Effect(c, u.key) \in A
  BY <1>2, <1>3 DEF CallOK
<1> QED
  BY <1>2, <1>4, <1>5 DEF CallOK

LEMMA CallSucceeded ==
    ASSUME NEW c, NEW K, NEW T, NEW A, NEW n \in Nat, CallOK(c, K, T, A, n),
           NEW t \in T, t.awaited, t.at = "ok"
    PROVE  CallOK(c, {}, T \ {t}, A, n + 1)
<1>1. \A v \in T \ {t} : ~v.awaited
  BY DEF CallOK
<1>2. Effect(c, t.key) \in A /\ \A k \in K : k = t.key
  BY DEF CallOK
<1>3. Ahead(c, K, T, A) /\ ~Ahead(c, {}, T \ {t}, A)
  BY <1>1, <1>2 DEF Ahead, Current
<1>4. \A v \in T \ {t} : Effect(c, v.key) \in A
  BY <1>1, <1>2 DEF CallOK
<1>5. Cardinality(A) = n + 1
  BY <1>3 DEF CallOK
<1> QED
  BY <1>1, <1>3, <1>4, <1>5 DEF CallOK

LEMMA CallEffective ==
    ASSUME NEW c, NEW K, NEW T, NEW A, NEW n \in Nat, CallOK(c, K, T, A, n), IsFiniteSet(A),
           NEW t \in T, NEW U,
           IF t.awaited
           THEN \E u : /\ u.awaited /\ u.at = "ok" /\ u.key = t.key /\ u.proposed = t.proposed
                       /\ U = (T \ {t}) \cup {u}
           ELSE U = T \ {t}
    PROVE  CallOK(c, K, U, A \cup {Effect(c, t.key)}, n)
<1> DEFINE e == Effect(c, t.key)
<1>1. CASE t.awaited
  <2>0. PICK u : /\ u.awaited /\ u.at = "ok" /\ u.key = t.key /\ u.proposed = t.proposed
                 /\ U = (T \ {t}) \cup {u}
    BY <1>1
  <2>1. /\ \A v \in T : v.awaited => v = t
        /\ \A k \in K : k = t.key
    BY <1>1 DEF CallOK
  <2>2. Current(K, U) = {t.key} /\ Current(K, T) = {t.key}
    BY <1>1, <2>0, <2>1 DEF Current
  <2>3. Ahead(c, K, U, A \cup {e}) /\ (Ahead(c, K, T, A) <=> e \in A)
    BY <2>2 DEF Ahead
  <2>4. Cardinality(A \cup {e}) = n + 1
    <3>1. CASE e \in A
      BY <2>3, <3>1 DEF CallOK
    <3>2. CASE e \notin A
      <4>1. Cardinality(A) = n
        BY <2>3, <3>2 DEF CallOK
      <4> HIDE DEF e
      <4> QED
        BY <3>2, <4>1, FS_AddElement
    <3> QED
      BY <3>1, <3>2
  <2>5. \A v \in U : v.awaited => v = u
    BY <2>0, <2>1
  <2> HIDE DEF e
  <2>6. e = Effect(c, t.key)
    BY DEF e
  <2>7. \A v \in U : ~v.awaited => v \in T
    BY <2>0
  <2> QED
    BY <2>0, <2>1, <2>3, <2>4, <2>5, <2>6, <2>7 DEF CallOK
<1>2. CASE ~t.awaited
  <2>1. U = T \ {t} /\ (t.key \in K \/ e \in A)
    BY <1>2 DEF CallOK
  <2>2. Current(K, U) = Current(K, T)
    BY <1>2, <2>1 DEF Current
  <2>3. CASE e \in A
    <3>1. A \cup {e} = A
      BY <2>3
    <3> QED
      BY <2>1, <2>2, <3>1 DEF CallOK, Ahead
  <2>4. CASE e \notin A
    <3>1. t.key \in K /\ \A k \in Current(K, T) : k = t.key
      BY <2>1, <2>4 DEF CallOK, Current
    <3>2. Ahead(c, K, U, A \cup {e}) /\ ~Ahead(c, K, T, A)
      BY <2>2, <2>4, <3>1 DEF Ahead, Current
    <3>3. Cardinality(A \cup {e}) = n + 1
      <4>1. Cardinality(A) = n
        BY <3>2 DEF CallOK
      <4> HIDE DEF e
      <4> QED
        BY <2>4, <4>1, FS_AddElement
    <3> HIDE DEF e
    <3>4. \A v \in U : v \in T /\ (v.awaited => K # {})
      BY <2>1, <3>1
    <3>5. Cardinality(A \cup {e}) = n + (IF Ahead(c, K, U, A \cup {e}) THEN 1 ELSE 0)
      BY <3>2, <3>3
    <3>6. \A v \in U : v.awaited =>
             /\ \A k \in K : v.key = k
             /\ v.at = "ok" => Effect(c, v.key) \in A
      BY <3>4 DEF CallOK
    <3>7. \A v \in U : ~v.awaited => v.key \in K \/ Effect(c, v.key) \in A
      BY <3>4 DEF CallOK
    <3>8. /\ \A j, k \in K : j = k
          /\ \A v, w \in U : v.awaited /\ w.awaited => v = w
      BY <3>4 DEF CallOK
    <3> DEFINE B == A \cup {e}
    <3>9. \A x \in A : x \in B
      OBVIOUS
    <3>10. Cardinality(B) = n + (IF Ahead(c, K, U, B) THEN 1 ELSE 0)
      BY <3>5
    <3> HIDE DEF B
    <3>11. CallOK(c, K, U, B, n)
      BY ONLY <3>4, <3>6, <3>7, <3>8, <3>9, <3>10 DEF CallOK
    <3> QED
      BY <3>11 DEF B, e
  <2> QED
    BY <2>3, <2>4
<1> QED
  BY <1>1, <1>2

-----------------------------------------------------------------------------
(* The retained keys *)

Entries(s) == {s[i] : i \in DOMAIN s}
OnePerCall(s) == \A i, j \in DOMAIN s : s[i].call = s[j].call => i = j

LEMMA EntriesTyped ==
    ASSUME NEW s \in Seq(EntriesOf)
    PROVE  \A e \in Entries(s) : e \in EntriesOf
BY DEF Entries

LEMMA RemoveAtShifts ==
    ASSUME NEW S, NEW s \in Seq(S), NEW i \in 1..Len(s)
    PROVE  /\ RemoveAt(s, i) \in Seq(S)
           /\ Len(RemoveAt(s, i)) = Len(s) - 1
           /\ \A j \in 1 .. Len(s) - 1 :
                  RemoveAt(s, i)[j] = s[IF j < i THEN j ELSE j + 1]
<1> DEFINE a == SubSeq(s, 1, i - 1)  b == SubSeq(s, i + 1, Len(s))
<1>1. a \in Seq(S) /\ Len(a) = i - 1 /\ \A j \in 1 .. i - 1 : a[j] = s[j]
  OBVIOUS
<1>2. b \in Seq(S) /\ Len(b) = Len(s) - i /\ \A j \in 1 .. Len(s) - i : b[j] = s[i + j]
  OBVIOUS
<1>3. RemoveAt(s, i) = a \o b
  BY DEF RemoveAt
<1> HIDE DEF a, b
<1>4. /\ a \o b \in Seq(S) /\ Len(a \o b) = Len(s) - 1
      /\ \A j \in 1 .. Len(s) - 1 : (a \o b)[j] = IF j <= i - 1 THEN a[j] ELSE b[j - (i - 1)]
  <2>1. Len(s) \in Nat /\ i - 1 \in Nat /\ Len(s) - i \in Nat
    OBVIOUS
  <2>2. /\ a \o b \in Seq(S) /\ Len(a \o b) = Len(a) + Len(b)
        /\ \A j \in 1 .. Len(a) + Len(b) :
               (a \o b)[j] = IF j <= Len(a) THEN a[j] ELSE b[j - Len(a)]
    BY ONLY <1>1, <1>2, ConcatProperties
  <2>3. Len(a) + Len(b) = Len(s) - 1
    BY ONLY <1>1, <1>2, <2>1
  <2> QED
    BY ONLY <1>1, <2>2, <2>3
<1>5. \A j \in 1 .. Len(s) - 1 : (a \o b)[j] = s[IF j < i THEN j ELSE j + 1]
  BY <1>1, <1>2, <1>4
<1> QED
  BY <1>3, <1>4, <1>5

LEMMA WithoutEntries ==
    ASSUME NEW s \in Seq(EntriesOf), OnePerCall(s), NEW c
    PROVE  /\ Without(s, c) \in Seq(EntriesOf) /\ OnePerCall(Without(s, c))
           /\ Entries(Without(s, c)) = {e \in Entries(s) : e.call # c}
<1>1. DOMAIN s = 1..Len(s)
  OBVIOUS
<1>2. CASE \A i \in DOMAIN s : s[i].call # c
  BY <1>2 DEF Without, Entries
<1>3. CASE \E i \in DOMAIN s : s[i].call = c
  <2>1. PICK i \in 1..Len(s) :
            s[i].call = c /\ i = CHOOSE j \in {k \in DOMAIN s : s[k].call = c} : TRUE
    BY <1>3
  <2> DEFINE w == RemoveAt(s, i)
  <2>2. Without(s, c) = w
    BY <1>3, <2>1 DEF Without
  <2>3. /\ w \in Seq(EntriesOf) /\ Len(w) = Len(s) - 1 /\ DOMAIN w = 1 .. Len(s) - 1
        /\ \A j \in 1 .. Len(s) - 1 : w[j] = s[IF j < i THEN j ELSE j + 1]
    BY RemoveAtShifts
  <2> HIDE DEF w
  <2>4. OnePerCall(w)
    <3>1. SUFFICES ASSUME NEW j \in 1 .. Len(s) - 1, NEW l \in 1 .. Len(s) - 1,
                          w[j].call = w[l].call
                   PROVE  j = l
      BY <2>3 DEF OnePerCall
    <3> DEFINE jj == IF j < i THEN j ELSE j + 1
               ll == IF l < i THEN l ELSE l + 1
    <3>2. jj \in 1..Len(s) /\ ll \in 1..Len(s) /\ (jj = ll => j = l)
      OBVIOUS
    <3>3. w[j] = s[jj] /\ w[l] = s[ll]
      BY <2>3
    <3> HIDE DEF jj, ll
    <3> QED
      BY <1>1, <3>1, <3>2, <3>3 DEF OnePerCall
  <2>5. ASSUME NEW e \in Entries(w) PROVE e \in Entries(s) /\ e.call # c
    <3>1. PICK j \in 1 .. Len(s) - 1 : e = w[j]
      BY <2>3 DEF Entries
    <3>2. e = s[IF j < i THEN j ELSE j + 1]
      BY <2>3, <3>1
    <3>3. PICK k \in DOMAIN s : e = s[k] /\ k # i
      BY <1>1, <3>2
    <3> QED
      BY <1>1, <2>1, <3>3 DEF OnePerCall, Entries
  <2>6. ASSUME NEW e \in Entries(s), e.call # c PROVE e \in Entries(w)
    <3>1. PICK k \in 1..Len(s) : e = s[k] /\ k # i
      BY <1>1, <2>1, <2>6 DEF Entries
    <3>2. CASE k < i
      BY <2>3, <3>1, <3>2 DEF Entries
    <3>3. CASE k > i
      <4>1. k - 1 \in 1 .. Len(s) - 1 /\ w[k - 1] = s[k]
        BY <2>3, <3>1, <3>3
      <4> QED
        BY <2>3, <3>1, <4>1 DEF Entries
    <3> QED
      BY <3>1, <3>2, <3>3
  <2> QED
    BY <2>2, <2>3, <2>4, <2>5, <2>6
<1> QED
  BY <1>2, <1>3

Settled(c) == \A l \in lapses : l.call # c

\* A key that goes is remembered with its call.
LEMMA PruneRemembers ==
    ASSUME NEW s \in Seq(EntriesOf), OnePerCall(s), NEW lost, Prune(s, lost)
    PROVE  /\ kept' \in Seq(EntriesOf) /\ OnePerCall(kept') /\ Entries(kept') \subseteq Entries(s)
           /\ \A c : Settled(c)' =>
                 /\ Settled(c) /\ \A l \in lost : l.call # c
                 /\ \A e \in Entries(s) : e.call = c => e \in Entries(kept')
<1>1. PICK expired \in 0 .. Len(s) : kept' = Pruned(s, expired)
  BY DEF Prune
<1> DEFINE young == SubSeq(s, expired + 1, Len(s))
<1>2. /\ young \in Seq(EntriesOf) /\ Len(young) = Len(s) - expired
      /\ \A i \in 1 .. Len(s) - expired : young[i] = s[expired + i]
  OBVIOUS
<1>3. kept' = IF Len(young) > MaxKept THEN SubSeq(young, Len(young) - MaxKept + 1, Len(young))
              ELSE young
  BY <1>1 DEF Pruned
<1> HIDE DEF young
<1>4. PICK m \in Nat : /\ m <= Len(s) /\ kept' \in Seq(EntriesOf) /\ Len(kept') = Len(s) - m
                       /\ \A i \in 1 .. Len(s) - m : kept'[i] = s[m + i]
  <2>1. CASE Len(young) > MaxKept
    <3>1. /\ kept' \in Seq(EntriesOf) /\ Len(kept') = MaxKept
          /\ \A i \in 1 .. MaxKept : kept'[i] = young[Len(young) - MaxKept + i]
      <4>1. kept' = SubSeq(young, Len(young) - MaxKept + 1, Len(young))
        BY <1>3, <2>1
      <4>2. Len(young) \in Nat /\ Len(young) - MaxKept + 1 \in 1..Len(young) + 1
        BY <1>2, <2>1, KeptBounded
      <4>3. \A i \in 1..Len(young) : young[i] \in EntriesOf
        BY <1>2
      <4> QED
        BY <1>2, <4>1, <4>2, <4>3, KeptBounded, SubSeqProperties
    <3>2. \A i \in 1 .. MaxKept : kept'[i] = s[(Len(s) - MaxKept) + i]
      <4> SUFFICES ASSUME NEW i \in 1 .. MaxKept
                   PROVE  kept'[i] = s[(Len(s) - MaxKept) + i]
        OBVIOUS
      <4>1. Len(s) \in Nat /\ expired \in Nat
        OBVIOUS
      <4>2. Len(young) - MaxKept + i \in 1 .. Len(s) - expired
        BY <1>2, <2>1, <4>1, KeptBounded
      <4>3. young[Len(young) - MaxKept + i] = s[expired + (Len(young) - MaxKept + i)]
        BY <1>2, <4>2
      <4>4. expired + (Len(young) - MaxKept + i) = (Len(s) - MaxKept) + i
        BY <1>2, <4>1, KeptBounded
      <4> QED
        BY <3>1, <4>3, <4>4
    <3> QED
      <4>1. Len(s) - MaxKept \in Nat /\ Len(s) \in Nat
        BY <1>2, <2>1, KeptBounded
      <4>2. Len(s) - (Len(s) - MaxKept) = MaxKept
        BY <4>1, KeptBounded
      <4>3. Len(s) - MaxKept <= Len(s)
        BY <4>1, KeptBounded
      <4> QED
        BY <3>1, <3>2, <4>1, <4>2, <4>3
  <2>2. CASE ~(Len(young) > MaxKept)
    BY <1>2, <1>3, <2>2
  <2> QED
    BY <2>1, <2>2
<1>5. DOMAIN kept' = 1 .. Len(s) - m /\ DOMAIN s = 1 .. Len(s) /\ Len(s) \in Nat
  BY <1>4
<1>6. OnePerCall(kept')
  <2> SUFFICES ASSUME NEW i \in 1 .. Len(s) - m, NEW j \in 1 .. Len(s) - m,
                      kept'[i].call = kept'[j].call
               PROVE  i = j
    BY <1>5 DEF OnePerCall
  <2>1. kept'[i] = s[m + i] /\ kept'[j] = s[m + j]
    BY <1>4
  <2>2. m + i \in DOMAIN s /\ m + j \in DOMAIN s
    BY <1>5
  <2>3. m + i = m + j
    BY <2>1, <2>2 DEF OnePerCall
  <2> QED
    BY <2>3
<1>7. Entries(kept') \subseteq Entries(s)
  <2>1. \A i \in 1 .. Len(s) - m : kept'[i] = s[m + i] /\ m + i \in DOMAIN s
    BY <1>4, <1>5
  <2> QED
    BY <1>5, <2>1 DEF Entries
<1>8. ASSUME NEW c, Settled(c)'
      PROVE  /\ Settled(c) /\ \A l \in lost : l.call # c
             /\ \A e \in Entries(s) : e.call = c => e \in Entries(kept')
  <2>1. lapses' = lapses \cup lost \cup Lapsed(CallsOf(s) \ CallsOf(kept'), "dropped")
    BY DEF Prune
  <2>2. Settled(c) /\ \A l \in lost : l.call # c
    BY <1>8, <2>1 DEF Settled
  <2>3. c \notin CallsOf(s) \ CallsOf(kept')
    <3> SUFFICES ASSUME c \in CallsOf(s) \ CallsOf(kept') PROVE FALSE
      OBVIOUS
    <3>1. [call |-> c, why |-> "dropped"] \in lapses'
      BY <2>1 DEF Lapsed
    <3> QED
      BY <1>8, <3>1 DEF Settled
  <2>4. ASSUME NEW e \in Entries(s), e.call = c PROVE e \in Entries(kept')
    <3>1. PICK i \in DOMAIN s : e = s[i]
      BY DEF Entries
    <3>2. PICK j \in DOMAIN kept' : kept'[j].call = c
      BY <2>3, <2>4, <3>1 DEF CallsOf
    <3>3. s[m + j].call = c /\ m + j \in DOMAIN s
      BY <1>4, <1>5, <3>2
    <3>4. m + j = i
      BY <2>4, <3>1, <3>3 DEF OnePerCall
    <3> QED
      BY <1>4, <1>5, <3>1, <3>2, <3>4 DEF Entries
  <2> QED
    BY <2>2, <2>4
<1> QED
  BY <1>4, <1>6, <1>7, <1>8

\* The keys kept for a call: one at most.
Keyed(s, c) == {e.key : e \in {d \in Entries(s) : d.call = c}}

LEMMA RetainEntries ==
    ASSUME NEW s \in Seq(EntriesOf), OnePerCall(s), NEW d \in EntriesOf
    PROVE  LET r == Append(Without(s, d.call), d)
           IN r \in Seq(EntriesOf) /\ OnePerCall(r)
              /\ Entries(r) = {e \in Entries(s) : e.call # d.call} \cup {d}
<1> DEFINE w == Without(s, d.call)
           r == Append(w, d)
<1>1. /\ w \in Seq(EntriesOf) /\ OnePerCall(w)
      /\ Entries(w) = {e \in Entries(s) : e.call # d.call}
  BY WithoutEntries
<1> HIDE DEF w
<1>2. /\ r \in Seq(EntriesOf) /\ DOMAIN w = 1..Len(w) /\ DOMAIN r = 1 .. Len(w) + 1
      /\ Len(w) \in Nat /\ r[Len(w) + 1] = d /\ \A i \in 1..Len(w) : r[i] = w[i]
  BY <1>1
<1> HIDE DEF r
<1>3. Entries(r) = Entries(w) \cup {d}
  BY <1>2 DEF Entries
<1>4. \A i \in 1..Len(w) : r[i].call # d.call
  BY <1>1, <1>2 DEF Entries
<1>5. OnePerCall(r)
  BY <1>1, <1>2, <1>4 DEF OnePerCall
<1> QED
  BY <1>1, <1>2, <1>3, <1>5 DEF r, w

LEMMA PruneKeeps ==
    ASSUME NEW s \in Seq(EntriesOf), OnePerCall(s), NEW lost, Prune(s, lost)
    PROVE  \A c : Settled(c)' => /\ Settled(c) /\ \A l \in lost : l.call # c
                                 /\ Keyed(kept', c) = Keyed(s, c)
BY PruneRemembers DEF Keyed

LEMMA RetryKey ==
    ASSUME NEW s \in Seq(EntriesOf), NEW c, NEW proposed
    PROVE  IF Keyed(s, c) = {} THEN KeyForRetry(s, c, proposed) = proposed
           ELSE KeyForRetry(s, c, proposed) \in Keyed(s, c)
BY DEF Keyed, KeyForRetry, Entries

-----------------------------------------------------------------------------
(* The steps of the app and the API *)

NoneNewer ==
    /\ \A e \in Entries(kept) : e.key <= submissions
    /\ \A t \in tries : t.key <= submissions /\ t.proposed <= submissions
    /\ \A a \in applied : a.key <= submissions

RTypes ==
    /\ kept \in Seq(EntriesOf) /\ OnePerCall(kept)
    /\ tries \subseteq Tries
    /\ applied \subseteq [key : Nat, call : Submitted] /\ IsFiniteSet(applied)
    /\ oks \in [Submitted -> Nat] /\ submissions \in Nat
    /\ NoneNewer

TriesOf(c) == {t \in tries : t.call = c}
Mine(c) == {a \in applied : a.call = c}
InOrder(c) == CallOK(c, Keyed(kept, c), TriesOf(c), Mine(c), oks[c])

RInv == RTypes /\ \A c \in Submitted : Settled(c) => InOrder(c)

LEMMA OthersInOrder ==
    ASSUME NEW c, InOrder(c), Keyed(kept', c) = Keyed(kept, c),
           TriesOf(c)' = TriesOf(c), Mine(c)' = Mine(c), oks'[c] = oks[c]
    PROVE  InOrder(c)'
BY DEF InOrder

\* What a retained key leaves.
LEMMA RetainKeeps ==
    ASSUME RTypes, NEW t \in tries, Retain(t)
    PROVE  /\ kept' \in Seq(EntriesOf) /\ OnePerCall(kept')
           /\ \A e \in Entries(kept') : e \in Entries(kept) \/ e.key = t.key
           /\ \A c : Settled(c)' =>
                 Settled(c) /\ Keyed(kept', c) = IF c = t.call THEN {t.key} ELSE Keyed(kept, c)
<1> DEFINE d == [call |-> t.call, key |-> t.key]
           s == Append(Without(kept, d.call), d)
<1>1. d \in EntriesOf /\ d.call = t.call /\ d.key = t.key /\ kept \in Seq(EntriesOf)
      /\ OnePerCall(kept)
  BY DEF EntriesOf, RTypes, Tries
<1>2. Prune(s, {})
  BY DEF Retain
<1> HIDE DEF d
<1>3. /\ s \in Seq(EntriesOf) /\ OnePerCall(s)
      /\ Entries(s) = {e \in Entries(kept) : e.call # d.call} \cup {d}
  BY <1>1, RetainEntries
<1> HIDE DEF s
<1>4. /\ kept' \in Seq(EntriesOf) /\ OnePerCall(kept') /\ Entries(kept') \subseteq Entries(s)
  BY <1>2, <1>3, PruneRemembers
<1>5. \A c : Settled(c)' => Settled(c) /\ Keyed(kept', c) = Keyed(s, c)
  BY <1>2, <1>3, PruneKeeps
<1>6. \A c : Keyed(s, c) = IF c = t.call THEN {t.key} ELSE Keyed(kept, c)
  BY <1>1, <1>3 DEF Keyed
<1> QED
  BY <1>1, <1>3, <1>4, <1>5, <1>6

LEMMA TapKeeps ==
    ASSUME RInv, NEW d \in Submitted, Tap(d)
    PROVE  RInv'
<1>0. RTypes /\ submissions' = submissions + 1 /\ applied' = applied /\ oks' = oks
      /\ submissions \in Nat
  BY DEF RInv, RTypes, Tap
<1> DEFINE lost == IF Awaited(d) # {} THEN Lapsed({d}, "overlap") ELSE {}
           k == KeyForRetry(kept', d, submissions')
           t == [call |-> d, proposed |-> submissions', key |-> k, at |-> "sent",
                 awaited |-> TRUE, retried |-> FALSE]
<1>1. Prune(kept, lost) /\ tries' = tries \cup {t}
  BY DEF Tap
<1>2. kept' \in Seq(EntriesOf) /\ OnePerCall(kept') /\ Entries(kept') \subseteq Entries(kept)
  BY <1>0, <1>1, PruneRemembers DEF RTypes
<1>3. \A c : Settled(c)' => /\ Settled(c) /\ \A l \in lost : l.call # c
                            /\ Keyed(kept', c) = Keyed(kept, c)
  BY <1>0, <1>1, PruneKeeps DEF RTypes
<1>4. IF Keyed(kept', d) = {} THEN k = submissions' ELSE k \in Keyed(kept', d)
  BY <1>2, RetryKey
<1>5. k \in Nat /\ k <= submissions'
  <2>1. CASE Keyed(kept', d) = {}
    BY <1>0, <1>4, <2>1
  <2>2. CASE Keyed(kept', d) # {}
    <3>1. PICK e \in Entries(kept') : k = e.key
      BY <1>4, <2>2 DEF Keyed
    <3>2. e \in EntriesOf
      BY <1>2 DEF Entries
    <3>3. e.key <= submissions
      BY <1>0, <1>2 DEF RTypes, NoneNewer
    <3> QED
      BY <1>0, <3>1, <3>2, <3>3 DEF EntriesOf
  <2> QED
    BY <2>1, <2>2
<1> HIDE DEF k
<1>6. t \in Tries /\ t.call = d /\ t.key = k /\ t.proposed = submissions' /\ t.at = "sent"
      /\ t.awaited
  BY <1>0, <1>5 DEF Tries, Ats
<1> HIDE DEF t
<1>7. RTypes'
  <2>1. NoneNewer'
    <3>1. \A e \in Entries(kept') : e \in EntriesOf /\ e.key <= submissions
      <4>1. \A e \in Entries(kept) : e.key <= submissions
        BY <1>0 DEF RTypes, NoneNewer
      <4> QED
        BY <1>2, <4>1, EntriesTyped
    <3>2. \A u \in tries : u.key \in Nat /\ u.proposed \in Nat
      BY <1>0 DEF RTypes, Tries
    <3>3. \A a \in applied : a.key \in Nat
      BY <1>0 DEF RTypes
    <3> QED
      BY <1>0, <1>1, <1>5, <1>6, <3>1, <3>2, <3>3 DEF RTypes, NoneNewer, EntriesOf
  <2> QED
    BY <1>0, <1>1, <1>2, <1>6, <2>1 DEF RTypes
<1>8. ASSUME NEW c \in Submitted, Settled(c)' PROVE InOrder(c)'
  <2>1. Settled(c) /\ InOrder(c) /\ Keyed(kept', c) = Keyed(kept, c) /\ Mine(c)' = Mine(c)
    BY <1>0, <1>3, <1>8 DEF RInv, Mine
  <2>2. CASE c # d
    BY <1>0, <1>1, <1>6, <2>1, <2>2, OthersInOrder DEF TriesOf
  <2>3. CASE c = d
    <3>1. \A u \in TriesOf(c) : ~u.awaited
      <4>1. Awaited(d) = {}
        <5> SUFFICES ASSUME Awaited(d) # {} PROVE FALSE
          OBVIOUS
        <5>1. [call |-> d, why |-> "overlap"] \in lost
          BY DEF Lapsed
        <5> QED
          BY <1>3, <1>8, <2>3, <5>1
      <4> QED
        BY <2>3, <4>1 DEF Awaited, TriesOf
    <3>2. TriesOf(c)' = TriesOf(c) \cup {t}
      BY <1>1, <1>6, <2>3 DEF TriesOf
    <3>3. Keyed(kept, c) = {} => t.proposed = t.key /\ Effect(c, t.key) \notin Mine(c)
      <4> SUFFICES ASSUME Keyed(kept, c) = {}, Effect(c, t.key) \in Mine(c) PROVE FALSE
        BY <1>4, <1>6, <2>1, <2>3
      <4>1. t.key = submissions + 1
        BY <1>0, <1>4, <1>6, <2>1, <2>3
      <4>2. Effect(c, t.key).key <= submissions
        BY <1>0 DEF Mine, RTypes, NoneNewer
      <4> QED
        BY <1>0, <4>1, <4>2 DEF Effect
    <3>4. Keyed(kept, c) # {} => t.key \in Keyed(kept, c)
      BY <1>4, <1>6, <2>1, <2>3
    <3>5. CallOK(c, Keyed(kept, c), TriesOf(c) \cup {t}, Mine(c), oks[c])
      BY <1>6, <2>1, <3>1, <3>3, <3>4, CallTapped DEF InOrder
    <3>6. InOrder(c)' <=> CallOK(c, Keyed(kept', c), TriesOf(c)', Mine(c)', oks'[c])
      BY DEF InOrder
    <3> QED
      BY <1>0, <2>1, <3>2, <3>5, <3>6
  <2> QED
    BY <2>2, <2>3
<1> QED
  BY <1>7, <1>8 DEF RInv

\* A step of one try, which others take the place of.
LEMMA TypesKept ==
    ASSUME RTypes, NEW t \in tries, NEW N, tries' = (tries \ {t}) \cup N,
           \A u \in N : u \in Tries /\ u.key <= submissions /\ u.proposed <= submissions,
           kept' \in Seq(EntriesOf), OnePerCall(kept'),
           \A e \in Entries(kept') : e \in Entries(kept) \/ e.key = t.key,
           applied' \subseteq applied \cup {Effect(t.call, t.key)},
           oks' \in [Submitted -> Nat], submissions' = submissions
    PROVE  RTypes'
<1>1. t \in Tries /\ t.key \in Nat /\ t.call \in Submitted /\ t.key <= submissions
  BY DEF RTypes, Tries, NoneNewer
<1>2. NoneNewer'
  BY <1>1 DEF RTypes, NoneNewer, Effect
<1>3. applied' \subseteq [key : Nat, call : Submitted]
  BY <1>1 DEF RTypes, Effect
<1>4. IsFiniteSet(applied')
  <2>1. IsFiniteSet(applied \cup {Effect(t.call, t.key)})
    BY FS_AddElement DEF RTypes
  <2> QED
    BY <2>1, FS_Subset
<1> QED
  BY <1>2, <1>3, <1>4 DEF RTypes

LEMMA TryStep ==
    ASSUME RInv, RTypes', NEW t \in tries, NEW N, tries' = (tries \ {t}) \cup N,
           \A u \in N : u.call = t.call,
           \A c : c # t.call => Mine(c)' = Mine(c) /\ oks'[c] = oks[c],
           \A c : Settled(c)' => Settled(c) /\ (c # t.call => Keyed(kept', c) = Keyed(kept, c)),
           Settled(t.call)' =>
               CallOK(t.call, Keyed(kept', t.call), (TriesOf(t.call) \ {t}) \cup N,
                      Mine(t.call)', oks'[t.call])
    PROVE  RInv'
<1> SUFFICES ASSUME NEW c \in Submitted, Settled(c)' PROVE InOrder(c)'
  BY DEF RInv
<1>1. CASE c = t.call
  <2>1. TriesOf(c)' = (TriesOf(c) \ {t}) \cup N
    BY <1>1 DEF TriesOf
  <2>2. InOrder(c)' <=> CallOK(c, Keyed(kept', c), TriesOf(c)', Mine(c)', oks'[c])
    BY DEF InOrder
  <2> QED
    BY <1>1, <2>1, <2>2
<1>2. CASE c # t.call
  <2>1. TriesOf(c)' = TriesOf(c)
    BY <1>2 DEF TriesOf
  <2>2. InOrder(c)
    BY DEF RInv
  <2> QED
    BY <1>2, <2>1, <2>2, OthersInOrder
<1> QED
  BY <1>1, <1>2

\* What is known of the call of a try.
LEMMA OfTheCall ==
    ASSUME RInv, NEW t \in tries
    PROVE  /\ RTypes /\ t \in Tries /\ t.call \in Submitted /\ t \in TriesOf(t.call)
           /\ t.key \in Nat /\ t.key <= submissions /\ t.proposed <= submissions
           /\ oks[t.call] \in Nat /\ IsFiniteSet(Mine(t.call))
           /\ Settled(t.call) =>
                 CallOK(t.call, Keyed(kept, t.call), TriesOf(t.call), Mine(t.call), oks[t.call])
<1>1. RTypes /\ t \in Tries /\ t.call \in Submitted
  BY DEF RInv, RTypes, Tries
<1>2. IsFiniteSet(Mine(t.call))
  BY <1>1, FS_Subset DEF RTypes, Mine
<1>3. t.key \in Nat /\ t.key <= submissions /\ t.proposed <= submissions
  BY <1>1 DEF Tries, RTypes, NoneNewer
<1> QED
  BY <1>1, <1>2, <1>3 DEF RInv, InOrder, RTypes, TriesOf

LEMMA LoseKeeps ==
    ASSUME RInv, NEW t \in tries, Lose(t)
    PROVE  RInv'
<1>0. OnePerCall(kept) /\ t \in Tries /\ RTypes
  BY OfTheCall DEF RTypes
<1> DEFINE N == IF t.at = "sent" THEN {[t EXCEPT !.awaited = FALSE]} ELSE {}
<1>1. \A u \in N : /\ u \in Tries /\ u.call = t.call /\ u.key = t.key /\ u.proposed = t.proposed
                   /\ ~u.awaited
  BY <1>0 DEF Tries
<1>2. /\ t.awaited /\ Retain(t) /\ tries' = (tries \ {t}) \cup N
      /\ UNCHANGED <<applied, oks, submissions>>
  BY DEF Lose
<1> HIDE DEF N
<1>3. /\ kept' \in Seq(EntriesOf) /\ OnePerCall(kept')
      /\ \A e \in Entries(kept') : e \in Entries(kept) \/ e.key = t.key
      /\ \A c : Settled(c)' =>
            Settled(c) /\ Keyed(kept', c) = IF c = t.call THEN {t.key} ELSE Keyed(kept, c)
  BY <1>0, <1>2, RetainKeeps
<1>4. RTypes'
  BY <1>0, <1>1, <1>2, <1>3, OfTheCall, TypesKept DEF RTypes
<1>5. Settled(t.call)' =>
          CallOK(t.call, {t.key}, (TriesOf(t.call) \ {t}) \cup N, Mine(t.call), oks[t.call])
  <2>1. \A u \in (TriesOf(t.call) \ {t}) \cup N :
            (u \in TriesOf(t.call) /\ u # t) \/ (~u.awaited /\ u.key = t.key)
    BY <1>1
  <2> QED
    BY <1>2, <1>3, <2>1, OfTheCall, CallRetained
<1>6. \A c : Mine(c)' = Mine(c) /\ oks'[c] = oks[c]
  BY <1>2 DEF Mine
<1>7. Settled(t.call)' =>
          CallOK(t.call, Keyed(kept', t.call), (TriesOf(t.call) \ {t}) \cup N,
                 Mine(t.call)', oks'[t.call])
  BY <1>3, <1>5, <1>6
<1>8. \A c : Settled(c)' => Settled(c) /\ (c # t.call => Keyed(kept', c) = Keyed(kept, c))
  BY <1>3
<1> QED
  BY <1>1, <1>2, <1>4, <1>6, <1>7, <1>8, TryStep

LEMMA UnauthorizedKeeps ==
    ASSUME RInv, NEW t \in tries, Unauthorized(t)
    PROVE  RInv'
<1>0. /\ OnePerCall(kept) /\ kept \in Seq(EntriesOf) /\ t \in Tries /\ RTypes
      /\ t.at = "sent" /\ t.awaited /\ UNCHANGED <<applied, oks, submissions>>
  BY OfTheCall DEF RTypes, Unauthorized
<1>1. \A c : Mine(c)' = Mine(c) /\ oks'[c] = oks[c]
  BY <1>0 DEF Mine
<1>2. CASE Prune(kept, {})
           /\ tries' = (tries \ {t}) \cup
                {[t EXCEPT !.retried = TRUE, !.key = KeyForRetry(kept', t.call, t.proposed)]}
  <2> DEFINE k == KeyForRetry(kept', t.call, t.proposed)
             u == [t EXCEPT !.retried = TRUE, !.key = k]
  <2>1. /\ kept' \in Seq(EntriesOf) /\ OnePerCall(kept') /\ Entries(kept') \subseteq Entries(kept)
    BY <1>0, <1>2, PruneRemembers
  <2>2. \A c : Settled(c)' => Settled(c) /\ Keyed(kept', c) = Keyed(kept, c)
    BY <1>0, <1>2, PruneKeeps
  <2>3. IF Keyed(kept', t.call) = {} THEN k = t.proposed ELSE k \in Keyed(kept', t.call)
    BY <2>1, RetryKey
  <2>4. k \in Nat /\ k <= submissions
    <3>1. CASE Keyed(kept', t.call) = {}
      BY <1>0, <2>3, <3>1, OfTheCall DEF Tries
    <3>2. CASE Keyed(kept', t.call) # {}
      <4>1. PICK e \in Entries(kept') : k = e.key
        BY <2>3, <3>2 DEF Keyed
      <4>2. e \in EntriesOf
        BY <2>1 DEF Entries
      <4>3. e.key <= submissions
        BY <1>0, <2>1 DEF RTypes, NoneNewer
      <4> QED
        BY <4>1, <4>2, <4>3 DEF EntriesOf
    <3> QED
      BY <3>1, <3>2
  <2> HIDE DEF k
  <2>5. /\ u \in Tries /\ u.call = t.call /\ u.key = k /\ u.proposed = t.proposed
        /\ u.at = "sent" /\ u.awaited
    BY <1>0, <2>4 DEF Tries
  <2>6. tries' = (tries \ {t}) \cup {u}
    BY <1>2 DEF k
  <2> HIDE DEF u
  <2>7. RTypes'
    BY <1>0, <2>1, <2>4, <2>5, <2>6, OfTheCall, TypesKept DEF RTypes
  <2>8. Settled(t.call)' =>
            CallOK(t.call, Keyed(kept', t.call), (TriesOf(t.call) \ {t}) \cup {u},
                   Mine(t.call), oks[t.call])
    <3> SUFFICES ASSUME Settled(t.call)'
                 PROVE  CallOK(t.call, Keyed(kept, t.call), (TriesOf(t.call) \ {t}) \cup {u},
                               Mine(t.call), oks[t.call])
      BY <2>2
    <3>1. CallOK(t.call, Keyed(kept, t.call), TriesOf(t.call), Mine(t.call), oks[t.call])
          /\ t \in TriesOf(t.call)
      BY <2>2, OfTheCall
    <3>2. u.key = t.key
      BY <1>0, <2>2, <2>3, <2>5, <3>1 DEF CallOK
    <3> QED
      BY <1>0, <2>5, <3>1, <3>2, CallResent
  <2> DEFINE M == {u}
  <2>9. /\ tries' = (tries \ {t}) \cup M /\ \A v \in M : v.call = t.call
        /\ \A c : Settled(c)' =>
               Settled(c) /\ (c # t.call => Keyed(kept', c) = Keyed(kept, c))
        /\ Settled(t.call)' =>
               CallOK(t.call, Keyed(kept', t.call), (TriesOf(t.call) \ {t}) \cup M,
                      Mine(t.call)', oks'[t.call])
    BY <1>1, <2>2, <2>5, <2>6, <2>8
  <2> HIDE DEF M
  <2> QED
    BY <1>1, <2>7, <2>9, TryStep
<1> DEFINE N == {}
<1>3. (TriesOf(t.call) \ {t}) \cup N = TriesOf(t.call) \ {t} /\ (\A u \in N : FALSE)
      /\ (tries \ {t}) \cup N = tries \ {t}
  OBVIOUS
<1> HIDE DEF N
<1>4. CASE tries' = tries \ {t} /\ Retain(t)
  <2>1. /\ kept' \in Seq(EntriesOf) /\ OnePerCall(kept')
        /\ \A e \in Entries(kept') : e \in Entries(kept) \/ e.key = t.key
        /\ \A c : Settled(c)' =>
              Settled(c) /\ Keyed(kept', c) = IF c = t.call THEN {t.key} ELSE Keyed(kept, c)
    BY <1>0, <1>4, RetainKeeps
  <2>2. tries' = (tries \ {t}) \cup N
    BY <1>3, <1>4
  <2>3. RTypes'
    BY <1>0, <1>3, <2>1, <2>2, TypesKept DEF RTypes
  <2>4. Settled(t.call)' =>
            CallOK(t.call, {t.key}, (TriesOf(t.call) \ {t}) \cup N, Mine(t.call), oks[t.call])
    BY <1>0, <1>3, <2>1, OfTheCall, CallRetained
  <2>5. /\ \A c : Settled(c)' =>
               Settled(c) /\ (c # t.call => Keyed(kept', c) = Keyed(kept, c))
        /\ Settled(t.call)' =>
               CallOK(t.call, Keyed(kept', t.call), (TriesOf(t.call) \ {t}) \cup N,
                      Mine(t.call)', oks'[t.call])
    BY <1>1, <2>1, <2>4
  <2> QED
    BY <1>1, <1>3, <2>2, <2>3, <2>5, TryStep
<1>5. CASE tries' = tries \ {t} /\ UNCHANGED <<kept, lapses>>
  <2>1. tries' = (tries \ {t}) \cup N /\ kept' = kept
    BY <1>3, <1>5
  <2>2. RTypes'
    BY <1>0, <1>3, <2>1, TypesKept DEF RTypes
  <2>3. \A c : Settled(c)' => Settled(c)
    BY <1>5 DEF Settled
  <2>4. Settled(t.call)' =>
            CallOK(t.call, Keyed(kept, t.call), (TriesOf(t.call) \ {t}) \cup N,
                   Mine(t.call), oks[t.call])
    BY <1>0, <1>3, <2>3, OfTheCall, CallDropped
  <2>5. /\ \A c : Settled(c)' =>
               Settled(c) /\ (c # t.call => Keyed(kept', c) = Keyed(kept, c))
        /\ Settled(t.call)' =>
               CallOK(t.call, Keyed(kept', t.call), (TriesOf(t.call) \ {t}) \cup N,
                      Mine(t.call)', oks'[t.call])
    BY <1>1, <2>1, <2>3, <2>4
  <2> QED
    BY <1>1, <1>3, <2>1, <2>2, <2>5, TryStep
<1> QED
  BY <1>2, <1>4, <1>5 DEF Unauthorized

LEMMA AnsweredKeeps ==
    ASSUME RInv, NEW t \in tries, Answered(t)
    PROVE  RInv'
<1>0. /\ OnePerCall(kept) /\ kept \in Seq(EntriesOf) /\ t \in Tries /\ RTypes
      /\ t.at \in {"ok", "refused", "busy"} /\ t.awaited /\ UNCHANGED <<applied, submissions>>
      /\ tries' = tries \ {t} /\ t.call \in Submitted
  BY OfTheCall DEF RTypes, Answered, Tries, Ats
<1>1. /\ oks' \in [Submitted -> Nat]
      /\ \A c : Mine(c)' = Mine(c) /\ (c # t.call => oks'[c] = oks[c])
      /\ oks'[t.call] = IF t.at = "ok" THEN oks[t.call] + 1 ELSE oks[t.call]
  <2>1. oks' = IF t.at = "ok" THEN [oks EXCEPT ![t.call] = @ + 1] ELSE oks
    BY DEF Answered
  <2>2. oks \in [Submitted -> Nat]
    BY <1>0 DEF RTypes
  <2> QED
    BY <1>0, <2>1, <2>2 DEF Mine
<1> DEFINE N == {}
<1>2. (TriesOf(t.call) \ {t}) \cup N = TriesOf(t.call) \ {t} /\ (\A u \in N : FALSE)
      /\ tries' = (tries \ {t}) \cup N
  BY <1>0
<1> HIDE DEF N
<1>3. CASE t.at = "busy"
  <2>0. Retain(t)
    BY <1>3 DEF Answered, Definitive
  <2>1. /\ kept' \in Seq(EntriesOf) /\ OnePerCall(kept')
        /\ \A e \in Entries(kept') : e \in Entries(kept) \/ e.key = t.key
        /\ \A c : Settled(c)' =>
              Settled(c) /\ Keyed(kept', c) = IF c = t.call THEN {t.key} ELSE Keyed(kept, c)
    BY <1>0, <2>0, RetainKeeps
  <2>2. RTypes'
    BY <1>0, <1>1, <1>2, <2>1, TypesKept
  <2>3. Settled(t.call)' =>
            CallOK(t.call, {t.key}, (TriesOf(t.call) \ {t}) \cup N, Mine(t.call), oks[t.call])
    BY <1>0, <1>2, <2>1, OfTheCall, CallRetained
  <2>4. /\ \A c : Settled(c)' =>
               Settled(c) /\ (c # t.call => Keyed(kept', c) = Keyed(kept, c))
        /\ Settled(t.call)' =>
               CallOK(t.call, Keyed(kept', t.call), (TriesOf(t.call) \ {t}) \cup N,
                      Mine(t.call)', oks'[t.call])
    BY <1>1, <1>3, <2>1, <2>3
  <2> QED
    BY <1>1, <1>2, <2>2, <2>4, TryStep
<1>4. CASE t.at # "busy"
  <2>0. /\ kept' = Without(kept, t.call)
        /\ lapses' = IF t.at = "refused" /\ t.call \in CallsOf(kept)
                     THEN lapses \cup Lapsed({t.call}, "refused") ELSE lapses
    BY <1>0, <1>4 DEF Answered, Definitive
  <2>1. /\ kept' \in Seq(EntriesOf) /\ OnePerCall(kept')
        /\ Entries(kept') = {e \in Entries(kept) : e.call # t.call}
    BY <1>0, <2>0, WithoutEntries
  <2>2. \A c : Keyed(kept', c) = IF c = t.call THEN {} ELSE Keyed(kept, c)
    BY <2>1 DEF Keyed
  <2>3. \A c : Settled(c)' => Settled(c)
    BY <2>0 DEF Settled
  <2>4. RTypes'
    BY <1>0, <1>1, <1>2, <2>1, TypesKept
  <2>5. CASE t.at = "ok"
    <3>1. Settled(t.call)' =>
              CallOK(t.call, {}, TriesOf(t.call) \ {t}, Mine(t.call), oks[t.call] + 1)
      BY <1>0, <2>3, <2>5, OfTheCall, CallSucceeded
    <3>2. /\ \A c : Settled(c)' =>
                 Settled(c) /\ (c # t.call => Keyed(kept', c) = Keyed(kept, c))
          /\ Settled(t.call)' =>
                 CallOK(t.call, Keyed(kept', t.call), (TriesOf(t.call) \ {t}) \cup N,
                        Mine(t.call)', oks'[t.call])
      BY <1>1, <1>2, <2>2, <2>3, <2>5, <3>1
    <3> QED
      BY <1>1, <1>2, <2>4, <3>2, TryStep
  <2>6. CASE t.at = "refused"
    <3>1. Settled(t.call)' => Keyed(kept, t.call) = {}
      <4> SUFFICES ASSUME Settled(t.call)', NEW e \in Entries(kept), e.call = t.call
                   PROVE  FALSE
        BY DEF Keyed
      <4>1. t.call \in CallsOf(kept)
        BY DEF Entries, CallsOf
      <4>2. [call |-> t.call, why |-> "refused"] \in lapses'
        BY <2>0, <2>6, <4>1 DEF Lapsed
      <4> QED
        BY <4>2 DEF Settled
    <3>2. Settled(t.call)' =>
              CallOK(t.call, Keyed(kept, t.call), (TriesOf(t.call) \ {t}) \cup N,
                     Mine(t.call), oks[t.call])
      BY <1>0, <1>2, <2>3, <2>6, OfTheCall, CallDropped
    <3>3. /\ \A c : Settled(c)' =>
                 Settled(c) /\ (c # t.call => Keyed(kept', c) = Keyed(kept, c))
          /\ Settled(t.call)' =>
                 CallOK(t.call, Keyed(kept', t.call), (TriesOf(t.call) \ {t}) \cup N,
                        Mine(t.call)', oks'[t.call])
      BY <1>1, <2>2, <2>3, <2>6, <3>1, <3>2
    <3> QED
      BY <1>1, <1>2, <2>4, <3>3, TryStep
  <2> QED
    BY <1>0, <1>4, <2>5, <2>6
<1> QED
  BY <1>3, <1>4

\* The API answers a try, which is awaited or not.
LEMMA ServedKeeps ==
    ASSUME RInv, NEW t \in tries, t.at = "sent", NEW at \in Ats, Serve(t, at),
           UNCHANGED <<kept, oks, lapses, submissions>>,
           IF at = "ok" THEN applied' = applied \cup {Effect(t.call, t.key)}
           ELSE applied' = applied
    PROVE  RInv'
<1>0. t \in Tries /\ RTypes /\ t.call \in Submitted /\ t \in TriesOf(t.call)
      /\ oks[t.call] \in Nat /\ IsFiniteSet(Mine(t.call))
  BY OfTheCall
<1> DEFINE u == [t EXCEPT !.at = at]
           N == IF t.awaited THEN {u} ELSE {}
<1>1. /\ u \in Tries /\ u.call = t.call /\ u.key = t.key /\ u.proposed = t.proposed
      /\ u.at = at /\ u.awaited = t.awaited
  BY <1>0 DEF Tries
<1>2. tries' = (tries \ {t}) \cup N
  BY DEF Serve
<1> HIDE DEF u
<1>3. \A v \in N : v = u /\ t.awaited
  OBVIOUS
<1>4. \A c : /\ Settled(c)' => Settled(c)
             /\ Keyed(kept', c) = Keyed(kept, c) /\ oks'[c] = oks[c]
             /\ c # t.call => Mine(c)' = Mine(c)
  BY DEF Settled, Mine, Effect
<1>5. CASE at = "ok"
  <2>1. Mine(t.call)' = Mine(t.call) \cup {Effect(t.call, t.key)}
    BY <1>5 DEF Mine, Effect
  <2>2. Settled(t.call)' =>
            CallOK(t.call, Keyed(kept, t.call), (TriesOf(t.call) \ {t}) \cup N,
                   Mine(t.call) \cup {Effect(t.call, t.key)}, oks[t.call])
    <3> SUFFICES ASSUME Settled(t.call)'
                 PROVE  CallOK(t.call, Keyed(kept, t.call), (TriesOf(t.call) \ {t}) \cup N,
                               Mine(t.call) \cup {Effect(t.call, t.key)}, oks[t.call])
      OBVIOUS
    <3>1. CallOK(t.call, Keyed(kept, t.call), TriesOf(t.call), Mine(t.call), oks[t.call])
      BY <1>4, OfTheCall
    <3> DEFINE U == (TriesOf(t.call) \ {t}) \cup N
    <3>2. IF t.awaited
          THEN \E v : /\ v.awaited /\ v.at = "ok" /\ v.key = t.key /\ v.proposed = t.proposed
                      /\ U = (TriesOf(t.call) \ {t}) \cup {v}
          ELSE U = TriesOf(t.call) \ {t}
      BY <1>1, <1>5
    <3> HIDE DEF U
    <3>3. CallOK(t.call, Keyed(kept, t.call), U,
                 Mine(t.call) \cup {Effect(t.call, t.key)}, oks[t.call])
      BY <1>0, <3>1, <3>2, CallEffective
    <3> QED
      BY <3>3 DEF U
  <2> HIDE DEF N
  <2>3. RTypes'
    <3>1. applied' \subseteq applied \cup {Effect(t.call, t.key)}
      BY <1>5
    <3>2. /\ kept' \in Seq(EntriesOf) /\ OnePerCall(kept') /\ oks' \in [Submitted -> Nat]
          /\ \A e \in Entries(kept') : e \in Entries(kept)
      BY <1>0 DEF RTypes
    <3>3. \A v \in N : v \in Tries /\ v.key <= submissions /\ v.proposed <= submissions
      BY <1>1, <1>3, OfTheCall
    <3> QED
      BY <1>0, <1>2, <3>1, <3>2, <3>3, TypesKept
  <2>4. Settled(t.call)' =>
            CallOK(t.call, Keyed(kept', t.call), (TriesOf(t.call) \ {t}) \cup N,
                   Mine(t.call)', oks'[t.call])
    BY <1>4, <2>1, <2>2
  <2> QED
    BY <1>1, <1>2, <1>3, <1>4, <2>3, <2>4, TryStep
<1>6. CASE at # "ok"
  <2>1. Mine(t.call)' = Mine(t.call)
    BY <1>6 DEF Mine
  <2>2. Settled(t.call)' =>
            CallOK(t.call, Keyed(kept, t.call), (TriesOf(t.call) \ {t}) \cup N,
                   Mine(t.call), oks[t.call])
    <3> SUFFICES ASSUME Settled(t.call)'
                 PROVE  CallOK(t.call, Keyed(kept, t.call), (TriesOf(t.call) \ {t}) \cup N,
                               Mine(t.call), oks[t.call])
      OBVIOUS
    <3>1. CallOK(t.call, Keyed(kept, t.call), TriesOf(t.call), Mine(t.call), oks[t.call])
      BY <1>4, OfTheCall
    <3>2. CASE t.awaited
      <4>1. CallOK(t.call, Keyed(kept, t.call), (TriesOf(t.call) \ {t}) \cup {u},
                   Mine(t.call), oks[t.call])
        BY <1>0, <1>1, <1>6, <3>1, <3>2, CallResent
      <4> QED
        BY <3>2, <4>1
    <3>3. CASE ~t.awaited
      <4> DEFINE U == (TriesOf(t.call) \ {t}) \cup N
      <4>1. U \in SUBSET TriesOf(t.call) /\ \A v \in TriesOf(t.call) \ U : v = t
        BY <3>3
      <4> HIDE DEF U
      <4>2. CallOK(t.call, Keyed(kept, t.call), U, Mine(t.call), oks[t.call])
        BY <3>1, <3>3, <4>1, CallDropped
      <4> QED
        BY <4>2 DEF U
    <3> QED
      BY <3>2, <3>3
  <2> HIDE DEF N
  <2>3. RTypes'
    <3>1. applied' \subseteq applied \cup {Effect(t.call, t.key)}
      BY <1>6
    <3>2. /\ kept' \in Seq(EntriesOf) /\ OnePerCall(kept') /\ oks' \in [Submitted -> Nat]
          /\ \A e \in Entries(kept') : e \in Entries(kept)
      BY <1>0 DEF RTypes
    <3>3. \A v \in N : v \in Tries /\ v.key <= submissions /\ v.proposed <= submissions
      BY <1>1, <1>3, OfTheCall
    <3> QED
      BY <1>0, <1>2, <3>1, <3>2, <3>3, TypesKept
  <2>4. Settled(t.call)' =>
            CallOK(t.call, Keyed(kept', t.call), (TriesOf(t.call) \ {t}) \cup N,
                   Mine(t.call)', oks'[t.call])
    BY <1>4, <2>1, <2>2
  <2> QED
    BY <1>1, <1>2, <1>3, <1>4, <2>3, <2>4, TryStep
<1> QED
  BY <1>5, <1>6

LEMMA KillKeeps == ASSUME RInv, Kill PROVE RInv'
<1>0. RTypes /\ UNCHANGED <<applied, oks, submissions>> /\ kept' = <<>>
  BY DEF RInv, Kill
<1>1. ASSUME NEW t \in tries'
      PROVE  /\ t \in Tries /\ ~t.awaited
             /\ \E u \in tries : /\ u.call = t.call /\ u.key = t.key /\ u.proposed = t.proposed
                                 /\ ~u.awaited => t = u
  <2>1. PICK u \in tries : t = [u EXCEPT !.awaited = FALSE]
    BY <1>1 DEF Kill
  <2>2. u \in Tries
    BY <1>0 DEF RTypes
  <2>3. /\ t \in Tries /\ ~t.awaited /\ t.call = u.call /\ t.key = u.key
        /\ t.proposed = u.proposed
    BY <2>1, <2>2 DEF Tries
  <2>4. ~u.awaited => t = u
    BY <2>1, <2>2 DEF Tries
  <2> QED
    BY <2>3, <2>4
<1>2. Entries(kept') = {} /\ kept' \in Seq(EntriesOf) /\ OnePerCall(kept')
  BY <1>0 DEF Entries, OnePerCall
<1>3. RTypes'
  <2>1. NoneNewer'
    BY <1>0, <1>1, <1>2 DEF RTypes, NoneNewer
  <2> QED
    BY <1>0, <1>1, <1>2, <2>1 DEF RTypes
<1>4. ASSUME NEW c \in Submitted, Settled(c)' PROVE InOrder(c)'
  <2>1. lapses' = lapses \cup
            Lapsed(CallsOf(kept) \cup {t.call : t \in {u \in tries : u.awaited}}, "killed")
    BY DEF Kill
  <2>2. Settled(c) /\ c \notin CallsOf(kept) \cup {t.call : t \in {u \in tries : u.awaited}}
    <3>1. Settled(c)
      BY <1>4, <2>1 DEF Settled
    <3>2. ASSUME c \in CallsOf(kept) \cup {t.call : t \in {u \in tries : u.awaited}}
          PROVE  FALSE
      <4>1. [call |-> c, why |-> "killed"] \in lapses'
        BY <2>1, <3>2 DEF Lapsed
      <4> QED
        BY <1>4, <4>1 DEF Settled
    <3> QED
      BY <3>1, <3>2
  <2>3. Keyed(kept, c) = {} /\ Keyed(kept', c) = {}
    BY <1>2, <2>2 DEF Keyed, Entries, CallsOf
  <2>4. \A t \in TriesOf(c) : ~t.awaited
    BY <2>2 DEF TriesOf
  <2>5. ASSUME NEW t \in tries', t.call = c PROVE t \in TriesOf(c)
    <3>1. PICK u \in tries : u.call = c /\ (~u.awaited => t = u)
      BY <1>1, <2>5
    <3> QED
      BY <2>4, <3>1 DEF TriesOf
  <2>6. CallOK(c, Keyed(kept, c), TriesOf(c), Mine(c), oks[c])
    BY <2>2 DEF RInv, InOrder
  <2>7. CallOK(c, Keyed(kept, c), TriesOf(c)', Mine(c), oks[c])
    <3> DEFINE U == TriesOf(c)'
    <3>1. U \in SUBSET TriesOf(c)
      BY <2>5 DEF TriesOf
    <3> HIDE DEF U
    <3>2. CallOK(c, Keyed(kept, c), U, Mine(c), oks[c])
      BY <2>4, <2>6, <3>1, CallDropped
    <3> QED
      BY <3>2 DEF U
  <2>8. InOrder(c)' <=> CallOK(c, Keyed(kept', c), TriesOf(c)', Mine(c)', oks'[c])
    BY DEF InOrder
  <2>9. Mine(c)' = Mine(c)
    BY <1>0 DEF Mine
  <2> QED
    BY <1>0, <2>3, <2>7, <2>8, <2>9
<1> QED
  BY <1>3, <1>4 DEF RInv

LEMMA InitRInv == RetryInit => RInv
<1> SUFFICES ASSUME RetryInit PROVE RInv
  OBVIOUS
<1>1. kept = <<>> /\ tries = {} /\ applied = {} /\ submissions = 0
      /\ oks = [c \in Submitted |-> 0] /\ lapses = {}
  BY DEF RetryInit
<1>2. Entries(kept) = {} /\ kept \in Seq(EntriesOf) /\ OnePerCall(kept)
  BY <1>1 DEF Entries, OnePerCall
<1>3. IsFiniteSet(applied) /\ Cardinality({}) = 0
  BY <1>1, FS_EmptySet
<1>4. RTypes
  BY <1>1, <1>2, <1>3 DEF RTypes, NoneNewer
<1>5. ASSUME NEW c \in Submitted PROVE InOrder(c)
  <2>1. Keyed(kept, c) = {} /\ TriesOf(c) = {} /\ Mine(c) = {} /\ oks[c] = 0
    BY <1>1, <1>2 DEF Keyed, TriesOf, Mine
  <2>2. ~Ahead(c, {}, {}, {})
    BY DEF Ahead
  <2> QED
    BY <1>3, <2>1, <2>2 DEF InOrder, CallOK
<1> QED
  BY <1>4, <1>5 DEF RInv

LEMMA NextRInv == RInv /\ [RetryNext]_retryVars => RInv'
<1>1. ASSUME RInv, NEW t \in tries, TakesEffect(t) PROVE RInv'
  BY <1>1, ServedKeeps DEF TakesEffect, Effect, Ats
<1>2. ASSUME RInv, NEW t \in tries, Refuse(t) PROVE RInv'
  BY <1>2, ServedKeeps DEF Refuse, Ats
<1>3. ASSUME RInv, NEW t \in tries, RefuseBusy(t) PROVE RInv'
  BY <1>3, ServedKeeps DEF RefuseBusy, Ats
<1>4. ASSUME RInv, UNCHANGED retryVars PROVE RInv'
  BY <1>4 DEF retryVars, RInv, RTypes, NoneNewer, Settled, InOrder, Keyed, TriesOf, Mine
<1> QED
  BY <1>1, <1>2, <1>3, <1>4, TapKeeps, UnauthorizedKeeps, LoseKeeps, AnsweredKeeps, KillKeeps
  DEF RetryNext

\* Whatever is lost, overtaken or served late, a call whose key the app has not let go takes
\* effect once for each success the user saw, and at most once more (idempotency-retry.ts).
THEOREM RetrySpecEffectOnce == RetrySpec => []RetriesTakeEffectOnce
<1>1. RInv => RetriesTakeEffectOnce
  <2> SUFFICES ASSUME RInv, NEW c \in Submitted, \A l \in lapses : l.call # c
               PROVE  Effects(c) \in {oks[c], oks[c] + 1}
    BY DEF RetriesTakeEffectOnce
  <2>1. InOrder(c) /\ oks[c] \in Nat
    BY DEF RInv, RTypes, Settled
  <2>2. Cardinality(Mine(c)) \in {oks[c], oks[c] + 1}
    BY <2>1 DEF InOrder, CallOK
  <2> QED
    BY <2>2 DEF Effects, Mine
<1> QED
  BY <1>1, InitRInv, NextRInv, PTL DEF RetrySpec

-----------------------------------------------------------------------------
(* The lists: rows in order *)

Below == {p \in Nat \X Nat : p[1] < p[2]}

LEMMA LeastNatural == ASSUME NEW S \in SUBSET Nat, S # {} PROVE \E n \in S : \A m \in S : n <= m
<1>1. IsWellFoundedOn(Below, Nat)
  <2>1. OpToRel(<, Nat) = Below
    BY DEF OpToRel, Below
  <2> QED
    BY <2>1, NatLessThanWellFounded
<1>2. \E n \in S : \A m \in S : ~(<<m, n>> \in Below)
  BY <1>1, WFMin
<1>3. ASSUME NEW n \in S, NEW m \in S, m < n PROVE <<m, n>> \in Below
  <2>1. <<m, n>> \in Nat \X Nat /\ <<m, n>>[1] < <<m, n>>[2]
    BY <1>3
  <2> QED
    BY <2>1, Zenon DEF Below
<1>4. \E n \in S : \A m \in S : ~(m < n)
  BY <1>2, <1>3, Zenon
<1> QED
  BY <1>4

AnyRow == [id : Ids, at : 0..MaxAt, match : BOOLEAN]
Unique(S) == \A r, s \in S : r.id = s.id => r = s

LEMMA RowType == \A r \in AnyRow : r.at \in 0..MaxAt /\ r.at \in Int /\ r.id \in Ids /\ r.id \in Int
<1>1. \A r \in AnyRow : r.at \in 0..MaxAt /\ r.id \in Ids
  BY DEF AnyRow
<1>2. \A n \in 0..MaxAt : n \in Int
  OBVIOUS
<1> QED
  BY <1>1, <1>2, IdsOrdered

LEMMA RowsFinite == ASSUME NEW S \in SUBSET AnyRow, Unique(S) PROVE IsFiniteSet(S)
<1> DEFINE f == [r \in S |-> r.id]
<1>1. f \in Injection(S, Ids)
  BY DEF AnyRow, Unique, Injection, IsInjective
<1> QED
  BY <1>1, FS_Injection, IdsOrdered

\* The order of a list: strict, and total on rows with ids of their own.
LEMMA Ordered ==
    ASSUME NEW r \in AnyRow, NEW s \in AnyRow, NEW t \in AnyRow
    PROVE  /\ ~Before(r, r) /\ ~(Before(r, s) /\ Before(s, r))
           /\ Before(r, s) /\ Before(s, t) => Before(r, t)
           /\ r.id # s.id => Before(r, s) \/ Before(s, r)
<1>1. /\ r.at \in Int /\ s.at \in Int /\ t.at \in Int
      /\ r.id \in Int /\ s.id \in Int /\ t.id \in Int
  BY RowType
<1>2. ASSUME NEW a, NEW b PROVE Before(a, b) <=> a.at > b.at \/ (a.at = b.at /\ a.id > b.id)
  BY DEF Before
<1>3. ~Before(r, r)
  BY <1>1, <1>2
<1>4. ~(Before(r, s) /\ Before(s, r))
  BY <1>1, <1>2
<1>5. Before(r, s) /\ Before(s, t) => Before(r, t)
  BY <1>1, <1>2
<1>6. r.id # s.id => Before(r, s) \/ Before(s, r)
  BY <1>1, <1>2
<1> QED
  BY <1>3, <1>4, <1>5, <1>6

\* Rows before one of S in S.
RowsAhead(S, r) == {s \in S : Before(s, r)}
RowsBehind(S, r) == {s \in S : Before(r, s)}

LEMMA AheadGrows ==
    ASSUME NEW S \in SUBSET AnyRow, Unique(S), NEW r \in S, NEW s \in S, Before(r, s)
    PROVE  /\ Cardinality(RowsAhead(S, r)) \in Nat /\ Cardinality(RowsAhead(S, s)) \in Nat
           /\ Cardinality(RowsAhead(S, r)) < Cardinality(RowsAhead(S, s))
           /\ Cardinality(RowsBehind(S, r)) \in Nat /\ Cardinality(RowsBehind(S, s)) \in Nat
           /\ Cardinality(RowsBehind(S, s)) < Cardinality(RowsBehind(S, r))
<1>1. IsFiniteSet(S)
  BY RowsFinite
<1>2. /\ RowsAhead(S, r) \subseteq RowsAhead(S, s) /\ r \in RowsAhead(S, s) \ RowsAhead(S, r)
      /\ RowsBehind(S, s) \subseteq RowsBehind(S, r) /\ s \in RowsBehind(S, r) \ RowsBehind(S, s)
  BY Ordered DEF RowsAhead, RowsBehind
<1>3. IsFiniteSet(RowsAhead(S, s)) /\ IsFiniteSet(RowsBehind(S, r))
  BY <1>1, FS_Subset DEF RowsAhead, RowsBehind
<1>4. RowsAhead(S, r) # RowsAhead(S, s) /\ RowsBehind(S, s) # RowsBehind(S, r)
  BY <1>2
<1> QED
  BY <1>2, <1>3, <1>4, FS_Subset, FS_CardinalityType

\* Rows that are any have a first and a last.
LEMMA EndsOfRows ==
    ASSUME NEW S \in SUBSET AnyRow, Unique(S), S # {}
    PROVE  /\ \E r \in S : RowsAhead(S, r) = {}
           /\ LastOf(S) \in S /\ \A s \in S : s = LastOf(S) \/ Before(s, LastOf(S))
<1>0. \A r \in S : Cardinality(RowsAhead(S, r)) \in Nat /\ Cardinality(RowsBehind(S, r)) \in Nat
  <2> TAKE r \in S
  <2>1. IsFiniteSet(S) /\ RowsAhead(S, r) \subseteq S /\ RowsBehind(S, r) \subseteq S
    BY RowsFinite DEF RowsAhead, RowsBehind
  <2> QED
    BY <2>1, FS_Subset, FS_CardinalityType
<1>1. \E r \in S : RowsAhead(S, r) = {}
  <2> DEFINE N == {Cardinality(RowsAhead(S, r)) : r \in S}
  <2>1. N \in SUBSET Nat /\ N # {}
    BY <1>0
  <2>2. PICK n \in N : \A m \in N : n <= m
    <3> HIDE DEF N
    <3> QED
      BY <2>1, LeastNatural
  <2>3. PICK r \in S : n = Cardinality(RowsAhead(S, r))
    BY <2>2
  <2>4. ASSUME NEW s \in S, Before(s, r) PROVE FALSE
    <3>1. /\ Cardinality(RowsAhead(S, s)) < n /\ Cardinality(RowsAhead(S, s)) \in N
          /\ Cardinality(RowsAhead(S, s)) \in Nat /\ n \in Nat
      BY <2>3, <2>4, AheadGrows
    <3> QED
      BY <2>2, <3>1
  <2> QED
    BY <2>4 DEF RowsAhead
<1>2. \E r \in S : \A s \in S : s = r \/ Before(s, r)
  <2> DEFINE N == {Cardinality(RowsBehind(S, r)) : r \in S}
  <2>1. N \in SUBSET Nat /\ N # {}
    BY <1>0
  <2>2. PICK n \in N : \A m \in N : n <= m
    <3> HIDE DEF N
    <3> QED
      BY <2>1, LeastNatural
  <2>3. PICK r \in S : n = Cardinality(RowsBehind(S, r))
    BY <2>2
  <2>4. ASSUME NEW s \in S, Before(r, s) PROVE FALSE
    <3>1. /\ Cardinality(RowsBehind(S, s)) < n /\ Cardinality(RowsBehind(S, s)) \in N
          /\ Cardinality(RowsBehind(S, s)) \in Nat /\ n \in Nat
      BY <2>3, <2>4, AheadGrows
    <3> QED
      BY <2>2, <3>1
  <2>5. ASSUME NEW s \in S PROVE s = r \/ Before(s, r)
    BY <2>4, Ordered DEF Unique
  <2> QED
    BY <2>5
<1> QED
  BY <1>1, <1>2 DEF LastOf

\* A page takes its rows from the front of what the query answers, and some if there are any.
LEMMA PageIsFront ==
    ASSUME NEW A \in SUBSET AnyRow, Unique(A), NEW P, P = {r \in A : Cardinality({s \in A : Before(s, r)}) < Limit}
    PROVE  /\ P \subseteq A /\ (P = {} => A = {})
           /\ \A r \in P, s \in A : Before(s, r) => s \in P
<1>1. \A r \in A : r \in P <=> Cardinality(RowsAhead(A, r)) < Limit
  BY DEF RowsAhead
<1>2. A # {} => P # {}
  <2> SUFFICES ASSUME A # {} PROVE P # {}
    OBVIOUS
  <2>1. PICK r \in A : RowsAhead(A, r) = {}
    BY EndsOfRows
  <2> QED
    <3>1. Cardinality({}) = 0
      BY FS_EmptySet
    <3>2. Cardinality(RowsAhead(A, r)) < Limit
      BY <2>1, <3>1, SizesPositive
    <3> QED
      BY <1>1, <3>2
<1>3. ASSUME NEW r \in P, NEW s \in A, Before(s, r) PROVE s \in P
  <2>1. /\ Cardinality(RowsAhead(A, s)) < Cardinality(RowsAhead(A, r))
        /\ Cardinality(RowsAhead(A, r)) < Limit
        /\ Cardinality(RowsAhead(A, s)) \in Nat /\ Cardinality(RowsAhead(A, r)) \in Nat
    BY <1>1, <1>3, AheadGrows
  <2>2. Cardinality(RowsAhead(A, s)) < Limit
    BY <2>1, SizesPositive
  <2> QED
    BY <1>1, <2>2
<1> QED
  BY <1>2, <1>3
Cursors == {NoCursor} \cup [at : Nat, id : Ids]
StampedRows == {r \in AnyRow : r.at \in Instants}
Trail == Append(page.history, page.cursor)

ListShape ==
    /\ table \in SUBSET StampedRows /\ Unique(table)
    /\ page \in [filter : {"none", "search", "status"}, cursor : Cursors,
                 history : Seq(Cursors), items : SUBSET StampedRows]
    /\ walk \in Seq(SUBSET StampedRows)
    /\ Len(walk) = Len(page.history) + 1 /\ page.items = walk[Len(walk)]
    /\ \A i \in DOMAIN walk : Unique(walk[i])
    /\ stayed \subseteq IdsOf(table)
    /\ \A r \in table : r.id \in stayed /\ Narrows(page.filter) => r.match

\* What a page P read behind cursor c shows of the rows that match all the while.
PageRight(P, c, T, still) ==
    /\ \A r \in P : BehindCursor(r, c)
    /\ \A r \in T : r.id \in still =>
          /\ P = {} => ~BehindCursor(r, c)
          /\ P # {} => (r.id \in IdsOf(P) <=> BehindCursor(r, c) /\ ~BehindCursor(r, CursorAfter(P)))

Regular == ListKinds[list].clock = "app" /\ ~SearchReplacesCursor(page.filter)

\* The cursors of a walk with Next: each follows from the page before it, and lies further on.
Walked(tr, w, T, still) ==
    /\ tr[1] = NoCursor
    /\ \A i, j \in DOMAIN w : i <= j =>
          \A r \in AnyRow : BehindCursor(r, tr[j]) => BehindCursor(r, tr[i])
    /\ \A i \in 1 .. Len(w) - 1 : w[i] # {} /\ tr[i + 1] = CursorAfter(w[i])
    /\ \A i \in DOMAIN w : PageRight(w[i], tr[i], T, still)

\* The pages w before the one that cursor c is for are right, and lead to it.
LeadTo(h, c, w, T, still) ==
    /\ Append(h, c)[1] = NoCursor
    /\ \A i, j \in 1 .. Len(h) + 1 : i <= j =>
          \A r \in AnyRow : BehindCursor(r, Append(h, c)[j]) => BehindCursor(r, Append(h, c)[i])
    /\ \A i \in 1 .. Len(h) : w[i] # {} /\ Append(h, c)[i + 1] = CursorAfter(w[i])
    /\ \A i \in 1 .. Len(h) : PageRight(w[i], h[i], T, still)

ListWalked == Regular => Walked(Trail, walk, table, stayed)

\* A cursor stands behind the last row of its page: no row lies between, as none shares the
\* last row's millisecond without sharing its instant.
LEMMA CursorStandsBehind ==
    ASSUME NEW P \in SUBSET AnyRow, Unique(P), P # {}, \A r \in P : r.at % Ticks = 0
    PROVE  /\ CursorAfter(P) \in Cursors
           /\ \E l \in P : /\ \A s \in P : s = l \/ Before(s, l)
                           /\ \A r \in AnyRow : BehindCursor(r, CursorAfter(P)) <=> Before(l, r)
<1> DEFINE l == LastOf(P)
           c == [at |-> l.at \div Ticks, id |-> l.id]
<1>1. l \in P /\ \A s \in P : s = l \/ Before(s, l)
  BY EndsOfRows
<1>2. l \in AnyRow /\ l.at \in Int /\ l.id \in Ids /\ l.id \in Int /\ l.at \in 0..MaxAt
  BY <1>1, RowType
<1>3. l.at \div Ticks \in Nat /\ (l.at \div Ticks) * Ticks = l.at
  <2>1. l.at \in Nat /\ l.at % Ticks = 0
    BY <1>1, <1>2, SizesPositive
  <2> HIDE DEF l
  <2> QED
    BY <2>1, SizesPositive
<1>4. CursorAfter(P) = c
  BY DEF CursorAfter
<1>5. c \in Cursors /\ c # NoCursor
  <2>1. DOMAIN c = {"at", "id"} /\ DOMAIN NoCursor = {"none"}
    BY DEF NoCursor
  <2>2. c \in [at : Nat, id : Ids]
    BY <1>2, <1>3
  <2>3. "none" \notin {"at", "id"}
    OBVIOUS
  <2> QED
    BY <2>1, <2>2, <2>3 DEF Cursors
<1>6. ASSUME NEW r \in AnyRow PROVE BehindCursor(r, c) <=> Before(l, r)
  <2>1. r.at \in Int /\ r.id \in Int
    BY RowType
  <2>2. c.at * Ticks = l.at /\ c.id = l.id
    BY <1>3
  <2>3. BehindCursor(r, c) <=> r.at < l.at \/ (r.at = l.at /\ r.id < l.id)
    <3> HIDE DEF c, l
    <3> QED
      BY <1>5, <2>2 DEF BehindCursor
  <2>4. Before(l, r) <=> l.at > r.at \/ (l.at = r.at /\ l.id > r.id)
    BY DEF Before
  <2> HIDE DEF l
  <2> QED
    BY <1>2, <2>1, <2>3, <2>4
<1> QED
  BY <1>1, <1>4, <1>5, <1>6

\* A page just read: what matches all the while is on it exactly if it lies behind the page's
\* cursor and not behind the next one.
LEMMA ReadRight ==
    ASSUME NEW f, NEW c, NEW still,
           table \in SUBSET StampedRows, Unique(table),
           ListKinds[list].clock = "app", ~SearchReplacesCursor(f),
           \A r \in table : r.id \in still /\ Narrows(f) => r.match
    PROVE  PageRight(PageOf(f, c), c, table, still)
<1> DEFINE A == Answers(f, c)
           P == PageOf(f, c)
<1>1. A \in SUBSET AnyRow /\ Unique(A) /\ A \subseteq table
  BY DEF Answers, Matching, Unique, StampedRows
<1>2. P = {r \in A : Cardinality({s \in A : Before(s, r)}) < Limit}
  BY DEF PageOf
<1>3. /\ P \subseteq A /\ (P = {} => A = {})
      /\ \A r \in P, s \in A : Before(s, r) => s \in P
  <2> HIDE DEF A, P
  <2> QED
    BY <1>1, <1>2, PageIsFront
<1>4. \A r \in A : BehindCursor(r, c)
  BY DEF Answers
<1>5. ASSUME NEW r \in table, r.id \in still PROVE r \in A <=> BehindCursor(r, c)
  BY <1>5 DEF Answers, Matching
<1>6. ASSUME NEW r \in table, NEW S \in SUBSET table PROVE r.id \in IdsOf(S) <=> r \in S
  BY DEF IdsOf, Unique
<1>7. ASSUME P # {}
      PROVE \E l \in P : /\ \A s \in P : s = l \/ Before(s, l)
                         /\ \A r \in AnyRow : BehindCursor(r, CursorAfter(P)) <=> Before(l, r)
  <2>1. P \in SUBSET AnyRow /\ Unique(P) /\ \A r \in P : r.at % Ticks = 0
    BY <1>1, <1>3 DEF Unique, StampedRows, Instants
  <2> HIDE DEF P
  <2> QED
    BY <1>7, <2>1, CursorStandsBehind
<1>8. ASSUME NEW r \in table, r.id \in still, P # {}
      PROVE r.id \in IdsOf(P) <=> BehindCursor(r, c) /\ ~BehindCursor(r, CursorAfter(P))
  <2>1. PICK l \in P : /\ \A s \in P : s = l \/ Before(s, l)
                       /\ \A q \in AnyRow : BehindCursor(q, CursorAfter(P)) <=> Before(l, q)
    BY <1>7, <1>8
  <2>2. r \in AnyRow /\ l \in AnyRow /\ l \in table
    BY <1>1, <1>3 DEF StampedRows
  <2>3. r.id \in IdsOf(P) <=> r \in P
    <3> HIDE DEF P
    <3> QED
      BY <1>1, <1>3, <1>6
  <2>4. r \in P => BehindCursor(r, c) /\ ~Before(l, r)
    <3> HIDE DEF P, A
    <3> QED
      BY <1>3, <1>4, <2>1, <2>2, Ordered
  <2>5. BehindCursor(r, c) /\ ~Before(l, r) => r \in P
    <3> SUFFICES ASSUME BehindCursor(r, c), ~Before(l, r) PROVE r \in P
      OBVIOUS
    <3>1. r \in A
      BY <1>5, <1>8
    <3>2. r = l \/ Before(r, l)
      BY <2>2, Ordered DEF Unique
    <3> HIDE DEF P, A
    <3> QED
      BY <1>3, <3>1, <3>2
  <2> HIDE DEF P, A
  <2> QED
    BY <2>1, <2>2, <2>3, <2>4, <2>5
<1> HIDE DEF P, A
<1>9. PageRight(P, c, table, still)
  BY <1>3, <1>4, <1>5, <1>8 DEF PageRight
<1> QED
  BY <1>9 DEF P
LEMMA CursorTyped == ASSUME NEW P \in SUBSET AnyRow, Unique(P) PROVE CursorAfter(P) \in Cursors
<1>1. CASE P = {}
  BY <1>1 DEF CursorAfter, Cursors
<1>2. CASE P # {}
  <2>1. LastOf(P) \in P
    BY <1>2, EndsOfRows
  <2>2. LastOf(P).at \in 0..MaxAt /\ LastOf(P).id \in Ids
    BY <2>1, RowType
  <2>3. LastOf(P).at \div Ticks \in Nat
    BY <2>2, SizesPositive
  <2> QED
    BY <1>2, <2>2, <2>3 DEF CursorAfter, Cursors
<1> QED
  BY <1>1, <1>2

LEMMA PageTyped ==
    ASSUME NEW f, NEW c, table \in SUBSET StampedRows, Unique(table)
    PROVE  PageOf(f, c) \in SUBSET StampedRows /\ Unique(PageOf(f, c))
BY DEF PageOf, Answers, Matching, Unique

\* Each action that reads a page shows it behind a cursor c, with the cursors h before it.
LEMMA ShapeAfterShow ==
    ASSUME ListShape, UNCHANGED <<list, table>>,
           NEW f \in {"none", "search", "status"}, NEW c \in Cursors, NEW h \in Seq(Cursors),
           NEW w \in Seq(SUBSET StampedRows), \A i \in DOMAIN w : Unique(w[i]), Len(w) = Len(h),
           Show(f, c, h), walk' = Append(w, PageOf(f, c)),
           stayed' \subseteq IdsOf(table), \A r \in table : r.id \in stayed' /\ Narrows(f) => r.match
    PROVE  ListShape'
<1> DEFINE P == PageOf(f, c)
<1>1. P \in SUBSET StampedRows /\ Unique(P)
  BY PageTyped DEF ListShape
<1>2. page' = [filter |-> f, cursor |-> c, history |-> h, items |-> P]
  BY DEF Show
<1>3. StampedRows' = StampedRows
  BY DEF StampedRows, Instants
<1>4. table' \in SUBSET StampedRows' /\ Unique(table)' /\ stayed' \subseteq IdsOf(table)'
  BY <1>3 DEF ListShape, Unique, IdsOf
<1>5. \A r \in table' : r.id \in stayed' /\ Narrows(page.filter)' => r.match
  BY <1>2 DEF Narrows
<1> HIDE DEF P
<1>6. page' \in [filter : {"none", "search", "status"}, cursor : Cursors,
                 history : Seq(Cursors), items : SUBSET StampedRows]
  BY <1>1, <1>2
<1>7. /\ walk' \in Seq(SUBSET StampedRows) /\ Len(walk') = Len(page'.history) + 1
      /\ page'.items = walk'[Len(walk')]
  BY <1>1, <1>2 DEF P
<1>8. \A i \in DOMAIN walk' : Unique(walk'[i])
  BY <1>1, <1>2 DEF P
<1>9. \A i \in DOMAIN walk' : Unique(walk[i])'
  BY <1>8 DEF Unique
<1> QED
  BY <1>3, <1>4, <1>5, <1>6, <1>7, <1>9 DEF ListShape

LEMMA WalkedOneMore ==
    ASSUME NEW h \in Seq(Cursors), NEW c \in Cursors, NEW w \in Seq(SUBSET StampedRows), NEW P, NEW T, NEW still,
           Len(w) = Len(h), LeadTo(h, c, w, T, still),
           PageRight(P, c, T, still)
    PROVE  Walked(Append(h, c), Append(w, P), T, still)
<1> DEFINE v == Append(w, P)
<1>1. /\ Len(v) = Len(h) + 1 /\ DOMAIN v = 1 .. Len(h) + 1 /\ v[Len(h) + 1] = P
      /\ \A i \in 1 .. Len(h) : v[i] = w[i]
  OBVIOUS
<1>2. /\ Append(h, c)[Len(h) + 1] = c /\ \A i \in 1 .. Len(h) : Append(h, c)[i] = h[i]
  OBVIOUS
<1>3. Len(h) \in Nat
  OBVIOUS
<1> HIDE DEF v
<1>4. \A i \in 1 .. Len(v) - 1 : v[i] # {} /\ Append(h, c)[i + 1] = CursorAfter(v[i])
  BY <1>1, <1>3 DEF LeadTo
<1>5. \A i \in DOMAIN v : PageRight(v[i], Append(h, c)[i], T, still)
  <2> TAKE i \in DOMAIN v
  <2>1. i \in 1 .. Len(h) \/ i = Len(h) + 1
    BY <1>1, <1>3
  <2> QED
    BY <1>1, <1>2, <2>1 DEF LeadTo
<1>6. Walked(Append(h, c), v, T, still)
  BY <1>1, <1>4, <1>5 DEF Walked, LeadTo
<1> QED
  BY <1>6 DEF v

\* What comes after a row behind a cursor is behind it too.
LEMMA BehindGrows ==
    ASSUME NEW c \in Cursors, NEW l \in AnyRow, NEW r \in AnyRow, BehindCursor(l, c), Before(l, r)
    PROVE  BehindCursor(r, c)
<1>1. CASE c = NoCursor
  BY <1>1 DEF BehindCursor
<1>2. CASE c \in [at : Nat, id : Ids] /\ c # NoCursor
  <2>1. l.at \in Int /\ l.id \in Int /\ r.at \in Int /\ r.id \in Int
    BY RowType
  <2>2. c.at * Ticks \in Int /\ c.id \in Int
    <3>1. c.at \in Nat /\ c.id \in Ids
      BY <1>2
    <3>2. \A n \in Nat : n * Ticks \in Int
      BY SizesPositive
    <3> QED
      BY <3>1, <3>2, IdsOrdered
  <2>3. l.at < c.at * Ticks \/ (l.at = c.at * Ticks /\ l.id < c.id)
    BY <1>2 DEF BehindCursor
  <2>4. l.at > r.at \/ (l.at = r.at /\ l.id > r.id)
    BY DEF Before
  <2>5. PICK m \in Int : m = c.at * Ticks
    BY <2>2
  <2>6. r.at < m \/ (r.at = m /\ r.id < c.id)
    BY <2>1, <2>2, <2>3, <2>4, <2>5
  <2> QED
    BY <2>5, <2>6 DEF BehindCursor
<1> QED
  BY <1>1, <1>2 DEF Cursors

LEMMA ReadFirst ==
    ASSUME NEW f, table \in SUBSET StampedRows, Unique(table), NEW still,
           ListKinds[list].clock = "app", ~SearchReplacesCursor(f),
           \A r \in table : r.id \in still /\ Narrows(f) => r.match
    PROVE  Walked(<<NoCursor>>, <<PageOf(f, NoCursor)>>, table, still)
<1>1. PageRight(PageOf(f, NoCursor), NoCursor, table, still)
  BY ReadRight
<1> DEFINE P == PageOf(f, NoCursor)
<1>2. Len(<<P>>) = 1 /\ DOMAIN <<P>> = 1 .. 1 /\ <<P>>[1] = P /\ <<NoCursor>>[1] = NoCursor
  OBVIOUS
<1>3. \A i \in 1 .. 1 : i = 1
  OBVIOUS
<1> HIDE DEF P
<1> QED
  BY <1>1, <1>2, <1>3 DEF Walked, P

LEMMA ListInitRight == ASSUME ListInit PROVE ListShape /\ ListWalked
<1> PICK ids \in SUBSET Ids : \E at \in [ids -> Instants], match \in [ids -> BOOLEAN] :
          table = {Row(i, at[i], match[i]) : i \in ids}
  BY DEF ListInit
<1> PICK at \in [ids -> Instants], match \in [ids -> BOOLEAN] :
          table = {Row(i, at[i], match[i]) : i \in ids}
  OBVIOUS
<1>1. table \in SUBSET StampedRows
  <2>1. ASSUME NEW i \in ids PROVE Row(i, at[i], match[i]) \in StampedRows
    <3>1. at[i] \in 0..MaxAt /\ at[i] \in Instants /\ match[i] \in BOOLEAN /\ i \in Ids
      BY DEF Instants
    <3> QED
      BY <3>1 DEF Row, StampedRows, AnyRow
  <2> QED
    BY <2>1
<1>2. Unique(table)
  BY DEF Unique, Row
<1>3. /\ page = [filter |-> "none", cursor |-> NoCursor, history |-> <<>>, items |-> PageOf("none", NoCursor)]
      /\ walk = <<PageOf("none", NoCursor)>> /\ stayed = IdsOf(table)
  BY DEF ListInit
<1>4. PageOf("none", NoCursor) \in SUBSET StampedRows /\ Unique(PageOf("none", NoCursor))
  BY <1>1, <1>2, PageTyped
<1>5. ~Narrows("none")
  BY DEF Narrows
<1>6. ListShape
  <2> DEFINE P == PageOf("none", NoCursor)
  <2>1. <<P>> \in Seq(SUBSET StampedRows) /\ Len(<<P>>) = 1 /\ <<P>>[1] = P /\ \A i \in DOMAIN <<P>> : Unique(<<P>>[i])
    BY <1>4
  <2>2. <<>> \in Seq(Cursors) /\ Len(<<>>) = 0 /\ NoCursor \in Cursors
    BY DEF Cursors
  <2>3. page = [filter |-> "none", cursor |-> NoCursor, history |-> <<>>, items |-> P] /\ walk = <<P>>
    BY <1>3
  <2>4. P \in SUBSET StampedRows
    BY <1>4
  <2> HIDE DEF P
  <2>5. page \in [filter : {"none", "search", "status"}, cursor : Cursors,
                  history : Seq(Cursors), items : SUBSET StampedRows]
    BY <2>2, <2>3, <2>4
  <2>6. Len(walk) = Len(page.history) + 1 /\ page.items = walk[Len(walk)]
    BY <2>1, <2>2, <2>3
  <2>7. walk \in Seq(SUBSET StampedRows) /\ \A i \in DOMAIN walk : Unique(walk[i])
    BY <2>1, <2>3
  <2>8. \A r \in table : r.id \in stayed /\ Narrows(page.filter) => r.match
    BY <1>5, <2>3
  <2>9. stayed \subseteq IdsOf(table)
    BY <1>3
  <2> QED
    BY <1>1, <1>2, <2>5, <2>6, <2>7, <2>8, <2>9 DEF ListShape
<1>7. ListWalked
  <2> SUFFICES ASSUME Regular PROVE Walked(Trail, walk, table, stayed)
    BY DEF ListWalked
  <2>1. Trail = <<NoCursor>>
    BY <1>3 DEF Trail
  <2> QED
    BY <1>1, <1>2, <1>3, <1>5, <2>1, ReadFirst DEF Regular
<1> QED
  BY <1>6, <1>7

LEMMA FilterRight ==
    ASSUME ListShape, NEW f \in {"none", "search", "status"}, Filter(f)
    PROVE  ListShape' /\ ListWalked'
<1> DEFINE P == PageOf(f, NoCursor)
<1>1. /\ page' = [filter |-> f, cursor |-> NoCursor, history |-> <<>>, items |-> P]
      /\ walk' = <<P>> /\ stayed' = IdsOf(Matching(f)) /\ UNCHANGED <<list, table>>
  BY DEF Filter, Show
<1>2. stayed' \subseteq IdsOf(table) /\ \A r \in table : r.id \in stayed' /\ Narrows(f) => r.match
  BY <1>1 DEF Matching, IdsOf, ListShape, Unique
<1>3. ListShape'
  <2>1. /\ <<>> \in Seq(Cursors) /\ <<>> \in Seq(SUBSET StampedRows) /\ Len(<<>>) = 0 /\ DOMAIN <<>> = {}
        /\ NoCursor \in Cursors
    BY DEF Cursors
  <2>2. walk' = Append(<<>>, P)
    BY <1>1
  <2>3. Show(f, NoCursor, <<>>)
    BY DEF Filter
  <2>4. UNCHANGED <<list, table>>
    BY <1>1
  <2> QED
    BY <1>2, <2>1, <2>2, <2>3, <2>4, ShapeAfterShow
<1>4. ASSUME Regular' PROVE Walked(<<NoCursor>>, walk', table, stayed')
  <2>1. ListKinds[list].clock = "app" /\ ~SearchReplacesCursor(f)
    BY <1>1, <1>4 DEF Regular, SearchReplacesCursor
  <2>2. table \in SUBSET StampedRows /\ Unique(table)
    BY DEF ListShape
  <2>3. PICK w, still : w = walk' /\ still = stayed'
    OBVIOUS
  <2>4. Walked(<<NoCursor>>, w, table, still)
    BY <1>1, <1>2, <2>1, <2>2, <2>3, ReadFirst
  <2> QED
    BY <2>3, <2>4
<1>5. Trail' = <<NoCursor>>
  BY <1>1 DEF Trail
<1> QED
  BY <1>1, <1>3, <1>4, <1>5 DEF ListWalked

\* The page read again, behind the same or an earlier cursor of the walk: c is the last of the
\* cursors h and c, the first ones of the trail.
LEMMA ShowRight ==
    ASSUME ListShape, ListWalked, UNCHANGED <<list, table, stayed>>,
           NEW h \in Seq(Cursors), NEW c \in Cursors, NEW w \in Seq(SUBSET StampedRows),
           \A i \in DOMAIN w : Unique(w[i]), Len(w) = Len(h),
           Show(page.filter, c, h), walk' = Append(w, PageOf(page.filter, c)),
           Regular => LeadTo(h, c, w, table, stayed)
    PROVE  ListShape' /\ ListWalked'
<1> DEFINE P == PageOf(page.filter, c)
<1>1. /\ page' = [filter |-> page.filter, cursor |-> c, history |-> h, items |-> P]
  BY DEF Show
<1>2. ListShape'
  <2>1. page.filter \in {"none", "search", "status"} /\ stayed' \subseteq IdsOf(table)
        /\ \A r \in table : r.id \in stayed' /\ Narrows(page.filter) => r.match
    BY DEF ListShape
  <2>2. UNCHANGED <<list, table>>
    OBVIOUS
  <2> QED
    BY <2>1, <2>2, ShapeAfterShow
<1>3. Trail' = Append(h, c) /\ (Regular' => Regular)
  BY <1>1 DEF Trail, Regular, SearchReplacesCursor
<1>4. ASSUME Regular PROVE Walked(Append(h, c), Append(w, P), table, stayed)
  <2>1. PageRight(P, c, table, stayed)
    BY <1>4, ReadRight DEF Regular, ListShape
  <2> HIDE DEF P
  <2> QED
    BY <1>4, <2>1, WalkedOneMore
<1> QED
  BY <1>2, <1>3, <1>4 DEF ListWalked

LEMMA NextPageRight == ASSUME ListShape, ListWalked, NextPage PROVE ListShape' /\ ListWalked'
<1> DEFINE h == Append(page.history, page.cursor)
           c == CursorAfter(page.items)
           k == Len(walk)
<1>1. /\ page.items # {} /\ Show(page.filter, c, h) /\ walk' = Append(walk, page'.items)
      /\ UNCHANGED <<list, table, stayed>>
  BY DEF NextPage
<1>2. /\ page.cursor \in Cursors /\ page.history \in Seq(Cursors)
      /\ walk \in Seq(SUBSET StampedRows)
      /\ k = Len(page.history) + 1 /\ page.items = walk[k] /\ \A i \in DOMAIN walk : Unique(walk[i])
  BY DEF ListShape
<1>3. h \in Seq(Cursors) /\ Len(h) = k /\ Trail = h /\ k \in Nat \ {0} /\ DOMAIN walk = 1 .. k
  BY <1>2 DEF Trail
<1>4. page.items \in SUBSET AnyRow /\ Unique(page.items) /\ page.items \in SUBSET StampedRows
  BY <1>2, <1>3 DEF ListShape, StampedRows
<1>5. c \in Cursors
  BY <1>4, CursorTyped
<1>6. walk' = Append(walk, PageOf(page.filter, c))
  BY <1>1 DEF Show
<1> DEFINE tr == Append(h, c)
<1> HIDE DEF h, c
<1>7. (\A i \in 1 .. k : tr[i] = h[i]) /\ tr[k + 1] = c
  BY <1>3, <1>5
<1>8. ASSUME Regular
      PROVE LeadTo(h, c, walk, table, stayed)
  <2>1. Walked(h, walk, table, stayed)
    BY <1>3, <1>8 DEF ListWalked
  <2>2. h[1] = NoCursor /\ \A i \in 1 .. k : PageRight(walk[i], h[i], table, stayed)
    BY <1>3, <2>1 DEF Walked
  <2>3. ASSUME NEW r \in AnyRow, BehindCursor(r, c) PROVE BehindCursor(r, h[k])
    <3>1. \A s \in page.items : s.at % Ticks = 0
      BY <1>4, <1>8 DEF Regular, StampedRows, Instants
    <3>2. PICK l \in page.items : \A s \in AnyRow : BehindCursor(s, c) <=> Before(l, s)
      BY <1>1, <1>4, <3>1, CursorStandsBehind DEF c
    <3>3. BehindCursor(l, h[k]) /\ Before(l, r) /\ l \in AnyRow
      BY <1>2, <1>3, <1>4, <2>2, <2>3, <3>2 DEF PageRight
    <3> QED
      BY <1>2, <1>3, <3>3, BehindGrows DEF h
  <2>4. ASSUME NEW i \in 1 .. k + 1, NEW j \in 1 .. k + 1, i <= j, NEW r \in AnyRow, BehindCursor(r, tr[j])
        PROVE BehindCursor(r, tr[i])
    <3>1. CASE j \in 1 .. k
      <4>1. i \in 1 .. k
        BY <1>3, <2>4, <3>1
      <4> QED
        BY <1>3, <1>7, <2>1, <2>4, <3>1, <4>1 DEF Walked
    <3>2. CASE j = k + 1 /\ i \in 1 .. k
      <4>1. BehindCursor(r, h[k]) /\ k \in 1 .. k /\ i <= k
        BY <1>3, <1>7, <2>3, <2>4, <3>2
      <4>2. BehindCursor(r, h[i])
        BY <1>3, <2>1, <3>2, <4>1 DEF Walked
      <4> QED
        BY <1>7, <3>2, <4>2
    <3>3. CASE j = k + 1 /\ i = k + 1
      BY <2>4, <3>3
    <3> QED
      BY <1>3, <3>1, <3>2, <3>3
  <2>5. ASSUME NEW i \in 1 .. k PROVE walk[i] # {} /\ tr[i + 1] = CursorAfter(walk[i])
    <3>1. CASE i = k
      BY <1>1, <1>2, <1>7, <3>1 DEF c
    <3>2. CASE i \in 1 .. k - 1
      <4>1. i + 1 \in 1 .. k
        BY <1>3, <3>2
      <4> QED
        BY <1>3, <1>7, <2>1, <3>2, <4>1 DEF Walked
    <3> QED
      BY <1>3, <3>1, <3>2
  <2>6. tr[1] = NoCursor
    BY <1>3, <1>7, <2>2
  <2> QED
    BY <1>3, <2>2, <2>4, <2>5, <2>6 DEF LeadTo
<1>9. Len(walk) = Len(h)
  BY <1>3
<1>10. Show(page.filter, c, h) /\ \A i \in DOMAIN walk : Unique(walk[i])
  BY <1>1, <1>2 DEF h, c
<1>11. h \in Seq(Cursors) /\ c \in Cursors /\ walk \in Seq(SUBSET StampedRows)
  BY <1>2, <1>3, <1>5
<1>12. UNCHANGED <<list, table, stayed>>
  BY <1>1
<1> QED
  BY <1>6, <1>8, <1>9, <1>10, <1>11, <1>12, ShowRight

\* The pages of a walk before a given one are right as they stand.
LEMMA WalkedSoFar ==
    ASSUME NEW tr \in Seq(Cursors), NEW w \in Seq(SUBSET StampedRows), NEW T, NEW still, Walked(tr, w, T, still),
           NEW h \in Seq(Cursors), NEW c \in Cursors, NEW v \in Seq(SUBSET StampedRows),
           Len(v) = Len(h), Len(h) + 1 <= Len(w), Len(w) = Len(tr),
           \A i \in 1 .. Len(h) + 1 : Append(h, c)[i] = tr[i],
           \A i \in 1 .. Len(h) : v[i] = w[i]
    PROVE  LeadTo(h, c, v, T, still)
<1> DEFINE n == Len(h)
           u == Append(h, c)
<1>1. n \in Nat /\ Len(w) \in Nat /\ DOMAIN w = 1 .. Len(w) /\ \A i \in 1 .. n : u[i] = h[i]
  OBVIOUS
<1>2. \A i \in 1 .. n + 1 : u[i] = tr[i]
  OBVIOUS
<1>3. n + 1 <= Len(w) /\ \A i \in 1 .. n : v[i] = w[i]
  OBVIOUS
<1> HIDE DEF n, u, LeadTo
<1>4. 1 \in 1 .. n + 1 /\ \A i \in 1 .. n + 1 : i \in DOMAIN w
  BY <1>1, <1>3
<1>5. \A i \in 1 .. n : i \in 1 .. n + 1 /\ i + 1 \in 1 .. n + 1 /\ i \in DOMAIN w /\ i \in 1 .. Len(w) - 1
  BY <1>1, <1>3
<1>6. u[1] = NoCursor
  BY <1>2, <1>4 DEF Walked
<1>7. \A i, j \in 1 .. n + 1 : i <= j => \A r \in AnyRow : BehindCursor(r, u[j]) => BehindCursor(r, u[i])
  BY <1>2, <1>4 DEF Walked
<1>8. \A i \in 1 .. n : v[i] # {} /\ u[i + 1] = CursorAfter(v[i])
  BY <1>2, <1>3, <1>5 DEF Walked
<1>9. \A i \in 1 .. n : PageRight(v[i], h[i], T, still)
  BY <1>1, <1>2, <1>3, <1>5 DEF Walked
<1> QED
  BY <1>6, <1>7, <1>8, <1>9 DEF n, u, LeadTo

LEMMA RefetchRight == ASSUME ListShape, ListWalked, Refetch PROVE ListShape' /\ ListWalked'
<1> DEFINE h == page.history
           c == page.cursor
           v == Front(walk)
<1>1. /\ Show(page.filter, c, h) /\ walk' = Append(v, PageOf(page.filter, c))
      /\ UNCHANGED <<list, table, stayed>>
  BY DEF Refetch, Show
<1>2. /\ c \in Cursors /\ h \in Seq(Cursors) /\ walk \in Seq(SUBSET StampedRows)
      /\ Len(walk) = Len(h) + 1 /\ \A i \in DOMAIN walk : Unique(walk[i])
  BY DEF ListShape
<1>3. /\ v \in Seq(SUBSET StampedRows) /\ Len(v) = Len(h) /\ \A i \in 1 .. Len(h) : v[i] = walk[i]
  BY <1>2 DEF Front
<1>4. \A i \in DOMAIN v : Unique(v[i])
  BY <1>2, <1>3
<1>5. Trail \in Seq(Cursors) /\ Len(Trail) = Len(walk) /\ Trail = Append(h, c)
  BY <1>2 DEF Trail
<1> DEFINE P == PageOf(page.filter, c)
<1> HIDE DEF h, c, v
<1>6. ASSUME Regular
      PROVE  LeadTo(h, c, v, table, stayed)
  <2>1. Walked(Trail, walk, table, stayed)
    BY <1>6 DEF ListWalked
  <2>2. /\ Len(h) + 1 <= Len(walk) /\ Len(walk) = Len(Trail)
        /\ \A i \in 1 .. Len(h) + 1 : Append(h, c)[i] = Trail[i]
    BY <1>2, <1>5
  <2>3. PICK T, still : T = table /\ still = stayed
    OBVIOUS
  <2> QED
    BY <1>2, <1>3, <1>5, <2>1, <2>2, <2>3, WalkedSoFar
<1> QED
  BY <1>1, <1>2, <1>3, <1>4, <1>6, ShowRight

LEMMA PreviousPageRight ==
    ASSUME ListShape, ListWalked, PreviousPage
    PROVE  ListShape' /\ ListWalked'
<1> DEFINE h == Front(page.history)
           c == Last(page.history)
           v == SubSeq(walk, 1, Len(walk) - 2)
<1>1. /\ Show(page.filter, c, h) /\ walk' = Append(v, PageOf(page.filter, c))
      /\ UNCHANGED <<list, table, stayed>> /\ page.history # <<>>
  BY DEF PreviousPage, Show
<1>2. /\ page.cursor \in Cursors /\ page.history \in Seq(Cursors)
      /\ walk \in Seq(SUBSET StampedRows)
      /\ Len(walk) = Len(page.history) + 1 /\ \A i \in DOMAIN walk : Unique(walk[i])
  BY DEF ListShape
<1>3. Len(page.history) \in Nat \ {0}
  BY <1>1, <1>2
<1>4. /\ h \in Seq(Cursors) /\ c \in Cursors /\ Len(h) = Len(page.history) - 1
      /\ c = page.history[Len(page.history)] /\ \A i \in 1 .. Len(h) : h[i] = page.history[i]
  BY <1>2, <1>3 DEF Front, Last
<1>5. /\ v \in Seq(SUBSET StampedRows) /\ Len(v) = Len(h) /\ \A i \in 1 .. Len(h) : v[i] = walk[i]
  BY <1>2, <1>3, <1>4
<1>6. \A i \in DOMAIN v : Unique(v[i])
  BY <1>2, <1>3, <1>4, <1>5
<1>7. Trail \in Seq(Cursors) /\ Len(Trail) = Len(walk) /\ \A i \in 1 .. Len(page.history) : Trail[i] = page.history[i]
  BY <1>2 DEF Trail
<1> HIDE DEF h, c, v
<1>8. Append(h, c)[Len(h) + 1] = c /\ \A i \in 1 .. Len(h) : Append(h, c)[i] = h[i]
  BY <1>4
<1>9. \A i \in 1 .. Len(h) + 1 : Append(h, c)[i] = Trail[i]
  <2> TAKE i \in 1 .. Len(h) + 1
  <2>1. i \in 1 .. Len(h) \/ i = Len(h) + 1
    BY <1>3, <1>4
  <2>2. i \in 1 .. Len(page.history)
    BY <1>3, <1>4
  <2> QED
    BY <1>3, <1>4, <1>7, <1>8, <2>1, <2>2
<1>10. ASSUME Regular
      PROVE  LeadTo(h, c, v, table, stayed)
  <2>1. Walked(Trail, walk, table, stayed)
    BY <1>10 DEF ListWalked
  <2>2. Len(h) + 1 <= Len(walk) /\ Len(walk) = Len(Trail)
    BY <1>2, <1>3, <1>4, <1>7
  <2>3. PICK T, still, tr : T = table /\ still = stayed /\ tr = Trail
    OBVIOUS
  <2>4. tr \in Seq(Cursors) /\ Walked(tr, walk, T, still)
    BY <1>7, <2>1, <2>3
  <2>5. Len(h) + 1 <= Len(walk) /\ Len(walk) = Len(tr) /\ \A i \in 1 .. Len(h) + 1 : Append(h, c)[i] = tr[i]
    BY <1>9, <2>2, <2>3
  <2>6. \A i \in 1 .. Len(h) : v[i] = walk[i]
    BY <1>5
  <2>7. walk \in Seq(SUBSET StampedRows) /\ h \in Seq(Cursors) /\ c \in Cursors
        /\ v \in Seq(SUBSET StampedRows) /\ Len(v) = Len(h)
    BY <1>2, <1>4, <1>5
  <2>8. LeadTo(h, c, v, T, still)
    BY <2>4, <2>5, <2>6, <2>7, WalkedSoFar
  <2> QED
    BY <2>3, <2>8
<1>11. h \in Seq(Cursors) /\ c \in Cursors /\ v \in Seq(SUBSET StampedRows) /\ Len(v) = Len(h)
  BY <1>4, <1>5
<1>12. Show(page.filter, c, h) /\ walk' = Append(v, PageOf(page.filter, c))
  BY <1>1
<1>13. UNCHANGED <<list, table, stayed>>
  BY <1>1
<1> QED
  BY <1>6, <1>10, <1>11, <1>12, <1>13, ShowRight

\* Rows that come, or change, and leave the walk as it was: each that matches all the while
\* was there, by its id and instant.
LEMMA RowsChangeRight ==
    ASSUME ListShape, ListWalked, UNCHANGED <<list, page, walk>>,
           NEW T \in SUBSET StampedRows, Unique(T), NEW still, still \subseteq stayed, still \subseteq IdsOf(T),
           table' = T, stayed' = still,
           \A r \in T : r.id \in still => \E q \in table : q.id = r.id /\ q.at = r.at,
           \A r \in T : r.id \in still /\ Narrows(page.filter) => r.match
    PROVE  ListShape' /\ ListWalked'
<1>1. StampedRows' = StampedRows
  BY DEF StampedRows, Instants
<1>2. ListShape'
  <2>1. table' \in SUBSET StampedRows' /\ Unique(table)' /\ stayed' \subseteq IdsOf(table)'
    BY <1>1 DEF Unique, IdsOf
  <2>2. page' \in [filter : {"none", "search", "status"}, cursor : Cursors,
                   history : Seq(Cursors), items : SUBSET StampedRows]
    BY DEF ListShape
  <2>3. /\ walk' \in Seq(SUBSET StampedRows) /\ Len(walk') = Len(page'.history) + 1
        /\ page'.items = walk'[Len(walk')]
    BY DEF ListShape
  <2>4. \A i \in DOMAIN walk' : Unique(walk[i])'
    BY DEF ListShape, Unique
  <2>5. \A r \in table' : r.id \in stayed' /\ Narrows(page.filter)' => r.match
    BY DEF Narrows
  <2> QED
    BY <1>1, <2>1, <2>2, <2>3, <2>4, <2>5 DEF ListShape
<1>3. ASSUME NEW P, NEW c, PageRight(P, c, table, stayed) PROVE PageRight(P, c, T, still)
  <2>1. \A r \in P : BehindCursor(r, c)
    BY <1>3 DEF PageRight
  <2>2. ASSUME NEW r \in T, r.id \in still
        PROVE  /\ P = {} => ~BehindCursor(r, c)
               /\ P # {} => (r.id \in IdsOf(P) <=> BehindCursor(r, c) /\ ~BehindCursor(r, CursorAfter(P)))
    <3>1. PICK q \in table : q.id = r.id /\ q.at = r.at
      BY <2>2
    <3>2. q.id \in stayed
      BY <2>2, <3>1
    <3>3. \A d : BehindCursor(q, d) <=> BehindCursor(r, d)
      BY <3>1 DEF BehindCursor
    <3>4. /\ P = {} => ~BehindCursor(q, c)
          /\ P # {} => (q.id \in IdsOf(P) <=> BehindCursor(q, c) /\ ~BehindCursor(q, CursorAfter(P)))
      BY <1>3, <3>2 DEF PageRight
    <3> QED
      BY <3>1, <3>3, <3>4
  <2> QED
    BY <2>1, <2>2 DEF PageRight
<1>4. Trail' = Trail /\ (Regular' <=> Regular)
  BY DEF Trail, Regular, SearchReplacesCursor
<1>5. ASSUME Regular PROVE Walked(Trail, walk, T, still)
  <2>1. Walked(Trail, walk, table, stayed)
    BY <1>5 DEF ListWalked
  <2> QED
    BY <1>3, <2>1 DEF Walked
<1> QED
  BY <1>2, <1>4, <1>5 DEF ListWalked

LEMMA InsertRight == ASSUME ListShape, ListWalked, Insert PROVE ListShape' /\ ListWalked'
<1> PICK id \in Ids \ IdsOf(table), at \in Instants, match \in BOOLEAN : table' = table \cup {Row(id, at, match)}
  BY DEF Insert
<1> DEFINE q == Row(id, at, match)
           T == table \cup {q}
<1>1. q.id = id /\ q \in StampedRows
  BY DEF Row, StampedRows, AnyRow, Instants
<1>2. \A r \in table : r.id # id
  BY DEF IdsOf
<1> HIDE DEF q
<1>3. T \in SUBSET StampedRows /\ Unique(T)
  BY <1>1, <1>2 DEF ListShape, Unique
<1>4. stayed \subseteq IdsOf(table) /\ IdsOf(table) \subseteq IdsOf(T) /\ id \notin IdsOf(table)
  BY DEF ListShape, IdsOf
<1>5. \A r \in T : r.id \in stayed => r \in table
  BY <1>1, <1>4
<1>6. \A r \in T : r.id \in stayed /\ Narrows(page.filter) => r.match
  BY <1>5 DEF ListShape
<1>7. \A r \in T : r.id \in stayed => \E s \in table : s.id = r.id /\ s.at = r.at
  BY <1>5
<1>8. UNCHANGED <<list, page, walk>> /\ stayed' = stayed /\ table' = T
  BY DEF Insert, q
<1>9. PICK still : still = stayed
  OBVIOUS
<1> HIDE DEF T
<1> QED
  BY <1>3, <1>4, <1>6, <1>7, <1>8, <1>9, RowsChangeRight

LEMMA ChangeRight == ASSUME ListShape, ListWalked, Change PROVE ListShape' /\ ListWalked'
<1> PICK r \in table :
          /\ table' = (table \ {r}) \cup {[r EXCEPT !.match = ~@]}
          /\ stayed' = IF Narrows(page.filter) THEN stayed \ {r.id} ELSE stayed
  BY DEF Change
<1> DEFINE q == [r EXCEPT !.match = ~@]
           T == (table \ {r}) \cup {q}
           still == IF Narrows(page.filter) THEN stayed \ {r.id} ELSE stayed
<1>1. q \in StampedRows /\ q.id = r.id /\ q.at = r.at
  BY DEF ListShape, StampedRows, AnyRow
<1> HIDE DEF q
<1>2. T \in SUBSET StampedRows /\ Unique(T)
  BY <1>1 DEF ListShape, Unique
<1>3. still \subseteq stayed /\ still \subseteq IdsOf(T)
  BY <1>1 DEF ListShape, IdsOf
<1>4. \A s \in T : \E p \in table : p.id = s.id /\ p.at = s.at
  BY <1>1
<1>5. \A s \in T : s.id \in still /\ Narrows(page.filter) => s.match
  BY <1>1 DEF ListShape
<1>6. UNCHANGED <<list, page, walk>> /\ stayed' = still /\ table' = T
  BY DEF Change, q
<1>7. \A s \in T : s.id \in still => \E p \in table : p.id = s.id /\ p.at = s.at
  BY <1>4
<1>8. PICK remaining : remaining = still
  OBVIOUS
<1> HIDE DEF T, still
<1> QED
  BY <1>2, <1>3, <1>5, <1>6, <1>7, <1>8, RowsChangeRight

\* A row that matches all the while is on one page: the one from whose cursor to the next it lies.
LEMMA OnePage ==
    ASSUME NEW tr \in Seq(Cursors), NEW w \in Seq(SUBSET StampedRows), NEW T \in SUBSET StampedRows, NEW still,
           Walked(tr, w, T, still), w # <<>>, w[Len(w)] = {}, NEW r \in T, r.id \in still
    PROVE  Cardinality({i \in DOMAIN w : r.id \in IdsOf(w[i])}) = 1
<1> DEFINE n == Len(w)
           B(i) == BehindCursor(r, tr[i])
           S == {i \in 1 .. n : ~B(i)}
<1>1. n \in Nat \ {0} /\ DOMAIN w = 1 .. n /\ r \in AnyRow
  BY DEF StampedRows
<1>2. w[n] = {} /\ n \in 1 .. n /\ 1 \in 1 .. n
  BY <1>1
<1>3. B(1)
  BY DEF Walked, BehindCursor
<1>4. \A i, j \in 1 .. n : i <= j /\ B(j) => B(i)
  BY <1>1 DEF Walked
<1>5. ASSUME NEW i \in 1 .. n - 1 PROVE r.id \in IdsOf(w[i]) <=> B(i) /\ ~B(i + 1)
  <2>1. i \in DOMAIN w /\ i \in 1 .. Len(w) - 1
    BY <1>1
  <2>2. w[i] # {} /\ tr[i + 1] = CursorAfter(w[i]) /\ PageRight(w[i], tr[i], T, still)
    BY <2>1 DEF Walked
  <2> QED
    BY <2>2 DEF PageRight
<1>6. ~B(n)
  BY <1>1, <1>2 DEF Walked, PageRight
<1>7. r.id \notin IdsOf(w[n])
  BY <1>2 DEF IdsOf
<1> HIDE DEF B, n
<1>8. S \in SUBSET Nat /\ S # {}
  BY <1>1, <1>2, <1>6
<1>9. PICK m \in S : \A k \in S : m <= k
  <2> HIDE DEF S
  <2> QED
    BY <1>8, LeastNatural
<1>10. m \in 1 .. n /\ ~B(m) /\ m # 1
  BY <1>3, <1>9
<1>11. m - 1 \in 1 .. n - 1 /\ m - 1 \in 1 .. n /\ m - 1 \in Nat /\ (m - 1) + 1 = m
  BY <1>1, <1>10
<1>12. B(m - 1)
  <2>1. m - 1 \notin S
    BY <1>9, <1>10, <1>11
  <2> QED
    BY <1>11, <2>1
<1>13. ASSUME NEW i \in 1 .. n PROVE r.id \in IdsOf(w[i]) <=> i = m - 1
  <2>1. CASE i = n
    BY <1>7, <1>10, <1>1, <2>1
  <2>2. CASE i \in 1 .. n - 1 /\ i < m - 1
    <3>1. i + 1 \in 1 .. n /\ i + 1 <= m - 1
      BY <1>1, <1>11, <2>2
    <3>2. B(i + 1)
      BY <1>4, <1>11, <1>12, <3>1
    <3> QED
      BY <1>5, <1>11, <2>2, <3>2
  <2>3. CASE i \in 1 .. n - 1 /\ i > m - 1
    <3>1. m <= i
      BY <1>1, <1>10, <2>3
    <3>2. ~B(i)
      BY <1>4, <1>10, <3>1
    <3> QED
      BY <1>5, <1>10, <2>3, <3>2
  <2>4. CASE i = m - 1
    BY <1>5, <1>10, <1>11, <1>12, <2>4
  <2> QED
    BY <1>1, <1>10, <2>1, <2>2, <2>3, <2>4
<1>14. {i \in DOMAIN w : r.id \in IdsOf(w[i])} = {m - 1}
  BY <1>1, <1>11, <1>13 DEF n
<1> QED
  BY <1>14, FS_Singleton

LEMMA ListNextRight == ListShape /\ ListWalked /\ [ListNext]_listVars => ListShape' /\ ListWalked'
<1> SUFFICES ASSUME ListShape, ListWalked, [ListNext]_listVars PROVE ListShape' /\ ListWalked'
  OBVIOUS
<1>1. CASE \E filter \in {"none", "search", "status"} : Filter(filter)
  BY <1>1, FilterRight
<1>2. CASE NextPage
  BY <1>2, NextPageRight
<1>3. CASE PreviousPage
  BY <1>3, PreviousPageRight
<1>4. CASE Refetch
  BY <1>4, RefetchRight
<1>5. CASE Insert
  BY <1>5, InsertRight
<1>6. CASE Change
  BY <1>6, ChangeRight
<1>7. CASE UNCHANGED listVars
  BY <1>7 DEF listVars, ListShape, ListWalked, Regular, Trail, Unique, IdsOf, StampedRows, Instants, Narrows,
     SearchReplacesCursor
<1> QED
  BY <1>1, <1>2, <1>3, <1>4, <1>5, <1>6, <1>7 DEF ListNext

\* However rows come and change, and however often a page is read again: where rows carry whole
\* milliseconds and no search takes the cursor's place, a walk that has reached the end has shown
\* what matched all the while once (operations.service.ts, cursor.ts, resource-screen.tsx).
THEOREM ListSpecWalkComplete == ListSpec => []RegularWalkComplete
<1>1. ListInit => ListShape /\ ListWalked
  BY ListInitRight
<1>2. ListShape /\ ListWalked /\ [ListNext]_listVars => ListShape' /\ ListWalked'
  BY ListNextRight
<1>3. ListShape /\ ListWalked => RegularWalkComplete
  <2> SUFFICES ASSUME ListShape, ListWalked, Regular, page.items = {}, NEW id \in stayed
               PROVE  Cardinality({i \in DOMAIN walk : id \in IdsOf(walk[i])}) = 1
    BY DEF RegularWalkComplete, WalkComplete, Regular
  <2>1. PICK r \in table : r.id = id
    BY DEF ListShape, IdsOf
  <2>2. /\ Trail \in Seq(Cursors) /\ walk \in Seq(SUBSET StampedRows)
        /\ table \in SUBSET StampedRows
        /\ Walked(Trail, walk, table, stayed)
    BY DEF ListShape, ListWalked, Trail
  <2>3. walk # <<>> /\ walk[Len(walk)] = {}
    BY DEF ListShape
  <2>4. PICK T, still : T = table /\ still = stayed
    OBVIOUS
  <2> QED
    BY <2>1, <2>2, <2>3, <2>4, OnePage
<1> QED
  BY <1>1, <1>2, <1>3, PTL DEF ListSpec
=============================================================================
