----------------------------- MODULE Residency -----------------------------
(* Who lives in a flat, and which notices reach them: the memberships of    *)
(* MembershipService and the notices of OperationsService, which freezes    *)
(* its recipients from the memberships it sees.  One flat; the family       *)
(* members a membership manages follow it.                                  *)
EXTENDS Transactions, Sequences, FiniteSets, Naturals

CONSTANTS Memberships,   \* primary keys of flat_memberships
          Users,
          Notices,       \* primary keys of notices
          MaxDecisions   \* bound: length of a membership's history

MembershipStatuses == {"PENDING", "APPROVED", "REJECTED", "SUSPENDED", "ENDED"}

\* MEMBERSHIP_TRANSITIONS of the domain package.
Allowed ==
    [s \in MembershipStatuses |->
       CASE s = "PENDING" -> {"APPROVED", "REJECTED"}
         [] s = "APPROVED" -> {"SUSPENDED", "ENDED"}
         [] s = "SUSPENDED" -> {"APPROVED", "ENDED"}
         [] OTHER -> {}]

VARIABLES refused,    \* history: the decision just refused, with the status it was refused in
          sentTo      \* history: notice -> who was a member when it was published

residencyVars == <<db, tx, refused, sentTo>>

NoMembership == [user |-> "none", status |-> "ABSENT", trail |-> <<>>, family |-> FALSE]

FirstRoster ==
    [member |-> [m \in Memberships |-> NoMembership],
     notice |-> [n \in Notices |-> "ABSENT"],
     recipients |-> [n \in Notices |-> {}]]

ResidencyInit ==
    /\ db = FirstRoster
    /\ TxInit(db)
    /\ refused = {}
    /\ sentTo = [n \in Notices |-> {}]

Status(d, m) == d.member[m].status
Approved(d) == {d.member[m].user : m \in {x \in Memberships : Status(d, x) = "APPROVED"}}

\* A step that refuses no decision and sends no notice.
Quiet == refused' = {} /\ UNCHANGED sentTo

\* The partial unique index: one APPROVED row of a user and a flat.
OneApproved(d) ==
    \A m, n \in Memberships :
      /\ m # n
      /\ Status(d, m) = "APPROVED" /\ Status(d, n) = "APPROVED"
      => d.member[m].user # d.member[n].user

\* request: nothing pending or approved of this user in the flat.
RequestMembership(a, m, u) ==
    /\ Status(db, m) = "ABSENT"
    /\ \A n \in Memberships :
         tx[a].seen.member[n].user = u => Status(tx[a].seen, n) \notin {"PENDING", "APPROVED"}
    /\ Commit(a, [db EXCEPT !.member[m] =
         [user |-> u, status |-> "PENDING", trail |-> <<"PENDING">>, family |-> FALSE]])
    /\ Quiet

\* transitionMembership: the table, a reason for all but an approval, and for
\* ENDED an occupancyEndsAt in the past, which transition() never passes.
DomainAllows(from, target, reason) ==
    /\ target \in Allowed[from]
    /\ target # "APPROVED" => reason
    /\ target # "ENDED"

\* Mutant: the unique index on approved memberships is missing.
DecisionUnindexed(a, m, target) ==
    LET seen == tx[a].seen
        rows == [db EXCEPT !.member[m].status = target,
                           !.member[m].trail = Append(seen.member[m].trail, target)]
    IN  seen.member[m] = db.member[m] /\ Commit(a, rows)

\* The guarded update, the history row after the last one seen, the index.
Decision(a, m, target) ==
    LET seen == tx[a].seen
        rows == [db EXCEPT !.member[m].status = target,
                           !.member[m].trail = Append(seen.member[m].trail, target)]
    IN  seen.member[m] = db.member[m] /\ OneApproved(rows) /\ Commit(a, rows)

\* transition: approve, reject, suspend, end.  A refusal of the domain rules
\* rolls back and is answered 409.
Decide(a, m, target, reason) ==
    /\ tx[a].open
    /\ Status(tx[a].seen, m) # "ABSENT"
    /\ Len(tx[a].seen.member[m].trail) < MaxDecisions
    /\ IF DomainAllows(Status(tx[a].seen, m), target, reason)
       THEN Decision(a, m, target) /\ refused' = {}
       ELSE /\ Abort(a)
            /\ refused' =
                 {[from |-> Status(tx[a].seen, m), target |-> target, reason |-> reason]}
    /\ UNCHANGED sentTo

\* createFamilyMember: managed by an approved membership.
CreateFamilyMember(a, m) ==
    /\ Status(tx[a].seen, m) = "APPROVED"
    /\ Commit(a, [db EXCEPT !.member[m].family = TRUE])
    /\ Quiet

\* createNotice: a draft, or scheduled when a future publishAt is given.
CreateNotice(a, n) ==
    /\ db.notice[n] = "ABSENT"
    /\ \E s \in {"DRAFT", "SCHEDULED"} : Commit(a, [db EXCEPT !.notice[n] = s])
    /\ Quiet

\* publishNotice: recipients resolved from the snapshot and stored with the
\* status; the update is guarded by the notice's version alone.
PublishNotice(a, n) ==
    /\ tx[a].seen.notice[n] \in {"DRAFT", "SCHEDULED"}
    /\ db.notice[n] = tx[a].seen.notice[n]
    /\ Commit(a, [db EXCEPT !.notice[n] = "PUBLISHED",
                            !.recipients[n] = Approved(tx[a].seen)])
    /\ sentTo' = [sentTo EXCEPT ![n] = Approved(db)]
    /\ refused' = {}

\* archiveNotice: from anything but ARCHIVED.
ArchiveNotice(a, n) ==
    /\ tx[a].seen.notice[n] \notin {"ABSENT", "ARCHIVED"}
    /\ db.notice[n] = tx[a].seen.notice[n]
    /\ Commit(a, [db EXCEPT !.notice[n] = "ARCHIVED"])
    /\ Quiet

ResidencyNext ==
    \E a \in Admins :
      \/ TransactionStep(a) /\ Quiet
      \/ \E m \in Memberships :
           \/ \E u \in Users : RequestMembership(a, m, u)
           \/ \E target \in MembershipStatuses \ {"PENDING"}, reason \in BOOLEAN :
                Decide(a, m, target, reason)
           \/ CreateFamilyMember(a, m)
      \/ \E n \in Notices : CreateNotice(a, n) \/ PublishNotice(a, n) \/ ArchiveNotice(a, n)

ResidencySpec == ResidencyInit /\ [][ResidencyNext]_residencyVars

-----------------------------------------------------------------------------
\* However requests, decisions and publications overlap: no user is approved
\* twice for the flat (a suspended member may ask again and both rows may be
\* decided), a membership's history is a path of the transition table to its
\* status, and a notice went to exactly those who were members when it was
\* published, whatever happened to them since.
RosterConsistent ==
    /\ OneApproved(db)
    /\ \A m \in Memberships :
         LET trail == db.member[m].trail IN
         trail # <<>> =>
           /\ trail[1] = "PENDING" /\ trail[Len(trail)] = Status(db, m)
           /\ \A i \in 1..(Len(trail) - 1) : trail[i + 1] \in Allowed[trail[i]]
    /\ \A n \in Notices : db.recipients[n] = sentTo[n]

\* The administration's "End occupancy" ("End this occupancy. The resident
\* loses access at the specified time."): given a reason, a decision the
\* transition table allows is not refused.
AllowedIsNotRefused ==
    \A r \in refused : r.reason => r.target \notin Allowed[r.from]
=============================================================================
