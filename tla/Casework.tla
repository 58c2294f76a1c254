------------------------------ MODULE Casework ------------------------------
(* What administrators do to complaints, emergencies and roles in           *)
(* OperationsService.  A complaint's assignee must hold an active role at   *)
(* the time; each change leaves a numbered row in a history that nothing    *)
(* may rewrite afterwards (append-only triggers).  Clients may send the     *)
(* version they saw, or none.                                               *)
EXTENDS Transactions, Sequences, Naturals, FiniteSets, SequencesExt

CONSTANTS Roles,       \* roles that carry complaint.update, one holder each
          MaxChanges   \* bound on the changes of one complaint or emergency

ComplaintStatuses ==
    {"OPEN", "ASSIGNED", "IN_PROGRESS", "RESOLVED", "CLOSED", "REOPENED", "CANCELLED"}

\* allowedComplaintTransition.
AllowedTransition(from, to) ==
    to \in CASE from = "OPEN" -> {"ASSIGNED", "CANCELLED"}
             [] from = "ASSIGNED" -> {"IN_PROGRESS", "CANCELLED"}
             [] from = "IN_PROGRESS" -> {"RESOLVED", "CANCELLED"}
             [] from = "RESOLVED" -> {"CLOSED", "REOPENED"}
             [] from \in {"CLOSED", "CANCELLED"} -> {"REOPENED"}
             [] from = "REOPENED" -> {"ASSIGNED", "IN_PROGRESS", "CANCELLED"}

\* COMPLAINT_TRANSITIONS and EMERGENCY_TRANSITIONS of the domain package, which
\* the API does not use.
ComplaintTransitions(from) ==
    CASE from = "OPEN" -> {"ASSIGNED", "CANCELLED"}
      [] from = "ASSIGNED" -> {"IN_PROGRESS", "RESOLVED", "CANCELLED"}
      [] from = "IN_PROGRESS" -> {"RESOLVED", "CANCELLED"}
      [] from = "RESOLVED" -> {"CLOSED", "REOPENED"}
      [] from = "REOPENED" -> {"ASSIGNED", "IN_PROGRESS", "RESOLVED", "CANCELLED"}
      [] OTHER -> {}

EmergencyTransitions(from) ==
    CASE from = "ACTIVE" -> {"ACKNOWLEDGED", "FALSE_ALARM"}
      [] from = "ACKNOWLEDGED" -> {"RESPONDING", "RESOLVED", "FALSE_ALARM"}
      [] from = "RESPONDING" -> {"RESOLVED", "FALSE_ALARM"}
      [] OTHER -> {}

VARIABLE unfit    \* history: assignments to a holder whose role was not active any more

caseworkVars == <<db, tx, unfit>>

FirstCase ==
    [complaint |-> [status |-> "OPEN", assignee |-> "none", reopened |-> 0, version |-> 1,
                    history |-> <<>>, assignments |-> <<>>],
     alert |-> [status |-> "ACTIVE", responding |-> FALSE, version |-> 1, events |-> <<>>],
     role |-> [r \in Roles |-> "ABSENT"]]

CaseworkInit ==
    /\ db = FirstCase
    /\ TxInit(db)
    /\ unfit = FALSE

Change(from, to) == [from |-> from, to |-> to]

\* version: input.version ?? the one read; no row updated is answered 409.
Expects(input, read, current) == current = IF input = 0 THEN read ELSE input

\* assignComplaint: anything not completed becomes ASSIGNED.
AssignComplaint(a, r) ==
    LET seen == tx[a].seen.complaint IN
    /\ tx[a].seen.role[r] = "ACTIVE"
    /\ seen.status \notin {"RESOLVED", "CLOSED", "CANCELLED"}
    /\ Expects(0, seen.version, db.complaint.version)
    /\ seen.version < MaxChanges
    /\ Commit(a, [db EXCEPT
         !.complaint.assignee = r,
         !.complaint.status = "ASSIGNED",
         !.complaint.version = @ + 1,
         !.complaint.assignments = Append(@, Change(seen.assignee, r))])
    /\ unfit' = (unfit \/ db.role[r] # "ACTIVE")

\* transitionComplaint: the table, then the guarded update and a history row.
TransitionComplaint(a, to, version) ==
    LET seen == tx[a].seen.complaint IN
    /\ AllowedTransition(seen.status, to)
    /\ Expects(version, seen.version, db.complaint.version)
    /\ db.complaint.version < MaxChanges
    /\ Commit(a, [db EXCEPT
         !.complaint.status = to,
         !.complaint.reopened = IF to = "REOPENED" THEN @ + 1 ELSE @,
         !.complaint.version = @ + 1,
         !.complaint.history = Append(@, Change(seen.status, to))])
    /\ UNCHANGED unfit

\* mutateEmergency: the row, and an event from the status read to the new one.
MutateEmergency(a, to, version) ==
    LET seen == tx[a].seen.alert IN
    /\ Expects(version, seen.version, db.alert.version)
    /\ db.alert.version < MaxChanges
    /\ Commit(a, [db EXCEPT
         !.alert.status = to,
         !.alert.responding = @ \/ to = "RESPONDING",
         !.alert.version = @ + 1,
         !.alert.events = Append(@, Change(seen.status, to))])
    /\ UNCHANGED unfit

AcknowledgeEmergency(a) ==
    tx[a].seen.alert.status = "ACTIVE" /\ MutateEmergency(a, "ACKNOWLEDGED", 0)

RespondEmergency(a, version) ==
    /\ tx[a].seen.alert.status \in {"ACKNOWLEDGED", "RESPONDING"}
    /\ MutateEmergency(a, "RESPONDING", version)

ResolveEmergency(a, version) ==
    /\ tx[a].seen.alert.status \notin {"RESOLVED", "FALSE_ALARM"}
    /\ \E to \in {"RESOLVED", "FALSE_ALARM"} : MutateEmergency(a, to, version)

\* createRole; the role is given to its holder elsewhere.
CreateRole(a, r) ==
    /\ db.role[r] = "ABSENT"
    /\ Commit(a, [db EXCEPT !.role[r] = "ACTIVE"])
    /\ UNCHANGED unfit

\* deactivateRole: also of a role that is inactive already.
DeactivateRole(a, r) ==
    /\ tx[a].seen.role[r] # "ABSENT"
    /\ Commit(a, [db EXCEPT !.role[r] = "INACTIVE"])
    /\ UNCHANGED unfit

CaseworkNext ==
    \E a \in Admins :
      \/ TransactionStep(a) /\ UNCHANGED unfit
      \/ \E r \in Roles : AssignComplaint(a, r) \/ CreateRole(a, r) \/ DeactivateRole(a, r)
      \/ AcknowledgeEmergency(a)
      \/ \E version \in 0..MaxChanges :
           \/ \E to \in ComplaintStatuses : TransitionComplaint(a, to, version)
           \/ RespondEmergency(a, version) \/ ResolveEmergency(a, version)

CaseworkSpec == CaseworkInit /\ [][CaseworkNext]_caseworkVars

-----------------------------------------------------------------------------
Linked(rows) == \A i \in 1..(Len(rows) - 1) : rows[i].to = rows[i + 1].from
Reopenings(rows) == Cardinality({i \in DOMAIN rows : rows[i].to = "REOPENED"})

\* The histories can be believed: an emergency's events lead from ACTIVE to its
\* status without a gap, so do a complaint's assignments to its assignee; every
\* change of the version is one row of a history, every reopening is counted,
\* each row of the status history is a step of the table, and nobody was
\* assigned whose role had been taken away.
TrailsAgree ==
    LET complaint == db.complaint
        alert == db.alert
    IN  /\ Linked(alert.events) /\ Linked(complaint.assignments)
        /\ alert.events # <<>> =>
             Head(alert.events).from = "ACTIVE" /\ Last(alert.events).to = alert.status
        /\ Len(alert.events) = alert.version - 1
        /\ complaint.assignments # <<>> => Last(complaint.assignments).to = complaint.assignee
        /\ Len(complaint.history) + Len(complaint.assignments) = complaint.version - 1
        /\ complaint.reopened = Reopenings(complaint.history)
        /\ \A i \in DOMAIN complaint.history :
             AllowedTransition(complaint.history[i].from, complaint.history[i].to)
        /\ ~unfit

\* "Every status transition must be stored": the status history leads from OPEN
\* to the complaint's status without a gap.
StatusHistoryComplete ==
    LET complaint == db.complaint IN
    /\ Linked(complaint.history)
    /\ complaint.history # <<>> => Last(complaint.history).to = complaint.status
    /\ complaint.history = <<>> => complaint.status = "OPEN"

\* "accepts only declared complaint transitions", "accepts only declared
\* emergency transitions" (state-machines.test.ts): the steps the API records
\* are steps of the domain's tables.
OnlyDeclaredSteps ==
    /\ \A i \in DOMAIN db.complaint.history :
         LET h == db.complaint.history[i] IN h.to \in ComplaintTransitions(h.from)
    /\ \A i \in DOMAIN db.alert.events :
         LET e == db.alert.events[i] IN e.to \in EmergencyTransitions(e.from)
=============================================================================
