------------------------------- MODULE Visits -------------------------------
(***************************************************************************)
(* A visit and its approval: the rules of packages/domain/src/visitor.ts   *)
(* under concurrent callers, and the two statements of the worker that     *)
(* change visits behind their backs, visitor.approval-timeout and          *)
(* visitor.long-visit.  The endpoints that apply the rules are not in the  *)
(* repository; they are taken to be SERIALIZABLE transactions like every   *)
(* other operation of the API.  The worker's statements run at READ        *)
(* COMMITTED: they are atomic on the rows they lock, and a transaction     *)
(* that then writes a row they changed is aborted.                         *)
(***************************************************************************)
EXTENDS Transactions, Naturals, Sequences, SequencesExt

CONSTANT MaxEvents   \* bound on the events of the visit

VARIABLES late,      \* approval_deadline has passed
          lingering  \* checked in for longer than the society's threshold

visitVars == <<db, tx, late, lingering>>

Terminal == {"CHECKED_OUT", "CANCELLED", "EXPIRED"}

\* VISIT_TRANSITIONS.
Onward(from) ==
    CASE from = "DRAFT" -> {"EXPECTED", "ARRIVED_AT_GATE", "CANCELLED"}
      [] from = "EXPECTED" -> {"ARRIVED_AT_GATE", "CANCELLED", "EXPIRED"}
      [] from = "ARRIVED_AT_GATE" -> {"AWAITING_APPROVAL", "APPROVED", "CANCELLED"}
      [] from = "AWAITING_APPROVAL" -> {"APPROVED", "REJECTED", "APPROVAL_TIMED_OUT", "CANCELLED"}
      [] from = "APPROVED" -> {"CHECKED_IN", "CANCELLED", "EXPIRED"}
      [] from \in {"REJECTED", "APPROVAL_TIMED_OUT"} -> {"APPROVED"}
      [] from = "CHECKED_IN" -> {"CHECKED_OUT"}
      [] from \in Terminal -> {}

\* transitionVisit: who may take a step of the table.
ModeAllows(from, to, mode) ==
    /\ from = "ARRIVED_AT_GATE" /\ to = "APPROVED" => mode = "PRE_APPROVAL"
    /\ from = "AWAITING_APPROVAL" /\ to \in {"APPROVED", "REJECTED"} => mode = "RESIDENT_DECISION"
    /\ from \in {"REJECTED", "APPROVAL_TIMED_OUT"} => mode = "OVERRIDE"
    /\ to = "APPROVAL_TIMED_OUT" => mode = "SYSTEM"

FirstVisit ==
    [status |-> "DRAFT", approval |-> "none", decisions |-> <<>>, flagged |-> FALSE, events |-> <<>>]

VisitInit ==
    /\ db = FirstVisit
    /\ TxInit(db)
    /\ late = FALSE /\ lingering = FALSE

Event(from, to) == [from |-> from, to |-> to]

\* decideVisitApproval: only a PENDING approval, and only one decision.
Decided(outcome) == [db EXCEPT !.approval = outcome, !.decisions = Append(@, outcome)]

\* What a step does to the approval: asking for one, the decision that comes
\* with it, and for a cancelled visit perhaps none (nothing says who cancels it).
ApprovalRows(seen, to) ==
    CASE to = "AWAITING_APPROVAL" -> {[db EXCEPT !.approval = "PENDING"]}
      [] seen.approval = "PENDING" /\ to \in {"APPROVED", "REJECTED"} -> {Decided(to)}
      [] seen.approval = "PENDING" /\ to = "CANCELLED" -> {db, Decided("CANCELLED")}
      [] OTHER -> {db}

\* A caller takes the visit one step further.
MoveVisit(a, to, mode) ==
    LET seen == tx[a].seen IN
    /\ to \in Onward(seen.status) /\ ModeAllows(seen.status, to, mode)
    /\ Len(db.events) < MaxEvents
    /\ \E rows \in ApprovalRows(seen, to) :
         Commit(a, [rows EXCEPT !.status = to, !.events = Append(@, Event(seen.status, to))])
    /\ UNCHANGED <<late, lingering>>

DeadlinePasses ==
    /\ db.approval = "PENDING" /\ ~late
    /\ late' = TRUE
    /\ UNCHANGED <<db, tx, lingering>>

StaysLong ==
    /\ db.status = "CHECKED_IN" /\ ~lingering
    /\ lingering' = TRUE
    /\ UNCHANGED <<db, tx, late>>

\* The worker's statement commits: rows it changed are newer than every open
\* snapshot.
Overtake(rows) ==
    /\ db' = rows
    /\ tx' = [b \in Admins |->
         IF tx[b].open THEN [tx[b] EXCEPT !.stale = TRUE] ELSE [tx[b] EXCEPT !.seen = rows]]

\* Mutant: the timeout is applied to the visit whatever became of it.
AwaitsStillAlways == TRUE

AwaitsStill == db.status = "AWAITING_APPROVAL"

\* expireApprovals: the approval and its decision, and the visit if it still
\* waits, with its event.
ExpireApprovals ==
    /\ db.approval = "PENDING" /\ late
    /\ LET expired == Decided("TIMED_OUT") IN
       Overtake(IF AwaitsStill
                THEN [expired EXCEPT !.status = "APPROVAL_TIMED_OUT",
                                     !.events = Append(@, Event(db.status, "APPROVAL_TIMED_OUT"))]
                ELSE expired)
    /\ UNCHANGED <<late, lingering>>

\* flagLongVisits: once, while the visitor is inside.
FlagLongVisits ==
    /\ db.status = "CHECKED_IN" /\ lingering /\ ~db.flagged
    /\ Overtake([db EXCEPT !.flagged = TRUE, !.events = Append(@, Event(db.status, db.status))])
    /\ UNCHANGED <<late, lingering>>

Modes == {"STANDARD", "PRE_APPROVAL", "RESIDENT_DECISION", "OVERRIDE", "SYSTEM"}

VisitNext ==
    \/ \E a \in Admins :
         \/ TransactionStep(a) /\ UNCHANGED <<late, lingering>>
         \/ \E mode \in Modes \ {"SYSTEM"} : \E to \in Onward(tx[a].seen.status) : MoveVisit(a, to, mode)
    \/ DeadlinePasses \/ StaysLong \/ ExpireApprovals \/ FlagLongVisits

VisitSpec == VisitInit /\ [][VisitNext]_visitVars

-----------------------------------------------------------------------------
\* The timeout and the people race and the record still tells one story: the
\* events lead from DRAFT to the status, each a step of the table or the flag of
\* a visitor inside, the approval was decided once at most, a visit that timed
\* out has the approval that did, and one that waits has one that is not decided.
OneStory ==
    LET events == db.events
    IN  /\ events # <<>> => Head(events).from = "DRAFT" /\ Last(events).to = db.status
        /\ \A i \in DOMAIN events :
             events[i].to \in Onward(events[i].from) \/ events[i] = Event("CHECKED_IN", "CHECKED_IN")
        /\ \A i \in 1..(Len(events) - 1) : events[i].to = events[i + 1].from
        /\ Len(db.decisions) <= 1
        /\ (\E i \in DOMAIN events : events[i].to = "APPROVAL_TIMED_OUT") => db.approval = "TIMED_OUT"
        /\ db.status = "AWAITING_APPROVAL" => db.approval = "PENDING"
=============================================================================
