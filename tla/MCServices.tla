----------------------------- MODULE MCServices -----------------------------
(* Finite instances of the API's operations and of the worker's other jobs. *)
(* They meet in the database only through the journal and the outbox, which *)
(* have models of their own, so each is checked by itself: Init chooses the *)
(* part and only its variables move; those of the other parts are unused.   *)
EXTENDS Journal, SignIn, OtpDelivery, Payments, Residency, Casework, Visits, FileJobs

VARIABLE part

dbState == <<db, tx, refused, sentTo, unfit, late, lingering>>
servicesVars == <<part, journalVars, signInVars, otpVars, dbState, fileVars>>

\* Of an idle part any initial state will do.
AnyOf(S) == CHOOSE x \in S : TRUE
IdlePartsSettled ==
    /\ part # "journal" =>
         \A r \in Requests : request[r].key = AnyOf(Keys) /\ request[r].body = AnyOf(Bodies)
    /\ part # "signin" => method = "otp"
    /\ part # "money" => \A c \in Charges : db.charge[c].flat = AnyOf(Flats)
    /\ part # "files" => genuine = {} /\ \A f \in Files : fileStatus[f] = "UPLOADED"

AllRows(money) ==
    [payment |-> money.payment, allocations |-> money.allocations, charge |-> money.charge,
     member |-> FirstRoster.member, notice |-> FirstRoster.notice,
     recipients |-> FirstRoster.recipients, complaint |-> FirstCase.complaint,
     alert |-> FirstCase.alert, role |-> FirstCase.role, status |-> FirstVisit.status,
     approval |-> FirstVisit.approval, decisions |-> FirstVisit.decisions,
     flagged |-> FirstVisit.flagged, events |-> FirstVisit.events]

\* The database holds the rows of every part.
ServicesInit ==
    /\ part \in {"journal", "signin", "codes", "money", "roster", "cases", "gates", "files"}
    /\ JournalInit /\ SignInInit /\ OtpInit /\ FileInit
    /\ \E money \in FirstLedger : db = AllRows(money)
    /\ IF part \in {"money", "roster", "cases", "gates"} THEN TxInit(db) ELSE tx = "unused"
    /\ refused = {} /\ sentTo = [n \in Notices |-> {}]
    /\ unfit = FALSE /\ late = FALSE /\ lingering = FALSE
    /\ IdlePartsSettled

\* A transaction of the API's on the rows of one part; the others keep still.
DbNext ==
    \/ part = "money" /\ PaymentsNext /\ UNCHANGED <<refused, sentTo, unfit, late, lingering>>
    \/ part = "roster" /\ ResidencyNext /\ UNCHANGED <<unfit, late, lingering>>
    \/ part = "cases" /\ CaseworkNext /\ UNCHANGED <<refused, sentTo, late, lingering>>
    \/ part = "gates" /\ VisitNext /\ UNCHANGED <<refused, sentTo, unfit>>

ServicesNext ==
    /\ UNCHANGED part
    /\ \/ /\ part = "journal" /\ JournalNext
          /\ UNCHANGED <<signInVars, otpVars, dbState, fileVars>>
       \/ /\ part = "signin" /\ SignInNext
          /\ UNCHANGED <<journalVars, otpVars, dbState, fileVars>>
       \/ /\ part = "codes" /\ OtpNext
          /\ UNCHANGED <<journalVars, signInVars, dbState, fileVars>>
       \/ /\ part = "files" /\ FileNext
          /\ UNCHANGED <<journalVars, signInVars, otpVars, dbState>>
       \/ DbNext /\ UNCHANGED <<journalVars, signInVars, otpVars, fileVars>>

ServicesSpec == ServicesInit /\ [][ServicesNext]_servicesVars
=============================================================================
