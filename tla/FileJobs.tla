------------------------------ MODULE FileJobs ------------------------------
(***************************************************************************)
(* The worker's file jobs: file.scan, file.quarantine-cleanup and          *)
(* retention.execute.  A row of file_uploads and two objects stand for a   *)
(* file: the quarantined upload and the private copy.  The outbox runs     *)
(* every job at least once, so any number of workers may be anywhere in    *)
(* the same job of the same file; every database statement and every call  *)
(* to the object store or the scanner is a step, and any of them may fail. *)
(***************************************************************************)
EXTENDS FiniteSets

CONSTANTS Files, Scanners

VARIABLES fileStatus,  \* file_uploads.status
          key,         \* storage_key: "quarantine" or "private"
          quarantine,  \* files whose quarantined object exists
          private,     \* files whose private object exists
          cleanups,    \* file.quarantine-cleanup events (dedupe_key: one per file)
          expired,     \* retention_until and the policy's days have passed
          genuine,     \* files whose metadata and digest match the declaration
          work,        \* worker -> the file and the step of its job
          verdicts,    \* history: what the scanner said of a file
          erased       \* history: files whose private object retention deleted

fileVars == <<fileStatus, key, quarantine, private, cleanups, expired, genuine, work, verdicts,
              erased>>
facts == <<genuine, expired>>

Scannable == {"UPLOADED", "QUARANTINED", "SCANNING"}
FileStatuses == Scannable \cup {"CLEAN", "REJECTED", "DELETED"}
FileSteps == {"idle", "inspect", "claim", "scan", "copy", "promote", "reject", "discard",
              "erase", "mark"}

FileTypeOK ==
    /\ fileStatus \in [Files -> FileStatuses] /\ key \in [Files -> {"quarantine", "private"}]
    /\ quarantine \subseteq Files /\ private \subseteq Files /\ cleanups \subseteq Files
    /\ \A w \in Scanners :
          work[w].step \in FileSteps /\ (work[w].step # "idle" => work[w].file \in Files)

Free == [file |-> "none", step |-> "idle"]

FileInit ==
    /\ fileStatus \in [Files -> {"UPLOADED", "QUARANTINED"}]
    /\ key = [f \in Files |-> "quarantine"]
    /\ quarantine = Files /\ private = {} /\ cleanups = {} /\ expired = {} /\ erased = {}
    /\ genuine \in SUBSET Files
    /\ work = [w \in Scanners |-> Free]
    /\ verdicts = [f \in Files |-> {}]

At(w, step) == work[w].step = step
Go(w, step) == work' = [work EXCEPT ![w].step = step]
\* The job returns or throws: what it did to the rows and objects stays.
Leave(w) == work' = [work EXCEPT ![w] = Free]
Take(w, f, step) == At(w, "idle") /\ work' = [work EXCEPT ![w] = [file |-> f, step |-> step]]

\* scanFile: a settled file only needs its quarantined object removed.
ScanFile(w, f) ==
    /\ \/ fileStatus[f] \in Scannable /\ key[f] = "quarantine" /\ Take(w, f, "inspect")
       \/ fileStatus[f] = "REJECTED" /\ key[f] = "quarantine" /\ Take(w, f, "discard")
    /\ UNCHANGED <<fileStatus, key, quarantine, private, cleanups, facts, verdicts, erased>>

\* Mutant: size, type and digest of the object are not compared.
AsDeclaredAlways(f) == TRUE

AsDeclared(f) == f \in genuine

\* The object's size, type, digest and magic bytes against the declaration.
Inspect(w) ==
    /\ At(w, "inspect") /\ work[w].file \in quarantine
    /\ Go(w, IF AsDeclared(work[w].file) THEN "claim" ELSE "reject")
    /\ UNCHANGED <<fileStatus, key, quarantine, private, cleanups, facts, verdicts, erased>>

\* UPDATE ... SET status = 'SCANNING': also over another worker's claim.
Claim(w) ==
    LET f == work[w].file IN
    /\ At(w, "claim")
    /\ fileStatus[f] \in Scannable /\ key[f] = "quarantine"
    /\ fileStatus' = [fileStatus EXCEPT ![f] = "SCANNING"]
    /\ Go(w, "scan")
    /\ UNCHANGED <<key, quarantine, private, cleanups, facts, verdicts, erased>>

\* clamd answers; two scans of one file may disagree.
Scan(w) ==
    /\ At(w, "scan") /\ work[w].file \in quarantine
    /\ \E verdict \in {"clean", "malware"} :
         /\ Go(w, IF verdict = "clean" THEN "copy" ELSE "reject")
         /\ verdicts' = [verdicts EXCEPT ![work[w].file] = @ \cup {verdict}]
    /\ UNCHANGED <<fileStatus, key, quarantine, private, cleanups, facts, erased>>

Copy(w) ==
    /\ At(w, "copy") /\ work[w].file \in quarantine
    /\ private' = private \cup {work[w].file}
    /\ Go(w, "promote")
    /\ UNCHANGED <<fileStatus, key, quarantine, cleanups, facts, verdicts, erased>>

\* Mutant: the promotion does not ask for SCANNING.
PromotableAlways(f) == TRUE

Promotable(f) == fileStatus[f] = "SCANNING" /\ key[f] = "quarantine"

\* The promotion and the cleanup event, in one statement.
Promote(w) ==
    LET f == work[w].file IN
    /\ At(w, "promote") /\ Promotable(f)
    /\ fileStatus' = [fileStatus EXCEPT ![f] = "CLEAN"]
    /\ key' = [key EXCEPT ![f] = "private"]
    /\ cleanups' = cleanups \cup {f}
    /\ Leave(w)
    /\ UNCHANGED <<quarantine, private, facts, verdicts, erased>>

\* rejectFile: the row first, unless another job rejected it before.
Reject(w) ==
    LET f == work[w].file IN
    /\ At(w, "reject")
    /\ fileStatus[f] \in Scannable \cup {"REJECTED"} /\ key[f] = "quarantine"
    /\ fileStatus' = [fileStatus EXCEPT ![f] = "REJECTED"]
    /\ Go(w, "discard")
    /\ UNCHANGED <<key, quarantine, private, cleanups, facts, verdicts, erased>>

\* cleanupQuarantine: only of a promoted file.
CleanupQuarantine(w, f) ==
    /\ f \in cleanups
    /\ fileStatus[f] \in {"CLEAN", "DELETED"} /\ key[f] = "private"
    /\ Take(w, f, "discard")
    /\ UNCHANGED <<fileStatus, key, quarantine, private, cleanups, facts, verdicts, erased>>

DeleteQuarantine(w) ==
    /\ At(w, "discard")
    /\ quarantine' = quarantine \ {work[w].file}
    /\ Leave(w)
    /\ UNCHANGED <<fileStatus, key, private, cleanups, facts, verdicts, erased>>

\* Scans end long before the shortest retention (a day): every provider call
\* has a time limit.
ScansOver(f) ==
    \A w \in Scanners : work[w].file = f => work[w].step \in {"discard", "erase", "mark"}

\* applyRetention selects the file, deletes the object, then marks the row.
SelectRetained(w, f) ==
    /\ fileStatus[f] = "CLEAN" /\ f \in expired /\ ScansOver(f)
    /\ Take(w, f, "erase")
    /\ UNCHANGED <<fileStatus, key, quarantine, private, cleanups, facts, verdicts, erased>>

DeletePrivate(w) ==
    /\ At(w, "erase")
    /\ private' = private \ {work[w].file}
    /\ erased' = erased \cup {work[w].file}
    /\ Go(w, "mark")
    /\ UNCHANGED <<fileStatus, key, quarantine, cleanups, facts, verdicts>>

MarkDeleted(w) ==
    LET f == work[w].file IN
    /\ At(w, "mark")
    /\ fileStatus[f] = "CLEAN" /\ f \in expired
    /\ fileStatus' = [fileStatus EXCEPT ![f] = "DELETED"]
    /\ Leave(w)
    /\ UNCHANGED <<key, quarantine, private, cleanups, facts, verdicts, erased>>

\* A guard of the next statement fails, a call errors or times out, the
\* process dies.
Fails(w) ==
    /\ ~At(w, "idle")
    /\ Leave(w)
    /\ UNCHANGED <<fileStatus, key, quarantine, private, cleanups, facts, verdicts, erased>>

\* Time passes, or the retention of a file is extended.
RetentionChanges(f) ==
    /\ expired' = IF f \in expired THEN expired \ {f} ELSE expired \cup {f}
    /\ UNCHANGED <<fileStatus, key, quarantine, private, cleanups, genuine, work, verdicts, erased>>

FileNext ==
    \/ \E w \in Scanners :
         \/ Inspect(w) \/ Claim(w) \/ Scan(w) \/ Copy(w) \/ Promote(w) \/ Reject(w)
         \/ DeleteQuarantine(w) \/ DeletePrivate(w) \/ MarkDeleted(w) \/ Fails(w)
         \/ \E f \in Files : ScanFile(w, f) \/ CleanupQuarantine(w, f) \/ SelectRetained(w, f)
    \/ \E f \in Files : RetentionChanges(f)

FileSpec == FileInit /\ [][FileNext]_fileVars

-----------------------------------------------------------------------------
\* Whatever jobs overlap, repeat and fail half way: a file is served as CLEAN
\* only if a scan of a genuine upload found nothing, and then its private
\* object exists unless retention took it; an upload without a verdict is not
\* lost; and what retention marked DELETED is gone.
FilesSafe ==
    \A f \in Files :
      /\ fileStatus[f] = "CLEAN" =>
           /\ f \in genuine /\ "clean" \in verdicts[f]
           /\ f \in private \cup erased
      /\ fileStatus[f] \in Scannable => f \in quarantine
      /\ fileStatus[f] = "DELETED" => f \notin private

\* A verdict stands: no slow job serves a rejected file or rejects a clean one.
VerdictStands ==
    [][\A f \in Files :
         /\ fileStatus[f] = "REJECTED" => fileStatus'[f] = "REJECTED"
         /\ fileStatus[f] = "CLEAN" => fileStatus'[f] \in {"CLEAN", "DELETED"}
         /\ fileStatus[f] = "DELETED" => fileStatus'[f] = "DELETED"]_fileVars
=============================================================================
