----------------------------- MODULE MCClients -----------------------------
(* Finite instances of SessionRotation: under arbitrary clients, and under  *)
(* the resident app and the administration web; and of the worker's         *)
(* process, which is started and stopped like them.  Init chooses the part  *)
(* and only its variables move.                                             *)
EXTENDS AdminTabs, ResidentSession, WorkerRuntime

VARIABLE part

appState == <<app, appLate, bounds>>
webState == <<browser, tabs, webLate, webRefusals>>
clientsVars == <<part, server, appState, webState, runtimeVars>>

\* Of the worker while it is idle any initial state will do.
ClientsInit ==
    /\ part \in {"family", "app", "web", "worker"}
    /\ ResidentInit /\ AdminInit /\ RuntimeInit
    /\ part # "worker" => row = "none" /\ waiting = 0

ClientsNext ==
    /\ \/ part = "family" /\ Next /\ UNCHANGED <<appState, webState, runtimeVars>>
       \/ part = "app" /\ ResidentNext /\ UNCHANGED <<webState, runtimeVars>>
       \/ part = "web" /\ AdminNext /\ UNCHANGED <<appState, runtimeVars>>
       \/ part = "worker" /\ RuntimeNext /\ UNCHANGED <<server, appState, webState>>
    /\ UNCHANGED part

\* What ResidentSession assumes of the app's timer and awaits, WorkerRuntime of its own.
ByApp(A) == part = "app" /\ A /\ UNCHANGED <<part, webState, runtimeVars>>
ByWorker(A) == part = "worker" /\ A /\ UNCHANGED <<part, server, appState, webState>>
ClientsFairness ==
    /\ \A a \in Attempts : WF_clientsVars(ByApp(BootTimer(a))) /\ WF_clientsVars(ByApp(Runs(a)))
    /\ WF_clientsVars(ByWorker(Lease)) /\ WF_clientsVars(ByWorker(HandleNext))
    /\ WF_clientsVars(ByWorker(Beat))
    /\ WF_clientsVars(ByWorker(Bootstrap)) /\ WF_clientsVars(ByWorker(Drain))

ClientsSpec == ClientsInit /\ [][ClientsNext]_clientsVars /\ ClientsFairness
=============================================================================
