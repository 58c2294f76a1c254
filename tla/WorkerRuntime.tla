---------------------------- MODULE WorkerRuntime ----------------------------
(***************************************************************************)
(* One worker's process, from bootstrap to the end of shutdown: WorkerRuntime *)
(* and main.ts.  The interval timers, the messages on the wake channel and *)
(* the signal that stops it come between any two awaits.  What a poll does *)
(* with an event is Outbox's; here it only takes time and may fail.        *)
(***************************************************************************)
EXTENDS Naturals

CONSTANTS MaxDue,      \* bound on the events waiting at once
          BatchSize    \* WORKER_BATCH_SIZE

ASSUME RuntimeAssumption == MaxDue \in Nat \ {0} /\ BatchSize \in Nat \ {0}

VARIABLES at,          \* the await bootstrap or shutdown is in
          draining, pollAgain, pollHealthy, heartbeatHealthy,
          poll,        \* pollPromise: "none", or the statement or jobs it waits for
          held,        \* events of the batch still to be handled
          beating,     \* heartbeatPromise is set
          timers,      \* the two intervals run
          subscribed,  \* to the wake channel
          row,         \* state of the worker's row in worker_heartbeats
          unsaid,      \* the statement that says DRAINING failed
          waiting,     \* events due that no worker has leased
          called       \* requestPoll was called since the last lease statement was sent

runtimeVars == <<at, draining, pollAgain, pollHealthy, heartbeatHealthy, poll, held, beating,
                 timers, subscribed, row, unsaid, waiting, called>>
flags == <<draining, pollHealthy, heartbeatHealthy>>
polling == <<pollAgain, poll, held, called, waiting>>
channels == <<timers, subscribed>>
heartbeat == <<beating, row, unsaid>>

RuntimeInit ==
    /\ at = "connect"
    /\ draining = FALSE /\ pollAgain = FALSE
    /\ pollHealthy = FALSE /\ heartbeatHealthy = FALSE
    /\ poll = "none" /\ held = 0 /\ beating = FALSE
    /\ timers = FALSE /\ subscribed = FALSE
    /\ row \in {"none", "READY", "DRAINING"}     \* left by an earlier process of the same id
    /\ unsaid = FALSE
    /\ waiting \in 0 .. MaxDue
    /\ called = FALSE

\* The API, another handler, or time.
EventDue ==
    /\ waiting < MaxDue
    /\ waiting' = waiting + 1
    /\ UNCHANGED <<at, flags, pollAgain, poll, held, called, heartbeat, channels>>

-----------------------------------------------------------------------------
(* Polls *)

\* Mutant: a call during a poll relies on the one under way.
RequestPollJoins ==
    IF draining THEN UNCHANGED <<pollAgain, poll, called>>
    ELSE /\ called' = TRUE
         /\ poll' = IF poll = "none" THEN "lease" ELSE poll
         /\ UNCHANGED pollAgain

RequestPoll ==
    IF draining THEN UNCHANGED <<pollAgain, poll, called>>
    ELSE /\ called' = TRUE
         /\ poll' = IF poll = "none" THEN "lease" ELSE poll
         /\ pollAgain' = (pollAgain \/ poll # "none")

\* The interval, or a message on the channel.
Wake ==
    /\ timers \/ subscribed
    /\ RequestPoll
    /\ UNCHANGED <<at, flags, held, waiting, heartbeat, channels>>

\* The finally of requestPoll; start's own first poll ends too.
PollEnds(healthy) ==
    /\ pollHealthy' = healthy
    /\ IF pollAgain /\ ~draining
       THEN poll' = "lease" /\ pollAgain' = FALSE
       ELSE poll' = "none" /\ UNCHANGED pollAgain
    /\ IF at = "firstPoll"
       THEN at' = "listen" /\ timers' = TRUE
       ELSE UNCHANGED <<at, timers>>

\* Other workers may have locked or leased what is due.
Lease ==
    /\ poll = "lease"
    /\ called' = FALSE
    /\ \/ \E n \in 1 .. BatchSize :
            /\ n <= waiting
            /\ waiting' = waiting - n /\ held' = n
            /\ poll' = "jobs"
            /\ UNCHANGED <<at, timers, pollAgain, pollHealthy>>
       \/ PollEnds(TRUE) /\ UNCHANGED <<waiting, held>>
       \/ PollEnds(FALSE) /\ UNCHANGED <<waiting, held>>
    /\ UNCHANGED <<draining, heartbeatHealthy, heartbeat, subscribed>>

\* Published, failed, or neither where the second statement is lost too: the loop goes on.
HandleNext ==
    /\ poll = "jobs" /\ held > 0
    /\ held' = held - 1
    /\ IF held' = 0 THEN PollEnds(TRUE)
                    ELSE UNCHANGED <<at, timers, poll, pollAgain, pollHealthy>>
    /\ UNCHANGED <<draining, heartbeatHealthy, waiting, called, heartbeat, subscribed>>

-----------------------------------------------------------------------------
(* Heartbeats *)

\* A statement that may fail before or after it has written.
Write(state) == row' \in {row, state}

RequestHeartbeat ==
    /\ timers /\ ~draining /\ ~beating
    /\ beating' = TRUE
    /\ UNCHANGED <<at, flags, polling, channels, row, unsaid>>

Beat ==
    /\ beating
    /\ beating' = FALSE
    /\ \/ row' = "READY" /\ heartbeatHealthy' = (heartbeatHealthy \/ ~draining)
       \/ Write("READY") /\ heartbeatHealthy' = FALSE
    /\ UNCHANGED <<at, draining, pollHealthy, polling, channels, unsaid>>

-----------------------------------------------------------------------------
(* bootstrap, start *)

\* The database, the topology of providers; nothing has been started if they fail.
Connect ==
    /\ at = "connect"
    /\ at' \in {"firstBeat", "over"}
    /\ UNCHANGED <<flags, polling, heartbeat, channels>>

\* stop, up to its first await.
Stop ==
    /\ draining' = TRUE
    /\ pollHealthy' = FALSE /\ heartbeatHealthy' = FALSE
    /\ timers' = FALSE
    /\ at' = "pollDrains"

FirstBeat ==
    /\ at = "firstBeat"
    /\ \/ /\ row' = "READY" /\ heartbeatHealthy' = TRUE /\ at' = "redis"
          /\ UNCHANGED <<draining, pollHealthy, timers>>
       \/ Write("READY") /\ Stop
    /\ UNCHANGED <<polling, beating, unsaid, subscribed>>

\* Redis or not; a message may come before start has gone on.
RedisStarts ==
    /\ at = "redis"
    /\ at' = "redisDone"
    /\ subscribed' \in BOOLEAN
    /\ UNCHANGED <<flags, polling, heartbeat, timers>>

FirstPoll ==
    /\ at = "redisDone"
    /\ at' = "firstPoll"
    /\ RequestPoll
    /\ UNCHANGED <<flags, held, waiting, heartbeat, channels>>

\* The health server; if its port is taken, bootstrap cleans up.
Listen ==
    /\ at = "listen"
    /\ \/ at' = "up" /\ UNCHANGED <<flags, timers>>
       \/ Stop
    /\ UNCHANGED <<polling, heartbeat, subscribed>>

\* SIGINT or SIGTERM; a second one changes nothing.
Signal ==
    /\ at = "up"
    /\ Stop
    /\ UNCHANGED <<polling, heartbeat, subscribed>>

-----------------------------------------------------------------------------
(* stop, and what bootstrap and shutdown clean up after it *)

Await(stage, done, next) ==
    /\ at = stage /\ done
    /\ at' = next
    /\ UNCHANGED <<flags, polling, heartbeat, channels>>

\* Mutant: the heartbeat under way is not waited for.
BeatDrainedAlways == TRUE

BeatDrained == ~beating

SayDraining ==
    /\ at = "say"
    /\ at' = "redisCloses"
    /\ \/ row' = "DRAINING" /\ UNCHANGED unsaid
       \/ Write("DRAINING") /\ unsaid' = TRUE
    /\ UNCHANGED <<flags, polling, beating, channels>>

RedisCloses ==
    /\ at = "redisCloses"
    /\ at' = "serverCloses"
    /\ subscribed' = FALSE
    /\ UNCHANGED <<flags, polling, heartbeat, timers>>

\* Each is attempted whether or not the one before failed.
Drain ==
    \/ Await("pollDrains", poll = "none", "beatDrains")
    \/ Await("beatDrains", BeatDrained, "say")
    \/ SayDraining \/ RedisCloses
    \/ Await("serverCloses", TRUE, "disconnects")
    \/ Await("disconnects", TRUE, "over")

Bootstrap == Connect \/ FirstBeat \/ RedisStarts \/ FirstPoll \/ Listen

RuntimeNext ==
    \/ EventDue \/ Wake \/ Lease \/ HandleNext \/ RequestHeartbeat \/ Beat
    \/ Bootstrap \/ Signal \/ Drain

\* Statements, provider calls and connections end, in an answer or a failure.  No timer, no
\* message and no signal is counted on.
RuntimeFairness ==
    /\ WF_runtimeVars(Lease) /\ WF_runtimeVars(HandleNext) /\ WF_runtimeVars(Beat)
    /\ WF_runtimeVars(Bootstrap) /\ WF_runtimeVars(Drain)

RuntimeSpec == RuntimeInit /\ [][RuntimeNext]_runtimeVars /\ RuntimeFairness

-----------------------------------------------------------------------------
\* isHealthy, which /health/ready and /metrics report.
isHealthy == heartbeatHealthy /\ pollHealthy /\ ~draining

\* The worker has no event in hand, no statement on its way and nothing that could start one,
\* and its row does not say READY any more unless the database would not take it.
AtRest ==
    /\ poll = "none" /\ held = 0 /\ ~beating
    /\ ~timers /\ ~subscribed
    /\ row = "DRAINING" \/ unsaid
    /\ ~isHealthy

\* Once asked to stop, by a signal or a failed start, the worker finishes the batch and the
\* heartbeat under way and is at rest for good (stop, the test "persists DRAINING after an
\* in-flight READY heartbeat completes").
StopComesToRest == draining ~> []AtRest

\* No call for a poll is lost, whenever it comes: a lease statement is sent after it, without
\* any further call, unless the worker stops first.
WakesServed == called ~> (~called \/ draining)
=============================================================================
