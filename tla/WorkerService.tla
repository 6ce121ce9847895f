--------------------------- MODULE WorkerService ---------------------------
(***************************************************************************)
(* The processes that run the system: ServiceRunner (runtime.rs) around    *)
(* the worker's consumer loop (worker/start.rs), the coordinator's ticks   *)
(* (coordinator/start.rs) and the one-shot worker (worker/once.rs), with   *)
(* the broker session they use (mq.rs).  What a task does with its message *)
(* is WorkDelivery's subject: here it ends, or returns an error.           *)
(*                                                                         *)
(* A delivery belongs to the connection it came through.  When that is     *)
(* lost the broker queues the message again while its task runs on, and    *)
(* the task's late acknowledgement goes nowhere.                           *)
(***************************************************************************)
EXTENDS Integers, FiniteSets

CONSTANTS Message,
          Broken,         \* messages whose body is not JSON
          Modes,          \* subset of {"worker", "once", "coordinator"}
          Slot,           \* max_inflight_chunks tasks
          MaxDelay,       \* doublings up to WORKER_MQ_RECONNECT_MAX_DELAY_MS
          StopTime,       \* ServiceRunner::shutdown_timeout
          MaxFaults       \* bound on lost connections, errors and signals

VARIABLES mode,
          queue,     \* message -> where the broker has it
          pc,        \* the service task
          tasks,     \* slot -> the chunk task in it
          delay,     \* reconnect backoff
          fresh,     \* is the connection the one deliveries came through?
          signal,    \* a termination signal was received
          waited,    \* time since then
          exit,      \* how the process ended
          dropped,   \* ghost: messages whose task was aborted
          faults

serviceVars == <<mode, queue, pc, tasks, delay, fresh, signal, waited, exit,
                 dropped, faults>>

NoTask == [msg |-> "none", live |-> FALSE, state |-> "free"]

Init ==
    /\ mode \in Modes
    /\ \E M \in SUBSET Message :
         queue = [m \in Message |-> IF m \in M THEN "ready" ELSE "settled"]
    /\ pc = IF mode = "coordinator" THEN "waiting" ELSE "opening"
    /\ tasks = [s \in Slot |-> NoTask]
    /\ delay = 0
    /\ fresh = FALSE
    /\ signal = FALSE
    /\ waited = 0
    /\ exit = "none"
    /\ dropped = {}
    /\ faults = 0

Running == exit = "none"
Used == {s \in Slot : tasks[s].state # "free"}
Unacked == {m \in Message : queue[m] \in {"buffered", "held"}}
Faulty == faults < MaxFaults /\ faults' = faults + 1
Doubled == IF delay < MaxDelay THEN delay + 1 ELSE delay

\* The connection is gone: what was not acknowledged is queued again, and
\* running tasks hold deliveries nobody remembers.
Requeued == [m \in Message |-> IF m \in Unacked THEN "ready" ELSE queue[m]]
Orphaned == [s \in Slot |-> [tasks[s] EXCEPT !.live = FALSE]]

\* The process ends: its tasks are aborted with the JoinSet, its connection
\* closes.
Exits(how) ==
    /\ exit' = how
    /\ pc' = "ended"
    /\ dropped' = dropped \cup {tasks[s].msg : s \in
                     {t \in Slot : tasks[t].state = "running"}}
    /\ tasks' = [s \in Slot |-> NoTask]
    /\ queue' = Requeued
    /\ fresh' = FALSE
    /\ UNCHANGED <<mode, delay, signal, waited>>

(***************************************************************************)
(* The broker session.                                                     *)
(***************************************************************************)
\* get_or_connect_session, a channel, its topology and its prefetch.
Opened ==
    /\ Running /\ pc = "opening"
    /\ pc' = IF mode = "once" THEN "getting" ELSE "consuming"
    /\ fresh' = TRUE
    /\ UNCHANGED <<mode, queue, tasks, delay, signal, waited, exit, dropped,
                   faults>>

\* The circuit is open or the broker does not answer: the session is
\* invalidated; the loop backs off, the one-shot worker gives up.
OpenFails ==
    /\ Running /\ pc = "opening"
    /\ Faulty
    /\ IF mode = "once" THEN Exits("failed")
       ELSE /\ pc' = "backoff"
            /\ delay' = Doubled
            /\ UNCHANGED <<mode, queue, tasks, fresh, signal, waited, exit,
                           dropped>>

\* The broker pushes up to `prefetch` unacknowledged deliveries.
Deliver(m) ==
    /\ pc = "consuming" /\ fresh
    /\ queue[m] = "ready"
    /\ Cardinality(Unacked) < Cardinality(Slot)
    /\ queue' = [queue EXCEPT ![m] = "buffered"]
    /\ UNCHANGED <<mode, pc, tasks, delay, fresh, signal, waited, exit,
                   dropped, faults>>

\* The connection breaks; the loop learns it from the stream.
Disconnect ==
    /\ Running /\ fresh
    /\ Faulty
    /\ fresh' = FALSE
    /\ queue' = Requeued
    /\ tasks' = Orphaned
    /\ UNCHANGED <<mode, pc, delay, signal, waited, exit, dropped>>

\* The stream ended or failed: invalidate_session, then sleep.
StreamEnds ==
    /\ Running /\ pc = "consuming" /\ ~fresh
    /\ Cardinality(Used) < Cardinality(Slot)
    /\ pc' = "backoff"
    /\ delay' = Doubled
    /\ UNCHANGED <<mode, queue, tasks, fresh, signal, waited, exit, dropped,
                   faults>>

BackoffEnds ==
    /\ Running /\ pc = "backoff"
    /\ pc' = "opening"
    /\ UNCHANGED <<mode, queue, tasks, delay, fresh, signal, waited, exit,
                   dropped, faults>>

(***************************************************************************)
(* Chunk tasks.                                                            *)
(***************************************************************************)
\* A malformed body is quarantined in place; a failed quarantine ends the
\* service.
Quarantine(m) ==
    /\ Running /\ pc = "consuming"
    /\ queue[m] = "buffered" /\ m \in Broken
    /\ Cardinality(Used) < Cardinality(Slot)
    /\ \/ /\ queue' = [queue EXCEPT ![m] = "quarantined"]
          /\ delay' = 0
          /\ UNCHANGED <<mode, pc, tasks, fresh, signal, waited, exit, dropped,
                         faults>>
       \/ Faulty /\ Exits("failed")

(* mutant: a finished task that was not joined yet is replaced *)
FreeAny(s) == tasks[s].state # "running"
Free(s) == tasks[s].state = "free"

Spawn(s, m) ==
    /\ Running /\ pc = "consuming"
    /\ queue[m] = "buffered" /\ m \notin Broken
    /\ Free(s)
    /\ tasks' = [tasks EXCEPT ![s] = [msg |-> m, live |-> TRUE,
                                      state |-> "running"]]
    /\ queue' = [queue EXCEPT ![m] = "held"]
    /\ delay' = 0
    /\ UNCHANGED <<mode, pc, fresh, signal, waited, exit, dropped, faults>>

\* run_worker_message returns: settled if the delivery is still known to
\* the broker (ack() swallows the loss of its channel).
TaskEnds(s) ==
    /\ tasks[s].state = "running"
    /\ tasks' = [tasks EXCEPT ![s].state = "ended"]
    /\ queue' = IF tasks[s].live
                THEN [queue EXCEPT ![tasks[s].msg] = "settled"] ELSE queue
    /\ UNCHANGED <<mode, pc, delay, fresh, signal, waited, exit, dropped,
                   faults>>

TaskErrs(s) ==
    /\ tasks[s].state = "running"
    /\ Faulty
    /\ tasks' = [tasks EXCEPT ![s].state = "erred"]
    /\ UNCHANGED <<mode, queue, pc, delay, fresh, signal, waited, exit,
                   dropped>>

(* mutant: the error of a task is logged and the loop goes on *)
JoinLogging(s) ==
    /\ Running /\ pc \in {"consuming", "draining"}
    /\ tasks[s].state \in {"ended", "erred"}
    /\ tasks' = [tasks EXCEPT ![s] = NoTask]
    /\ UNCHANGED <<mode, queue, pc, delay, fresh, signal, waited, exit,
                   dropped, faults>>

\* join_next: an error ends the service, and its other tasks with it.
Join(s) ==
    /\ Running /\ pc \in {"consuming", "draining"}
    /\ \/ /\ tasks[s].state = "ended"
          /\ tasks' = [tasks EXCEPT ![s] = NoTask]
          /\ UNCHANGED <<mode, queue, pc, delay, fresh, signal, waited, exit,
                         dropped>>
       \/ tasks[s].state = "erred" /\ Exits("failed")
    /\ UNCHANGED faults

(***************************************************************************)
(* The one-shot worker and the coordinator.                                *)
(***************************************************************************)
\* run_worker_drain_pass of one message: nothing there, a body that is no JSON,
\* or a message whose processing run_worker_message shares with the service.
Get(s) ==
    /\ Running /\ pc = "getting" /\ fresh
    /\ IF \E m \in Message : queue[m] = "ready"
       THEN \E m \in Message :
              /\ queue[m] = "ready"
              /\ pc' = "cycle"
              /\ IF m \in Broken
                 THEN /\ queue' = [queue EXCEPT ![m] = "quarantined"]
                      /\ UNCHANGED tasks
                 ELSE /\ queue' = [queue EXCEPT ![m] = "held"]
                      /\ tasks' = [tasks EXCEPT ![s] =
                           [msg |-> m, live |-> TRUE, state |-> "running"]]
       ELSE pc' = "cycle" /\ UNCHANGED <<queue, tasks>>
    /\ UNCHANGED <<mode, delay, fresh, signal, waited, exit, dropped, faults>>

\* The request fails on a connection that broke, and may on another.
GetFails ==
    /\ Running /\ pc = "getting"
    /\ IF fresh THEN Faulty ELSE UNCHANGED faults
    /\ Exits("failed")

CycleDone ==
    /\ Running /\ pc = "cycle"
    /\ \A s \in Slot : tasks[s].state # "running"
    /\ Exits(IF \E s \in Slot : tasks[s].state = "erred"
             THEN "failed" ELSE "ok")
    /\ UNCHANGED faults

\* run_loop with an interval: a tick runs to its end, or ends the service.
Tick ==
    /\ Running /\ pc = "waiting"
    /\ pc' = "ticking"
    /\ UNCHANGED <<mode, queue, tasks, delay, fresh, signal, waited, exit,
                   dropped, faults>>

TickEnds ==
    /\ Running /\ pc = "ticking"
    /\ \/ /\ pc' = "waiting"
          /\ UNCHANGED <<mode, queue, tasks, delay, fresh, signal, waited,
                         exit, dropped, faults>>
       \/ Faulty /\ Exits("failed")

(***************************************************************************)
(* Shutdown.                                                               *)
(***************************************************************************)
\* Ctrl-C or SIGTERM: the token is cancelled.  The one-shot worker has no
\* handler: the signal ends it.
Signal ==
    /\ Running /\ ~signal
    /\ Faulty
    /\ IF mode = "once" THEN Exits("failed")
       ELSE /\ signal' = TRUE
            /\ UNCHANGED <<mode, queue, pc, tasks, delay, fresh, waited, exit,
                           dropped>>

(* mutant: a worker that is reconnecting returns without draining *)
StopsFromLoopOnly == IF pc = "consuming" THEN "draining" ELSE "returned"

\* Where the loop sees the token: waiting for a delivery, or asleep before
\* it reopens the stream.  Both drain first.
StopsFrom == IF pc = "waiting" THEN "returned" ELSE "draining"

Observe ==
    /\ Running /\ signal
    /\ pc \in {"consuming", "backoff", "waiting"}
    /\ pc' = StopsFrom
    /\ UNCHANGED <<mode, queue, tasks, delay, fresh, signal, waited, exit,
                   dropped, faults>>

Drained ==
    /\ Running /\ pc = "draining"
    /\ Used = {}
    /\ pc' = "returned"
    /\ UNCHANGED <<mode, queue, tasks, delay, fresh, signal, waited, exit,
                   dropped, faults>>

Returned ==
    /\ Running /\ pc = "returned"
    /\ Exits("ok")
    /\ UNCHANGED faults

(* mutant: the runner waits for the service without a deadline *)
TimesOutNever == FALSE /\ Exits("failed") /\ UNCHANGED faults

\* wait_for_service_stop: the service task is aborted, and fails.
TimesOut ==
    /\ Running /\ signal
    /\ waited >= StopTime
    /\ Exits("failed")
    /\ UNCHANGED faults

Clock ==
    /\ Running /\ signal
    /\ waited < StopTime
    /\ waited' = waited + 1
    /\ UNCHANGED <<mode, queue, pc, tasks, delay, fresh, signal, exit,
                   dropped, faults>>

\* A supervisor starts the process again; the aborted tasks are history.
Restart ==
    /\ ~Running
    /\ exit # "ok" \/ mode = "once"
    /\ \E m \in Message : queue[m] = "ready"
    /\ exit' = "none"
    /\ pc' = IF mode = "coordinator" THEN "waiting" ELSE "opening"
    /\ delay' = 0 /\ signal' = FALSE /\ waited' = 0 /\ dropped' = {}
    /\ UNCHANGED <<mode, queue, tasks, fresh, faults>>

Next ==
    \/ Opened \/ OpenFails \/ Disconnect \/ StreamEnds \/ BackoffEnds
    \/ \E m \in Message :
         \/ Deliver(m) \/ Quarantine(m)
         \/ \E s \in Slot : Spawn(s, m)
    \/ \E s \in Slot : TaskEnds(s) \/ TaskErrs(s) \/ Join(s) \/ Get(s)
    \/ GetFails \/ CycleDone \/ Tick \/ TickEnds
    \/ Signal \/ Observe \/ Drained \/ Returned \/ TimesOut \/ Clock
    \/ Restart

\* What moves the service on when nothing fails.
Progress ==
    \/ Opened \/ StreamEnds \/ BackoffEnds \/ CycleDone \/ Restart
    \/ (~fresh /\ GetFails)
    \/ \E m \in Message :
         Deliver(m) \/ Quarantine(m) \/ \E s \in Slot : Spawn(s, m)
    \/ \E s \in Slot : TaskEnds(s) \/ Join(s) \/ Get(s)

\* The runtime polls every future, the broker delivers, tasks return and the
\* supervisor restarts what failed; time passes after a signal.
Fairness ==
    /\ WF_serviceVars(Progress)
    /\ WF_serviceVars(Clock \/ TimesOut)

Spec == Init /\ [][Next]_serviceVars /\ Fairness

(***************************************************************************)
(* Properties.                                                             *)
(***************************************************************************)
\* The shapes of the process and of the broker's queue.
TypeOK ==
    /\ queue \in [Message -> {"ready", "buffered", "held", "settled",
                              "quarantined"}]
    /\ pc \in {"opening", "backoff", "consuming", "getting", "cycle",
               "waiting", "ticking", "draining", "returned", "ended"}
    /\ \A s \in Slot : tasks[s].state \in {"free", "running", "ended", "erred"}
    /\ delay \in 0 .. MaxDelay /\ waited \in 0 .. StopTime
    /\ exit \in {"none", "ok", "failed"} /\ dropped \subseteq Message
    /\ faults \in 0 .. MaxFaults

\* A process that reports a clean stop aborted no chunk task, wherever in
\* its loop the signal found it: reconnecting, asleep or full.
CleanStopDrops ==
    exit = "ok" => (dropped = {} /\ (signal \/ mode = "once"))

\* The broker never counts more deliveries as taken than there are slots,
\* and never holds for a task that is gone.
HeldHasTask ==
    \A m \in Message : queue[m] = "held" =>
        \E s \in Slot : tasks[s].msg = m /\ tasks[s].live
                        /\ tasks[s].state \in {"running", "erred"}

\* After a signal the process ends, whatever its tasks and the broker do.
Stopped == exit # "none"
Signalled == signal
SignalStops == Signalled ~> Stopped

\* Every message is settled or quarantined in the end unless the service was
\* told to stop: across lost connections, failed tasks and restarts.
Settled(m) ==
    \/ queue[m] \in {"settled", "quarantined"}
    \/ exit = "ok" /\ mode # "once"
    \/ mode = "coordinator"
EveryMessageSettles == \A m \in Message : <>Settled(m)
=============================================================================
