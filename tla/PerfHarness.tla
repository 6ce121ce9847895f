----------------------------- MODULE PerfHarness -----------------------------
(***************************************************************************)
(* What a cargo perf campaign owns while it measures service-backed        *)
(* workloads: a Compose topology, a database and a vhost per sample, the   *)
(* processes of the sample, and an HTTP agent that counts their requests.  *)
(*                                                                         *)
(* Each sample clones a template database, creates a vhost, resets the     *)
(* counters, runs a resident process and a command, reads the counters,    *)
(* and releases what it created.  Any step may fail; then the handles of   *)
(* the running processes are dropped, the scope is released, the campaign  *)
(* ends, and when it is dropped the topology is removed, unless it is no   *)
(* longer the one that was started.  A process may fork, hang, ignore a    *)
(* signal, or leave a descendant behind that keeps its output pipes open.  *)
(***************************************************************************)
EXTENDS Integers, FiniteSets

CONSTANTS
    Component,   \* containers, networks and volumes of the topology
    Foreign,     \* whether a resource of another run carries the project name
    Samples,     \* number of samples
    Requests,    \* HTTP requests of one sample's command
    MaxFaults    \* bound: failures, hangs, forks

VARIABLES
    topology,   \* live resources, whether a foreign one is among them, the manifest
    server,     \* databases and vhosts that exist
    tracked,    \* databases and vhosts the harness knows to be its own
    runner,     \* the campaign
    procs,      \* process groups, and the handles that own them
    requests,   \* what the agent's handlers have done with each request
    counted,    \* the agent's request counter
    measured,   \* requests measured of each sample
    faults

harnessVars == <<topology, server, tracked, runner, procs, requests, counted, measured, faults>>

Sample == 1 .. Samples
Proc == {"resident", "command"}
Template == 0
NoGroup == [leader |-> "none", child |-> "none", handle |-> "none", failed |-> FALSE]
(* A handle that is gone; what it left running runs on.                    *)
Closed(g) == [NoGroup EXCEPT !.child = g.child]
Fault == faults < MaxFaults /\ faults' = faults + 1
Go(pc) == runner' = [runner EXCEPT !.pc = pc]
Fail(pc) == runner' = [runner EXCEPT !.pc = pc, !.error = TRUE]

-----------------------------------------------------------------------------
(* The topology.                                                           *)
World == <<server, tracked, procs, requests, counted, measured>>

(* Compose may create part of the topology and fail; then, and when the    *)
(* initialization that follows fails, what exists is rolled back.          *)
ComposeUp ==
    /\ runner.pc = "start"
    /\ \/ topology' = [topology EXCEPT !.live = Component] /\ Go("initialize") /\ UNCHANGED faults
       \/ /\ Fault /\ Fail("rollback")
          /\ \E part \in SUBSET Component : topology' = [topology EXCEPT !.live = part]
    /\ UNCHANGED World

(* Labels are inspected one resource at a time; the inventory must be the  *)
(* exact topology.  The template database is prepared with it.             *)
VerifiedLabels == ~topology.foreign

Initialize ==
    /\ runner.pc = "initialize"
    /\ \/ /\ VerifiedLabels
          /\ topology' = [topology EXCEPT !.manifest = topology.live]
          /\ server' = [server EXCEPT !.dbs = @ \union {Template}]
          /\ tracked' = [tracked EXCEPT !.dbs = @ \union {Template}]
          /\ Go("clone") /\ UNCHANGED faults
       \/ /\ ~VerifiedLabels /\ Fail("rollback") /\ UNCHANGED <<topology, server, tracked, faults>>
       \/ /\ Fault /\ Fail("rollback") /\ UNCHANGED <<topology, server, tracked>>
    /\ UNCHANGED <<procs, requests, counted, measured>>

(* docker compose down takes every resource of the project with it.        *)
Down ==
    /\ topology' = [topology EXCEPT !.live = {}, !.foreign = FALSE]
    /\ server' = [dbs |-> {}, vhosts |-> {}]

Rollback ==
    /\ runner.pc = "rollback"
    /\ Go("ended")
    /\ \/ VerifiedLabels /\ Down /\ UNCHANGED faults
       \/ ~VerifiedLabels /\ UNCHANGED <<topology, server, faults>>
       \/ Fault /\ UNCHANGED <<topology, server>>
    /\ UNCHANGED <<tracked, procs, requests, counted, measured>>

(* Someone removes a resource of the running topology.                     *)
Vanish(x) ==
    /\ runner.pc \notin {"start", "initialize", "rollback", "ended"} /\ x \in topology.live /\ Fault
    /\ topology' = [topology EXCEPT !.live = @ \ {x}]
    /\ UNCHANGED <<server, tracked, runner, procs, requests, counted, measured>>

-----------------------------------------------------------------------------
(* A sample's scope.                                                       *)
CloneDatabase ==
    /\ runner.pc = "clone"
    /\ \/ /\ server' = [server EXCEPT !.dbs = @ \union {runner.sample}]
          /\ tracked' = [tracked EXCEPT !.dbs = @ \union {runner.sample}]
          /\ Go("scope") /\ UNCHANGED faults
       \/ /\ Fault /\ Fail("close") /\ UNCHANGED tracked
          /\ \/ UNCHANGED server
             \/ server' = [server EXCEPT !.dbs = @ \union {runner.sample}]
    /\ UNCHANGED <<topology, procs, requests, counted, measured>>

(* A vhost is tracked once its permissions are set.                        *)
CreateSampleScope ==
    /\ runner.pc = "scope"
    /\ server' = [server EXCEPT !.vhosts = @ \union {runner.sample}]
    /\ \/ tracked' = [tracked EXCEPT !.vhosts = @ \union {runner.sample}]
          /\ Go("begin") /\ UNCHANGED faults
       \/ Fault /\ Fail("close") /\ UNCHANGED tracked
    /\ UNCHANGED <<topology, procs, requests, counted, measured>>

Active == {r \in DOMAIN requests : requests[r] \in {"active", "counted", "answered"}}

(* DeterministicAgent::reset refuses while a handler runs.                 *)
BeginMeasurement ==
    /\ runner.pc = "begin"
    /\ IF Active = {} THEN counted' = 0 /\ Go("spawn")
       ELSE Fail("unwind") /\ UNCHANGED counted
    /\ UNCHANGED <<topology, server, tracked, procs, requests, measured, faults>>

Spawned == [NoGroup EXCEPT !.leader = "running", !.handle = "held"]

SpawnResident ==
    /\ runner.pc = "spawn"
    /\ procs' = [procs EXCEPT !["resident"] = Spawned]
    /\ Go("invoke")
    /\ UNCHANGED <<topology, server, tracked, requests, counted, measured, faults>>

Invoke ==
    /\ runner.pc = "invoke"
    /\ procs' = [procs EXCEPT !["command"] = [Spawned EXCEPT !.handle = "wait"]]
    /\ Go("waiting")
    /\ UNCHANGED <<topology, server, tracked, requests, counted, measured, faults>>

(* The outcome of the command, and whether the resident still ran.         *)
Inspect ==
    /\ runner.pc = "waiting" /\ procs["command"].handle = "done"
    /\ LET sound == ~procs["command"].failed /\ procs["resident"].leader = "running" IN
       /\ procs' = [procs EXCEPT !["command"] = Closed(@),
                                 !["resident"].handle = IF sound THEN "stop" ELSE @]
       /\ IF sound THEN Go("stopping") ELSE Fail("unwind")
    /\ UNCHANGED <<topology, server, tracked, requests, counted, measured, faults>>

(* finish_measurement, after the resident has been stopped.                *)
FinishMeasurement ==
    /\ runner.pc = "stopping" /\ procs["resident"].handle = "done"
    /\ procs' = [procs EXCEPT !["resident"] = Closed(@)]
    /\ \/ measured' = [measured EXCEPT ![runner.sample] = counted] /\ Go("release") /\ UNCHANGED faults
       \/ Fault /\ Fail("release") /\ UNCHANGED measured
    /\ UNCHANGED <<topology, server, tracked, requests, counted>>

(* An error of a driver returns, and the handles it held are dropped.      *)
Unwind ==
    /\ runner.pc = "unwind"
    /\ procs' = [p \in Proc |-> IF procs[p].handle = "held"
                                THEN [procs[p] EXCEPT !.handle = "terminate"] ELSE procs[p]]
    /\ Go("dropping")
    /\ UNCHANGED <<topology, server, tracked, requests, counted, measured, faults>>

Dropped ==
    /\ runner.pc = "dropping" /\ \A p \in Proc : procs[p].handle \in {"none", "done"}
    /\ procs' = [p \in Proc |-> Closed(procs[p])]
    /\ Go("release")
    /\ UNCHANGED <<topology, server, tracked, requests, counted, measured, faults>>

(* release_scope: the vhost, then the database; a failure leaves what it   *)
(* could not remove tracked.                                               *)
Remove(vhosts, dbs) ==
    /\ server' = [dbs |-> server.dbs \ dbs, vhosts |-> server.vhosts \ vhosts]
    /\ tracked' = [dbs |-> tracked.dbs \ dbs, vhosts |-> tracked.vhosts \ vhosts]

ReleaseScope ==
    LET next == IF runner.error \/ runner.sample = Samples THEN "close" ELSE "clone" IN
    /\ runner.pc = "release"
    /\ \/ /\ Remove({runner.sample}, {runner.sample})
          /\ runner' = [runner EXCEPT !.pc = next, !.sample = IF next = "clone" THEN @ + 1 ELSE @]
          /\ UNCHANGED faults
       \/ Fault /\ Fail("close") /\ (Remove({}, {}) \/ Remove({runner.sample}, {}))
    /\ UNCHANGED <<topology, procs, requests, counted, measured>>

(* The report is written and the exit code decided.  Then the runner and   *)
(* its harness are dropped: the template, every tracked vhost and database,*)
(* then the topology if it is still the one of the manifest.  A failure of *)
(* either part is printed, stops nothing and changes no outcome.           *)
CleanupInventory == VerifiedLabels /\ topology.live = topology.manifest

Stop ==
    /\ runner.pc = "close" /\ Go("ended")
    /\ tracked' = [dbs |-> {}, vhosts |-> {}]
    /\ \E scoped, removed \in BOOLEAN :
        /\ IF removed THEN CleanupInventory /\ Down
           ELSE /\ UNCHANGED topology
                /\ server' = IF scoped THEN [dbs |-> server.dbs \ tracked.dbs,
                                             vhosts |-> server.vhosts \ tracked.vhosts]
                             ELSE server
        /\ IF scoped /\ (removed \/ ~CleanupInventory) THEN UNCHANGED faults ELSE Fault
    /\ UNCHANGED <<procs, requests, counted, measured>>

-----------------------------------------------------------------------------
(* The processes.  A leader exits, forks a descendant into its group, or   *)
(* hangs; a descendant keeps the leader's pipes or has closed them.        *)
Rest == <<topology, server, tracked, runner, requests, counted, measured>>
Group(p, group) == procs' = [procs EXCEPT ![p] = group]

Served(s) == \A i \in 1 .. Requests : requests[<<s, i>>] \in {"answered", "done"}

Exit(p) ==
    LET g == procs[p] IN
    /\ g.leader = "running"
    /\ \/ /\ IF p = "command" THEN Served(runner.sample) ELSE g.handle = "stop"
          /\ Group(p, [g EXCEPT !.leader = "zombie"]) /\ UNCHANGED faults
       \/ Fault /\ Group(p, [g EXCEPT !.leader = "zombie", !.failed = TRUE])
    /\ UNCHANGED Rest

Fork(p) ==
    /\ procs[p].leader = "running" /\ procs[p].child = "none" /\ Fault
    /\ \E child \in {"piped", "closed"} : Group(p, [procs[p] EXCEPT !.child = child])
    /\ UNCHANGED Rest

ChildExits(p) ==
    /\ procs[p].child # "none"
    /\ Group(p, [procs[p] EXCEPT !.child = "none"])
    /\ UNCHANGED <<Rest, faults>>

(* RunningProcess::wait and ::stop poll the leader; an exited one is       *)
(* reaped, and finish closes what is left of its group.                    *)
\* mutant: the drains of an exited leader are joined without closing its group
ObserveJoins(p) ==
    /\ procs[p].handle \in {"wait", "stop"} /\ procs[p].leader = "zombie"
    /\ Group(p, [procs[p] EXCEPT !.leader = "reaped", !.handle = "join"])
    /\ UNCHANGED <<Rest, faults>>
Observe(p) ==
    /\ procs[p].handle \in {"wait", "stop"} /\ procs[p].leader = "zombie"
    /\ Group(p, [procs[p] EXCEPT !.leader = "reaped", !.handle = "terminate"])
    /\ UNCHANGED <<Rest, faults>>

(* The watchdog of a command, the grace of a resident.                     *)
TimesOut(p) ==
    /\ procs[p].handle \in {"wait", "stop"} /\ procs[p].leader = "running"
    /\ Group(p, [procs[p] EXCEPT !.handle = "terminate", !.failed = (p = "command")])
    /\ UNCHANGED <<Rest, faults>>

(* SIGKILL to the group, which outlives its leader.                        *)
\* mutant: only the leader is killed
TerminateLeader(p) ==
    /\ procs[p].handle = "terminate"
    /\ Group(p, [procs[p] EXCEPT !.leader = IF @ = "running" THEN "zombie" ELSE @,
                                  !.handle = "reap"])
    /\ UNCHANGED <<Rest, faults>>
Terminate(p) ==
    /\ procs[p].handle = "terminate"
    /\ Group(p, [procs[p] EXCEPT !.leader = IF @ = "running" THEN "zombie" ELSE @,
                                  !.child = "none", !.handle = "reap"])
    /\ UNCHANGED <<Rest, faults>>

Reap(p) ==
    /\ procs[p].handle = "reap"
    /\ Group(p, [procs[p] EXCEPT !.leader = "reaped", !.handle = "join"])
    /\ UNCHANGED <<Rest, faults>>

(* A drain ends when no process holds the other end of its pipe.           *)
Join(p) ==
    /\ procs[p].handle = "join" /\ procs[p].child # "piped"
    /\ Group(p, [procs[p] EXCEPT !.handle = "done"])
    /\ UNCHANGED <<Rest, faults>>

-----------------------------------------------------------------------------
(* The agent.  Each accepted connection has a handler thread.              *)
Requested == <<topology, server, tracked, runner, procs, measured, faults>>
Handler(r, from, to) == requests[r] = from /\ requests' = [requests EXCEPT ![r] = to]

Send(i) ==
    /\ procs["command"].leader = "running"
    /\ \A j \in 1 .. i - 1 : requests[<<runner.sample, j>>] \in {"answered", "done"}
    /\ Handler(<<runner.sample, i>>, "none", "backlog")
    /\ UNCHANGED <<Requested, counted>>

Accept(r) == Handler(r, "backlog", "active") /\ UNCHANGED <<Requested, counted>>

Count(r) ==
    /\ Handler(r, "active", "counted")
    /\ counted' = counted + 1
    /\ UNCHANGED Requested

\* mutant: the answer may leave before the request is counted
AnswerFirst(r) ==
    /\ requests[r] \in {"active", "counted"}
    /\ requests' = [requests EXCEPT ![r] = "answered"]
    /\ UNCHANGED <<Requested, counted>>
Answer(r) == Handler(r, "counted", "answered") /\ UNCHANGED <<Requested, counted>>

Leave(r) == Handler(r, "answered", "done") /\ UNCHANGED <<Requested, counted>>

-----------------------------------------------------------------------------
Init ==
    /\ topology \in [live : {{}}, manifest : {{}}, foreign : Foreign]
    /\ server = [dbs |-> {}, vhosts |-> {}] /\ tracked = server
    /\ runner = [pc |-> "start", sample |-> 1, error |-> FALSE]
    /\ procs = [p \in Proc |-> NoGroup]
    /\ requests = [r \in Sample \X (1 .. Requests) |-> "none"]
    /\ counted = 0 /\ measured = [s \in Sample |-> -1] /\ faults = 0

Campaign ==
    \/ ComposeUp \/ Initialize \/ Rollback \/ CloneDatabase \/ CreateSampleScope
    \/ BeginMeasurement \/ SpawnResident \/ Invoke \/ Inspect \/ FinishMeasurement
    \/ Unwind \/ Dropped \/ ReleaseScope \/ Stop
    \/ \E p \in Proc : Observe(p) \/ TimesOut(p) \/ Terminate(p) \/ Reap(p) \/ Join(p)

Next ==
    \/ Campaign
    \/ \E p \in Proc : Exit(p) \/ Fork(p) \/ ChildExits(p)
    \/ \E i \in 1 .. Requests : Send(i)
    \/ \E r \in DOMAIN requests : Accept(r) \/ Count(r) \/ Answer(r) \/ Leave(r)
    \/ \E x \in Component : Vanish(x)

(* The harness runs on its own threads and polls with deadlines: it is     *)
(* never kept from a step it can take.  Nothing is assumed of the measured *)
(* processes, their descendants or the agent.                              *)
Spec == Init /\ [][Next]_harnessVars /\ WF_harnessVars(Campaign)

-----------------------------------------------------------------------------
(* The fields have their types.                                            *)
TypeOK ==
    /\ topology.live \subseteq Component /\ topology.manifest \subseteq Component
    /\ server.dbs \subseteq 0 .. Samples /\ server.vhosts \subseteq Sample
    /\ tracked.dbs \subseteq server.dbs /\ tracked.vhosts \subseteq server.vhosts
    /\ runner.sample \in Sample /\ counted \in 0 .. Samples * Requests
    /\ \A p \in Proc : procs[p].leader \in {"none", "running", "zombie", "reaped"}
    /\ faults \in 0 .. MaxFaults

(* No process of a sample outlives its scope: while any member of a group  *)
(* the harness spawned still runs, the sample's database is there, and     *)
(* after the campaign has ended none runs at all, whichever step failed    *)
(* and whatever a leader left behind.                                      *)
SampleIsQuiet == \A p \in Proc :
    procs[p].leader = "running" \/ procs[p].child # "none" =>
        runner.sample \in server.dbs /\ runner.pc # "ended"

(* The HTTP count measured of a sample is that sample's own: every request *)
(* its command made is counted, and none that an earlier sample made.      *)
MeasuredIsOwn == \A s \in Sample : measured[s] # -1 => measured[s] = Requests

(* A campaign ends, though commands hang, residents ignore the signal, and *)
(* descendants hold the output pipes open.                                 *)
Ended == runner.pc = "ended"
CampaignEnds == <>Ended

=============================================================================
