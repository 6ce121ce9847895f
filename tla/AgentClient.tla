---------------------------- MODULE AgentClient ----------------------------
(***************************************************************************)
(* A worker's calls to the agent under test (agent_client.rs, failure.rs,  *)
(* limits.rs) and the retries the database schedules from their failures   *)
(* (execution_processing.rs, queries/transitions.rs).                      *)
(*                                                                         *)
(* Times are seconds that remain by the database clock, so no absolute     *)
(* clock is needed; the worker's clock runs `skew` seconds ahead of it.    *)
(* The server's dates are taken to agree with the database clock.  A body  *)
(* is the sequence of the sizes of its chunks, and what it decodes to.     *)
(***************************************************************************)
EXTENDS Integers, Sequences, FiniteSets, FiniteSetsExt

CONSTANTS Execution,
          Profiles,      \* the run profiles to explore
          Inputs,        \* the cases' inputs: [shape, size]
          Replies,       \* the answers the server can give
          Envelope,      \* bytes the vigilo_case envelope adds to an input
          Ceiling,       \* worker ceilings: [request, response]
          DefaultAfter,  \* failure::DEFAULT_MAX_RETRY_AFTER_SECS
          LimitAfter,    \* failure::MAX_RETRY_AFTER_SECS
          Base, Cap,     \* EXECUTION_RETRY_BASE_SECONDS, ..._MAX_SECONDS
          Skews,         \* how far ahead the worker's clock may be
          Parallelism,   \* CASE_EXECUTION_PARALLELISM
          MaxFaults      \* bound on worker crashes

VARIABLES profile, input, skew,
          execs,    \* execution rows
          calls,    \* the worker's call for each execution of its batch
          advice,   \* ghost: what the last answered server asked for
          faults

agentVars == <<profile, input, skew, execs, calls, advice, faults>>

Unset == -1

ExecutionRow == [status |-> "pending", attemptNo |-> 0, retryAfter |-> 0]

NoFailure == [kind |-> "none", retryable |-> TRUE, notBefore |-> Unset,
              delay |-> Unset]

NoCall == [pc |-> "none", age |-> 0, http |-> 0, rest |-> <<>>, bytes |-> 0,
           body |-> "none", failure |-> NoFailure, ok |-> FALSE]

NoAdvice == [wait |-> 0, terminal |-> FALSE]

Init ==
    /\ profile \in Profiles
    /\ input \in [Execution -> Inputs]
    /\ skew \in Skews
    /\ execs = [e \in Execution |-> ExecutionRow]
    /\ calls = [e \in Execution |-> NoCall]
    /\ advice = [e \in Execution |-> NoAdvice]
    /\ faults = 0

Fixed == UNCHANGED <<profile, input, skew>>
At(e, pc) == calls[e].pc = pc

(***************************************************************************)
(* Failures and their classification.                                      *)
(***************************************************************************)
Terminal(kind) == [NoFailure EXCEPT !.kind = kind, !.retryable = FALSE]

\* reqwest's error classes: a timeout, a request that cannot be built or a
\* redirect that is refused, anything else.
Transport(class) ==
    CASE class = "timeout" -> [NoFailure EXCEPT !.kind = "timeout"]
      [] class = "builder" -> Terminal("configuration")
      [] OTHER -> [NoFailure EXCEPT !.kind = "transport"]

StatusKind(status) ==
    CASE status \in {401, 403} -> "authentication"
      [] status = 429 -> "rate_limited"
      [] OTHER -> "http_status"

RetryableStatus == {408, 425, 429, 500, 502, 503, 504}

\* not_before: the seconds from the worker's now, Unset for advice that
\* cannot be read, and `horizon + 1` for advice beyond the horizon.
NotBefore(after, horizon) ==
    LET wait == IF after.form = "delta" THEN after.secs
                ELSE Max({after.secs - skew, 0})
    IN  IF after.form \notin {"delta", "date"} THEN Unset
        ELSE Min({wait, horizon + 1})

(* mutant: only delta-seconds are held to the horizon *)
HttpUncappedDate(reply, horizon) ==
    LET wait == IF reply.after.form = "date"
                THEN Max({reply.after.secs - skew, 0})
                ELSE NotBefore(reply.after, horizon)
        fail == [NoFailure EXCEPT !.kind = StatusKind(reply.status),
                   !.retryable = reply.status \in RetryableStatus]
    IN  IF ~fail.retryable \/ wait = Unset THEN fail
        ELSE IF reply.after.form = "delta" /\ wait > horizon
        THEN Terminal("retry_delay_exceeded")
        ELSE [fail EXCEPT !.notBefore = Max({wait + skew, 0}),
                          !.delay = IF reply.after.form = "delta"
                                    THEN reply.after.secs ELSE Unset]

(* mutant: delta-seconds advice only counts on the worker's clock *)
HttpWorkerClock(reply, horizon) ==
    LET wait == NotBefore(reply.after, horizon)
        fail == [NoFailure EXCEPT !.kind = StatusKind(reply.status),
                   !.retryable = reply.status \in RetryableStatus]
    IN  IF ~fail.retryable \/ wait = Unset THEN fail
        ELSE IF wait > horizon THEN Terminal("retry_delay_exceeded")
        ELSE [fail EXCEPT !.notBefore = Max({wait + skew, 0})]

\* Failure::http: the absolute time is the worker's now plus the wait;
\* delta-seconds are kept too, for the database to apply to its own now.
Http(reply, horizon) ==
    LET wait == NotBefore(reply.after, horizon)
        fail == [NoFailure EXCEPT !.kind = StatusKind(reply.status),
                   !.retryable = reply.status \in RetryableStatus]
    IN  IF ~fail.retryable \/ wait = Unset THEN fail
        ELSE IF wait > horizon THEN Terminal("retry_delay_exceeded")
        ELSE [fail EXCEPT !.notBefore = Max({wait + skew, 0}),
                          !.delay = IF reply.after.form = "delta"
                                    THEN reply.after.secs ELSE Unset]

Succeeds(status) == status \in 200 .. 299

(***************************************************************************)
(* Configuration, request body and limits.                                 *)
(***************************************************************************)
\* Limits::resolve for one bound: the profile's, no larger than the
\* worker's; the worker's when the profile sets none.
Limit(requested, ceiling) == IF requested = Unset THEN ceiling ELSE requested
ValidLimit(requested, ceiling) == Limit(requested, ceiling) \in 1 .. ceiling

LimitsOk ==
    /\ ValidLimit(profile.maxRequest, Ceiling.request)
    /\ ValidLimit(profile.maxResponse, Ceiling.response)

Horizon == Limit(profile.maxAfter, DefaultAfter)
Timeout == Limit(profile.timeout, profile.defaultTimeout)

\* AgentRequestFormat::from_profile.
KnownFormat == profile.format \in {"vigilo_case", "chat"}

\* The chat adapter needs string contents in input.messages, and a numeric
\* temperature when there is one.
ChatBuilds(e) ==
    /\ input[e].shape # "bad_messages"
    /\ profile.temperature # "text"

BodyBuilds(e) == KnownFormat /\ (profile.format = "chat" => ChatBuilds(e))

RequestBytes(e) ==
    IF profile.format = "vigilo_case" THEN input[e].size + Envelope
    ELSE input[e].size

\* What invoke refuses before it sends anything.
Refusal(e) ==
    CASE ~LimitsOk -> "configuration"
      [] Horizon \notin 1 .. LimitAfter -> "configuration"
      [] Timeout = 0 -> "configuration"
      [] profile.method = "bad" -> "configuration"
      [] ~BodyBuilds(e) -> "configuration"
      [] RequestBytes(e) > Limit(profile.maxRequest, Ceiling.request) ->
           "body_limit"
      [] OTHER -> "none"

(***************************************************************************)
(* Response bodies.                                                        *)
(***************************************************************************)
\* Body::append takes a whole chunk or none of it.
(* mutant: the limit is checked against what is already kept *)
FitsBefore(e) ==
    calls[e].bytes <= Limit(profile.maxResponse, Ceiling.response)
Fits(e) ==
    calls[e].bytes + Head(calls[e].rest)
        <= Limit(profile.maxResponse, Ceiling.response)

\* parse_response_body: text that looks like JSON must be JSON; an empty
\* body is {}, any other text is {"text": body}.
Parses(body) == body # "broken_json"

\* output_from_response_json: actual, output or the whole value is a string
\* or an AgentOutput envelope.
IsOutput(body) == body # "other_json"

\* The text evaluators get: a string's own, the envelope's, or the first
\* one that is not blank at the places extract_agent_response_text knows.
OutputText(body) ==
    CASE body \in {"plain", "string", "envelope_text", "chat_choice"} -> "text"
      [] body = "blank_text" -> "blank"
      [] OTHER -> "none"

(***************************************************************************)
(* One batch of a chunk's cases.                                           *)
(***************************************************************************)
InFlight == {e \in Execution : calls[e].pc \in {"sending", "reading"}}
Batch == {e \in Execution : ~At(e, "none")}

(* mutant: an attempt left running is never taken over *)
DueNotRunning(e) ==
    \/ execs[e].status = "pending"
    \/ execs[e].status = "retry_scheduled" /\ execs[e].retryAfter = 0

\* Eligible for an attempt: new, due, or left running by a worker that died.
Due(e) ==
    \/ execs[e].status = "pending"
    \/ execs[e].status = "retry_scheduled" /\ execs[e].retryAfter = 0
    \/ execs[e].status = "running"

\* Claim the chunk and allocate attempts for its due cases; a case out of
\* attempts ends as a failure that needs no lease.
Allocate ==
    LET due == {e \in Execution : Due(e)}
        exhausted == {e \in due : execs[e].attemptNo >= profile.maxAttempts}
    IN  /\ Batch = {}
        /\ due # {}
        /\ execs' = [e \in Execution |->
             IF e \in due \ exhausted
             THEN [status |-> "running", retryAfter |-> 0,
                   attemptNo |-> execs[e].attemptNo + 1]
             ELSE execs[e]]
        /\ calls' = [e \in Execution |->
             CASE e \in exhausted ->
                    [NoCall EXCEPT !.pc = "done",
                       !.failure = Terminal("exhausted")]
               [] e \in due \ exhausted -> [NoCall EXCEPT !.pc = "ready"]
               [] OTHER -> NoCall]
        /\ UNCHANGED <<advice, faults>> /\ Fixed

Ends(e, failure) ==
    calls' = [calls EXCEPT ![e] = [NoCall EXCEPT !.pc = "done",
                                     !.failure = failure]]

\* invoke up to the request: refused, or sent with the timeout running.
Send(e) ==
    /\ At(e, "ready")
    /\ Cardinality(InFlight) < Parallelism
    /\ IF Refusal(e) # "none" THEN Ends(e, Terminal(Refusal(e)))
       ELSE calls' = [calls EXCEPT ![e].pc = "sending"]
    /\ UNCHANGED <<execs, advice, faults>> /\ Fixed

SendFails(e) ==
    /\ At(e, "sending")
    /\ \E class \in {"builder", "connect"} : Ends(e, Transport(class))
    /\ UNCHANGED <<execs, advice, faults>> /\ Fixed

\* The status and the headers arrive: the advice counts from here.
Respond(e) ==
    /\ At(e, "sending")
    /\ \E r \in Replies :
         LET fail == IF Succeeds(r.status) THEN NoFailure ELSE Http(r, Horizon)
         IN  /\ calls' = [calls EXCEPT ![e].pc = "reading", ![e].http = r.status,
                            ![e].rest = r.chunks, ![e].body = r.body,
                            ![e].failure = fail]
             /\ advice' = [advice EXCEPT ![e] =
                  [wait |-> IF r.status \in RetryableStatus
                               /\ r.after.form \in {"delta", "date"}
                            THEN Max({r.after.secs, 0}) ELSE 0,
                   terminal |-> ~Succeeds(r.status)
                                /\ r.status \notin RetryableStatus]]
    /\ UNCHANGED <<execs, faults>> /\ Fixed

\* Too large a body is terminal, whatever the status said.
ReadChunk(e) ==
    /\ At(e, "reading")
    /\ calls[e].rest # <<>>
    /\ IF Fits(e)
       THEN calls' = [calls EXCEPT ![e].bytes = @ + Head(calls[e].rest),
                                   ![e].rest = Tail(@)]
       ELSE Ends(e, Terminal("body_limit"))
    /\ UNCHANGED <<execs, advice, faults>> /\ Fixed

(* mutant: a body that breaks off hides the status it came with *)
ReadFailureTransport(e) == Transport("connect")

\* A body that breaks off: the status decides unless it was a success.
ReadFailure(e) ==
    IF Succeeds(calls[e].http) THEN Transport("connect") ELSE calls[e].failure

ReadFails(e) ==
    /\ At(e, "reading")
    /\ Ends(e, ReadFailure(e))
    /\ UNCHANGED <<execs, advice, faults>> /\ Fixed

\* The request's timeout covers the body too.
TimesOut(e) ==
    /\ e \in InFlight
    /\ calls[e].age >= Timeout
    /\ Ends(e, IF At(e, "reading") /\ ~Succeeds(calls[e].http)
               THEN calls[e].failure ELSE Transport("timeout"))
    /\ UNCHANGED <<execs, advice, faults>> /\ Fixed

\* The whole body is read: a failure by its status, an answer that cannot
\* be used, or an output for the evaluators.
Finish(e) ==
    /\ At(e, "reading")
    /\ calls[e].rest = <<>>
    /\ IF ~Succeeds(calls[e].http) THEN Ends(e, calls[e].failure)
       ELSE IF ~Parses(calls[e].body) \/ ~IsOutput(calls[e].body)
       THEN Ends(e, Terminal("invalid_response"))
       ELSE calls' = [calls EXCEPT ![e] = [NoCall EXCEPT !.pc = "done",
                        !.ok = TRUE, !.body = OutputText(calls[e].body)]]
    /\ UNCHANGED <<execs, advice, faults>> /\ Fixed

(***************************************************************************)
(* Persistence of a batch's outcomes.                                      *)
(***************************************************************************)
Power3(n) == CASE n = 0 -> 1 [] n = 1 -> 3 [] n = 2 -> 9
               [] n = 3 -> 27 [] n = 4 -> 81 [] OTHER -> 243

\* Exponential backoff from the base, capped before and after the jitter
\* that agent failures get.
Backoff(n, jitter) ==
    Min({Cap, Min({Base * Power3(Min({n - 1, 5})), Cap}) + jitter})

\* GREATEST ignores what is NULL.
RetryAfter(e, jitter) ==
    Max({Backoff(execs[e].attemptNo, jitter),
         calls[e].failure.notBefore, calls[e].failure.delay})

Retries(e) ==
    /\ ~calls[e].ok
    /\ calls[e].failure.retryable
    /\ execs[e].attemptNo < profile.maxAttempts

\* One statement moves every attempt of the batch to its next state.
Persist ==
    /\ Batch # {}
    /\ \A e \in Batch : At(e, "done")
    /\ \E jitter \in {0, 1} :
         execs' = [e \in Execution |->
           IF e \notin Batch THEN execs[e]
           ELSE IF Retries(e)
           THEN [execs[e] EXCEPT !.status = "retry_scheduled",
                                 !.retryAfter = RetryAfter(e, jitter)]
           ELSE [execs[e] EXCEPT
                   !.status = IF calls[e].ok THEN "completed" ELSE "failed"]]
    /\ calls' = [e \in Execution |-> NoCall]
    /\ UNCHANGED <<advice, faults>> /\ Fixed

\* The worker dies: its attempts stay running until their leases expire,
\* and what the server told it is lost with it.
Crash ==
    /\ Batch # {}
    /\ faults < MaxFaults
    /\ faults' = faults + 1
    /\ calls' = [e \in Execution |-> NoCall]
    /\ advice' = [e \in Execution |->
                    IF e \in Batch THEN NoAdvice ELSE advice[e]]
    /\ UNCHANGED execs /\ Fixed

Down(n) == IF n > 0 THEN n - 1 ELSE n

\* A second passes; nobody waits for more than a timeout or a retry.
Tick ==
    /\ \/ \E e \in InFlight : calls[e].age < Timeout
       \/ \E e \in Batch : calls[e].failure.notBefore > 0
       \/ \E e \in Execution : execs[e].retryAfter > 0
       \/ \E e \in Execution : advice[e].wait > 0
    /\ execs' = [e \in Execution |->
                   [execs[e] EXCEPT !.retryAfter = Down(@)]]
    /\ calls' = [e \in Execution |->
                   [calls[e] EXCEPT
                      !.age = IF e \in InFlight /\ @ < Timeout
                              THEN @ + 1 ELSE @,
                      !.failure.notBefore = Down(@)]]
    /\ advice' = [e \in Execution |-> [advice[e] EXCEPT !.wait = Down(@)]]
    /\ UNCHANGED faults /\ Fixed

Next ==
    \/ Allocate
    \/ \E e \in Execution :
         \/ Send(e) \/ SendFails(e) \/ Respond(e)
         \/ ReadChunk(e) \/ ReadFails(e) \/ TimesOut(e) \/ Finish(e)
    \/ Persist
    \/ Crash
    \/ Tick

\* Workers poll, tasks run, timers fire and time passes.
Fairness ==
    /\ WF_agentVars(Allocate)
    /\ WF_agentVars(Persist)
    /\ \A e \in Execution :
         WF_agentVars(Send(e)) /\ WF_agentVars(TimesOut(e))
    /\ WF_agentVars(Tick)

Spec == Init /\ [][Next]_agentVars /\ Fairness

(***************************************************************************)
(* Properties.                                                             *)
(***************************************************************************)
\* The shapes of the rows and calls; attempts never exceed the profile's.
TypeOK ==
    /\ \A e \in Execution :
         /\ execs[e].status \in {"pending", "running", "retry_scheduled",
                                 "completed", "failed"}
         /\ execs[e].attemptNo \in 0 .. Max({profile.maxAttempts, 0})
         /\ execs[e].retryAfter \in Nat
         /\ calls[e].pc \in {"none", "ready", "sending", "reading", "done"}
         /\ advice[e].wait \in Nat
    /\ faults \in 0 .. MaxFaults

\* A server that answered 429 or 503 with Retry-After is not called again
\* for that execution before the time it asked for, whichever of the worker's
\* and the database's clocks is ahead, however the body of the answer ended,
\* and however late the batch was persisted; after an answer that must not
\* be retried it is not called again at all.
RetriesObeyServerStep ==
    \A e \in Execution :
      (At(e, "ready") /\ calls'[e].pc = "sending") =>
         (advice[e].wait = 0 /\ ~advice[e].terminal)
RetriesObeyServer == [][RetriesObeyServerStep]_agentVars

\* A server cannot park an execution: no retry is scheduled later than the
\* larger of the backoff cap and the horizon, as the worker's clock sees it.
RetryWithinHorizon ==
    \A e \in Execution :
        execs[e].retryAfter <= Max({Cap, Horizon + Max({skew, 0})})

\* A call never keeps more bytes of an answer than the worker's ceiling.
AnswersBounded ==
    \A e \in Execution : calls[e].bytes <= Ceiling.response

\* Every execution is completed or failed in the end: refusals, endless
\* Retry-After answers, silent servers and crashed workers included.
Ended(e) == execs[e].status \in {"completed", "failed"}
EveryExecutionEnds == \A e \in Execution : <>Ended(e)
=============================================================================
