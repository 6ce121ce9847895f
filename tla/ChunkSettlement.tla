--------------------------- MODULE ChunkSettlement --------------------------
(***************************************************************************)
(* What executing the chunks of a shard promises to those who count the    *)
(* results: ShardSummary reads each receipt once, long after it was        *)
(* written, and never looks at the executions again.                       *)
(*                                                                         *)
(* A case is open until it has a result or an error, for good.  A chunk is *)
(* open until it is settled, for good: with a disposition, and with the    *)
(* results and errors its cases have.  A case still open when its chunk is *)
(* settled never gets a result, and a chunk with such a case is not        *)
(* completed.                                                              *)
(***************************************************************************)
CONSTANTS
    Chunk,
    Case,
    ChunkOf      \* the chunk of a case

VARIABLES
    outcome,     \* of each case: "open", "result", "error" or "unscored"
    receipt      \* of each chunk: its disposition and the outcomes it counted

Scored(out, c) ==
    {[case |-> k, kind |-> out[k]] :
        k \in {k \in Case : ChunkOf[k] = c /\ out[k] \in {"result", "error"}}}

Init ==
    /\ outcome = [k \in Case |-> "open"]
    /\ receipt = [c \in Chunk |-> [disposition |-> "none", evidence |-> {}]]

Open(c) == receipt[c].disposition = "none"

(* Some open cases of open chunks get their results and errors.            *)
Resolve ==
    /\ UNCHANGED receipt
    /\ DOMAIN outcome' = Case
    /\ \A k \in Case :
          \/ outcome'[k] = outcome[k]
          \/ /\ outcome[k] = "open" /\ Open(ChunkOf[k])
             /\ outcome'[k] \in {"result", "error"}

(* Some open chunks are settled.                                           *)
Settle(C, disposition) ==
    /\ \A c \in C : Open(c)
    /\ disposition = "completed" => \A k \in Case : ChunkOf[k] \in C => outcome[k] # "open"
    /\ outcome' = [k \in Case |->
                      IF ChunkOf[k] \in C /\ outcome[k] = "open" THEN "unscored" ELSE outcome[k]]
    /\ receipt' = [c \in Chunk |->
                      IF c \in C
                      THEN [disposition |-> disposition, evidence |-> Scored(outcome, c)]
                      ELSE receipt[c]]

Next ==
    \/ Resolve
    \/ \E C \in SUBSET Chunk, d \in {"completed", "failed", "cancelled"} : Settle(C, d)

Spec == Init /\ [][Next]_<<outcome, receipt>>

=============================================================================
