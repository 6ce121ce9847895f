---------------------------- MODULE AgentValues ----------------------------
(* Profiles, inputs and answers for the instances of AgentClient.          *)
EXTENDS Integers

Good == [format |-> "vigilo_case", temperature |-> "none", method |-> "post",
         maxRequest |-> -1, maxResponse |-> -1, maxAfter |-> 3,
         timeout |-> -1, defaultTimeout |-> 1, maxAttempts |-> 2]
Profiles == {Good, [Good EXCEPT !.maxResponse = 2],
             [Good EXCEPT !.format = "chat", !.timeout = 0],
             [Good EXCEPT !.format = "chat", !.temperature = "text"],
             [Good EXCEPT !.maxAfter = 99]}
Inputs == {[shape |-> "prompt", size |-> 2], [shape |-> "prompt", size |-> 3],
           [shape |-> "bad_messages", size |-> 1]}
Ceiling == [request |-> 3, response |-> 3]
Reply(status, chunks, body, form, secs) ==
    [status |-> status, chunks |-> chunks, body |-> body,
     after |-> [form |-> form, secs |-> secs]]
Replies ==
    {Reply(200, <<2, 2>>, "plain", "none", 0), Reply(200, <<1>>, "other_json", "none", 0),
     Reply(200, <<1>>, "envelope_text", "none", 0), Reply(401, <<1>>, "plain", "delta", 1),
     Reply(429, <<1>>, "plain", "delta", 3), Reply(429, <<1>>, "plain", "delta", 4),
     Reply(503, <<4>>, "plain", "date", 3), Reply(503, <<>>, "empty", "date", 5),
     Reply(500, <<>>, "empty", "unread", 0)}
=============================================================================
