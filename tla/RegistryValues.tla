--------------------------- MODULE RegistryValues ---------------------------
(* Evaluator packages, releases and builds for the instances of            *)
(* EvaluatorRegistry.                                                      *)
EXTENDS Integers, Sequences

V1 == [decl |-> "v1", contract |-> "c1", adapter |-> "h1"]
V2 == [decl |-> "v2", contract |-> "c2", adapter |-> "h2"]
Adapter == {V1, V2}
Supports(processes) == [p \in processes \cup {"creator", "worker"} |-> {V1}]
Links == [b1 |-> {V1}, b2 |-> {V1}, b3 |-> {V2}]
(* b1 reports its version, b2 the hash of another build, b3 no valid body. *)
Report(ref, version, hash, valid) ==
  [ref |-> ref, version |-> version, hash |-> hash, valid |-> valid]
Reports == [b1 |-> Report(<<"e", 1>>, {"v1"}, {}, TRUE),
            b2 |-> Report(<<"e", 3>>, {}, {[body |-> "b1", sections |-> <<>>]}, TRUE),
            b3 |-> Report(<<"e", 2>>, {}, {}, FALSE)]

Line(kind, name, opens, closes) ==
  [kind |-> kind, name |-> name, opens |-> opens, closes |-> closes]
GoodWit == <<Line("package", "v1", 0, 0), Line("export", "evaluator", 0, 0),
             Line("world", "w", 1, 0), Line("other", "use", 1, 1),
             Line("export", "evaluator", 0, 0), Line("other", "", 0, 1)>>
Dir(ref, body, sections) ==
  [portable |-> FALSE, ref |-> ref, artifact |-> [body |-> body, sections |-> sections],
   decl |-> "v1", world |-> "w", interface |-> "evaluator", wit |-> GoodWit,
   built |-> TRUE, stale |-> FALSE]
E1 == <<"e", 1>>
E2 == <<"e", 2>>

(* The same build under two versions, another build of version 1, a build  *)
(* stamped with another version, a stale one and a WIT without the export. *)
Sources ==
  {Dir(E1, "b1", <<>>), Dir(E1, "b2", <<>>), Dir(E2, "b2", <<E2>>), Dir(E2, "b1", <<E1>>),
   [Dir(E2, "b1", <<>>) EXCEPT !.stale = TRUE],
   [Dir(E2, "b1", <<>>) EXCEPT !.wit = SubSeq(GoodWit, 1, 4) \o <<Line("other", "", 0, 1)>>]}

Ent(ref, body, abi) ==
  [ref |-> ref, artifact |-> [body |-> body, sections |-> <<ref>>], abi |-> abi]
Portable(entry) ==
  [portable |-> TRUE, ref |-> entry.ref, decl |-> entry.abi.decl,
   artifact |-> entry.artifact, hash |-> entry.artifact, contract |-> entry.abi.contract,
   trailing |-> FALSE,
   members |-> <<[name |-> "Vigilo.toml", file |-> TRUE, fits |-> TRUE],
                 [name |-> "evaluator.wasm", file |-> TRUE, fits |-> TRUE]>>]
OneSource == {Portable(Ent(E1, "b1", V1))}
TwoSources == OneSource \cup {Portable(Ent(<<"e", 3>>, "b2", V1))}

Rel(key, draft, entries) ==
  [key |-> key, draft |-> draft, entries |-> entries,
   assets |-> {entries[i].ref : i \in 1..Len(entries)}]
Releases ==
  {Rel(1, FALSE, <<Ent(E1, "b2", V1)>>),
   Rel(2, FALSE, <<Ent(E1, "b1", V1), Ent(<<"f", 1>>, "b2", V1)>>),
   Rel(3, FALSE, <<Ent(<<"e", 3>>, "b3", V2)>>),
   Rel(4, TRUE, <<Ent(E1, "b2", V1)>>)}
=============================================================================
