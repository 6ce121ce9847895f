----------------------------- MODULE CaseValues -----------------------------
(* Dataset files for the instances of CaseFiles and CasePlan.              *)
EXTENDS Integers, Sequences, Functions

CaseOf(id, bytes) ==
  [id |-> id, bytes |-> bytes, tags |-> <<2, 1>>,
   gates |-> IF id % 2 = 1 THEN {"g1", "g2"} ELSE {"g2", "g3"}]
LineOf(id, bytes) ==
  [bytes |-> bytes + 1, lf |-> TRUE, keys |-> <<1>>, case |-> CaseOf(id, bytes)]
Leaf == [kind |-> "scalar"]
Text(n) == [kind |-> "text", bytes |-> n]
ListOf(items) == [kind |-> "seq", items |-> items]
MapOf(keys, items) == [kind |-> "map", keys |-> keys, items |-> items]
File(format, fields, lines) ==
  [format |-> format, fields |-> fields, lines |-> lines, bytes |-> 5, tree |-> Leaf]
Jsonl(lines) == File("jsonl", <<1, 3>>, lines)

(* Cases of every size, up to n of them.                                   *)
BySize(n) ==
  UNION {{Jsonl([i \in 1..k |-> LineOf(i, sizes[i])]) : sizes \in [1..k -> {2, 4}]} : k \in 1..n}
(* Repeated identifiers, and distinct ones in every order.                 *)
ById == {Jsonl([i \in 1..5 |-> LineOf(ids[i], 2)]) :
           ids \in [1..5 -> 1..3] \cup {f \in [1..5 -> 1..5] : IsInjective(f)}}
(* Missing, repeated and unknown fields of a JSON document.                *)
ByField == {File("json", fields, <<LineOf(1, 2), LineOf(2, 2)>>) :
              fields \in UNION {[1..n -> {1, 3, 4}] : n \in 0..3}}
(* Lines without an end, too long, with a repeated key, with a case that   *)
(* does not fit.                                                           *)
BadLine(l) == {l, [l EXCEPT !.lf = FALSE], [l EXCEPT !.bytes = 1], [l EXCEPT !.bytes = 15],
               [l EXCEPT !.keys = <<1, 1>>], [l EXCEPT !.case.bytes = 13],
               [l EXCEPT !.case.bytes = 11]}
ByLine == {Jsonl(<<a, b>>) : a \in BadLine(LineOf(1, 2)), b \in BadLine(LineOf(2, 2))}
          \cup {Jsonl(<<>>), Jsonl([i \in 1..6 |-> LineOf(i, 5)])}
(* YAML trees around the depth and the memory budget.                      *)
Values == {Leaf, Text(3), ListOf(<<Leaf, Text(2)>>), MapOf(<<1, 1>>, <<Leaf, Leaf>>),
           MapOf(<<1, 3>>, <<Leaf, ListOf(<<Leaf>>)>>)}
ByTree == {[File("yaml", <<1, 3>>, <<LineOf(1, 2)>>) EXCEPT
              !.tree = MapOf(<<1, k>>, <<v, w>>), !.bytes = b] :
             v, w \in Values, k \in {1, 3}, b \in {5, 9}}
Sources == BySize(5) \cup ById \cup ByField \cup ByLine \cup ByTree
=============================================================================
