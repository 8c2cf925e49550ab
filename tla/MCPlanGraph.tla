----------------------------- MODULE MCPlanGraph -----------------------------
(* The statements that TLC plans: every clause with every kind of source, with at most
   two sources, two union members and one value, and subqueries of one table. *)
EXTENDS PlanGraph

Query(op, sources, where) ==
  [op |-> op, sources |-> sources, where |-> where, group |-> FALSE, distinct |-> FALSE,
   having |-> FALSE, order |-> FALSE, unions |-> << >>, consts |-> << >>, target |-> 1]

Source(kind, q, hash, left, conditions) ==
  [kind |-> kind, query |-> q, hash |-> hash, left |-> left, conditions |-> conditions]

Table     == Source("table", NoQuery, FALSE, FALSE, 0)
Inner(q)  == Source("subquery", q, FALSE, FALSE, 0)

OneTable == Query("select", <<Table>>, TRUE)
NoTable  == Query("select", << >>, FALSE)

(* GROUP BY, HAVING and DISTINCT. *)
Grouped(Q) ==
  {[q EXCEPT !.group = g # "plain", !.having = g = "having", !.distinct = d] :
     q \in Q, g \in {"plain", "group", "having"}, d \in BOOLEAN}

(* Without FROM, a WHERE in front of GROUP BY is never called. *)
Called(q) == q.sources = << >> => ~(q.where /\ q.group)

Subqueries ==
  {q \in Grouped({Query("select", s, w) : s \in {<< >>, <<Table>>}, w \in BOOLEAN}) :
     Called(q) /\ ~q.having}

Joins ==
  {Source("table", NoQuery, h, l, c) : h \in BOOLEAN, l \in BOOLEAN, c \in 1..2} \cup
  {Source("subquery", q, h, FALSE, 1) : q \in Subqueries, h \in BOOLEAN}

Selects ==
  LET from   == {<< >>, <<Table>>} \cup {<<Inner(q)>> : q \in Subqueries}
      joined == {<<Table, j>> : j \in Joins}
                \cup {<<Inner(q), j>> : q \in {OneTable, NoTable}, j \in {k \in Joins : k.hash}}
      plain(F) == {Query("select", s, w) : s \in F, w \in BOOLEAN}
  IN  {q \in Grouped(plain(from)) : Called(q)} \cup plain(joined)
      \cup {[q EXCEPT !.group = TRUE, !.having = TRUE, !.distinct = TRUE] : q \in plain(joined)}

(* A union member must end in a process of its own, in front of its select. *)
Members ==
  {q \in Subqueries : IF q.sources = << >> THEN ~(q.group \/ q.distinct)
                      ELSE q.where => q.group \/ q.distinct}

Unions ==
  {[q EXCEPT !.unions = u] :
     q \in {OneTable, NoTable, [OneTable EXCEPT !.order = TRUE]},
     u \in {<<m>> : m \in Members} \cup {<<m, NoTable>> : m \in Members}}

(* The joins whose rows all reach the rewrite: LEFT JOIN or a single comparison without
   WHERE, and with WHERE a LEFT JOIN with a single comparison. *)
Keeps(q) ==
  LET join == q.sources[2]
  IN  \/ Len(q.sources) = 1
      \/ ~q.where /\ (join.left \/ (join.hash /\ join.conditions = 1))
      \/ q.where /\ join.left /\ join.conditions = 1

Rewrites ==
  {[Query(op, <<Table>> \o j, w) EXCEPT !.target = t] :
     op \in {"delete", "update"}, j \in {<< >>} \cup {<<k>> : k \in Joins},
     w \in BOOLEAN, t \in 1..2}
KeepingRewrites == {q \in Rewrites : Keeps(q) \/ q.target = 2}

Statements == {Query("set", << >>, FALSE), Query("if", << >>, FALSE)}

(* Values: used by WHERE or by the operation. *)
Valued ==
  {[q EXCEPT !.consts = <<[query |-> v, at |-> "op"]>>] :
     v \in Subqueries, q \in Statements \cup {OneTable, NoTable}} \cup
  {[q EXCEPT !.consts = <<[query |-> v, at |-> "where"]>>] :
     v \in Subqueries,
     q \in {OneTable, Query("update", <<Table>>, TRUE), Query("delete", <<Table>>, TRUE)}}

OrderedSelects == {[q EXCEPT !.order = TRUE] : q \in {r \in Selects : Len(r.sources) < 2}}

MCQueries ==
  Selects \cup OrderedSelects \cup Unions \cup KeepingRewrites \cup Statements \cup Valued

(* The UPDATE of usage.md:37-41. *)
DocumentedUpdate == {Query("update", <<Table, Source("table", NoQuery, TRUE, FALSE, 1)>>, TRUE)}

MCNested == Subqueries \cup {OneTable, NoTable}

(* The theorem about wait lists and union ends is about these statements too. *)
ASSUME MCSupported == Supported

(* A union member with WHERE. *)
UnionsWithWhere == {[NoTable EXCEPT !.unions = <<OneTable>>]}
=============================================================================
