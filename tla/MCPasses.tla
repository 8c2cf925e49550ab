------------------------------ MODULE MCPasses ------------------------------
(***************************************************************************)
(* Plans for module Passes, built from SELECTs the way the plan builder    *)
(* wires them, and run on small tables whose rows are numbered.            *)
(***************************************************************************)
EXTENDS Passes

Factor == 2           (* of the tests, check_thread_output.c:18 *)
NoTop  == 1000

(* SELECT columns FROM a table of n rows, and what clauses change of it. *)
From(n) ==
  [rows |-> n, joins |-> << >>, where |-> << >>, reduce |-> "all", columns |-> <<1>>,
   order |-> FALSE, top |-> NoTop, sub |-> << >>]

(* FROM (a SELECT).  The first run of several with UNION ALL shows the first only, and the
   reader of another waits for room for ever when its rows do not fit into the pipe. *)
FromSub(members) == [From(0) EXCEPT !.sub = members]

Join(m, n, matches)  == Append(m.joins, [join |-> "inner", hash |-> TRUE, rows |-> n, matches |-> matches])
Hash(m, n, matches)  == [m EXCEPT !.joins = Join(m, n, matches)]
Left(m, n, matches)  ==
  [m EXCEPT !.joins = Append(@, [join |-> "left", hash |-> TRUE, rows |-> n, matches |-> matches])]
Cross(m, n, matches) ==
  [m EXCEPT !.joins = Append(@, [join |-> "inner", hash |-> FALSE, rows |-> n, matches |-> matches])]
Filter(m, matches)   == [m EXCEPT !.where = Append(@, matches)]
Reduce(m, reduce)    == [m EXCEPT !.reduce = reduce]
Cols(m, columns)     == [m EXCEPT !.columns = columns]
TopN(m, n)           == [m EXCEPT !.top = n]
Ordered(m)           == [m EXCEPT !.order = TRUE]

All(n, k)   == (1 .. n) \X (1 .. k)
Same(n)     == {<<k, k>> : k \in 1 .. n}
Odd(n)      == {p \in All(n, n) : p[1] % 2 = 1}
Few(n, k)   == {p \in All(n, k) : p[1] % 3 = 0}

-----------------------------------------------------------------------------
(* What it promises to show. *)

RECURSIVE Rows(_)
Asked(m) ==
  [table  |-> IF m.sub = << >> THEN [k \in 1 .. m.rows |-> <<k>>] ELSE Rows(m.sub),
   joins  |-> m.joins, where |-> m.where, reduce |-> m.reduce, columns |-> m.columns,
   order  |-> m.order, top |-> m.top]
Rows(members) == Q!Answer([k \in DOMAIN members |-> Asked(members[k])])

-----------------------------------------------------------------------------
(* Its processes. *)

Blank ==
  [action |-> "read", out |-> NoPipe, root |-> -1, source |-> 0, sources |-> 1, rows |-> 0,
   matches |-> {}, left |-> FALSE, sub |-> 0, waits |-> {}, unions |-> << >>,
   selects |-> << >>, kind |-> "show", top |-> NoTop]

Reader(n) == [Blank EXCEPT !.root = 0, !.rows = n]

Logics(sources, matches) ==
  [k \in DOMAIN matches |->
     [Blank EXCEPT !.action = "logic", !.sources = sources, !.matches = matches[k]]]

JoinSteps(join, n) ==
  IF join.hash
    THEN <<[Blank EXCEPT !.action = "hash_join", !.sources = n, !.rows = join.rows,
                         !.matches = join.matches, !.left = join.join = "left"]>>
    ELSE <<[Blank EXCEPT !.action = "cartesian_join", !.sources = n, !.source = n - 1,
                         !.rows = join.rows, !.root = 1]>> \o Logics(n, <<join.matches>>)

ReduceSteps(m) ==
  CASE m.reduce = "all"      -> << >>
    [] m.reduce = "distinct" -> <<[Blank EXCEPT !.action = "distinct", !.sources = Len(m.joins) + 1]>>
    [] m.reduce = "group"    -> <<[Blank EXCEPT !.action = "groupby", !.root = 1,
                                                !.sources = Len(m.joins) + 1]>>

Steps(m) ==
  FlattenSeq([k \in DOMAIN m.joins |-> JoinSteps(m.joins[k], k + 1)])
  \o Logics(Len(m.joins) + 1, m.where) \o ReduceSteps(m)

SelectStep(members, kind) ==
  LET m == members[1]
  IN  <<[Blank EXCEPT !.action = "select", !.kind = kind,
                      !.sources = IF m.reduce = "group" THEN 1 ELSE Len(m.joins) + 1,
                      !.selects = [k \in DOMAIN members |->
                                     [top |-> IF m.order THEN NoTop ELSE members[k].top,
                                      columns |-> members[k].columns]]]>>

(* The members of a UNION after the first, and the tables of hash joins, come last. *)
Chained(procs, chain, last) ==
  procs \o [i \in DOMAIN chain |->
              [chain[i] EXCEPT !.out = IF i < Len(chain) THEN <<Len(procs) + i + 1, 0>> ELSE last]]

WithUnions(procs, s, members) ==
  FoldLeft(LAMBDA ps, k :
             Chained([ps EXCEPT ![s].unions = Append(@, <<s, k + 1>>)],
                     <<Reader(members[k].rows)>> \o Steps(members[k]), <<s, k + 1>>),
           procs, [i \in 1 .. Len(members) - 1 |-> i + 1])

WithTables(procs) ==
  FoldLeft(LAMBDA ps, j : Chained(ps, <<Reader(procs[j].rows)>>, <<j, 1>>), procs,
           SelectSeq([j \in DOMAIN procs |-> j], LAMBDA j : procs[j].action = "hash_join"))

(* The last is a SELECT TOP 1 whose value the outer one shows, for which it waits. *)
WithValueOf(procs, s, value) ==
  IF value = << >> THEN procs
  ELSE Chained([procs EXCEPT ![s].waits = {Len(procs) + 2}],
               <<Reader(value[1].rows)>> \o SelectStep(value, "value"), NoPipe)

Plan(members, value, stepping, runs) ==
  LET m     == members[1]
      first == IF m.sub = << >> THEN <<Reader(m.rows)>>
               ELSE <<Reader(m.sub[1].rows)>> \o Steps(m.sub[1]) \o SelectStep(m.sub, "subquery")
      sub   == IF m.sub = << >> THEN 0 ELSE Len(first)
      read  == IF m.sub = << >> THEN << >> ELSE <<[Blank EXCEPT !.sub = sub]>>
      body  == first \o read \o Steps(m)
      s     == Len(body) + 1
      order == IF m.order THEN <<[Blank EXCEPT !.action = "orderby", !.top = m.top]>> ELSE << >>
      main  == Chained(<< >>, body \o SelectStep(members, IF m.order THEN "file" ELSE "show") \o order,
                       NoPipe)
      procs == WithTables(IF sub = 0 THEN main ELSE WithUnions(main, sub, m.sub))
      shown == [k \in DOMAIN Rows(members) |->
                  Rows(members)[k] \o (IF value = << >> THEN << >> ELSE Rows(value)[1])]
  IN  [process |-> WithValueOf(WithUnions(procs, s, members), s, value),
       factor |-> Factor, stepping |-> stepping, runs |-> runs,
       opTrue |-> IF m.order THEN s + 1 ELSE s,
       value |-> IF value = << >> THEN 0 ELSE Rows(value)[1][1],
       answer |-> FlattenSeq([k \in 1 .. runs |-> shown])]

-----------------------------------------------------------------------------
(* The statements of the run. *)

NoValue == << >>

Statements ==
  { <<From(30)>>,
    <<From(0)>>,
    <<TopN(From(30), 3)>>,
    <<TopN(From(4), 0)>>,
    <<Filter(From(30), Odd(30))>>,
    <<Cols(Cross(From(3), 2, {<<1, 2>>, <<3, 1>>, <<3, 2>>}), <<1, 2>>)>>,
    <<Cols(Cross(Cross(From(3), 2, All(3, 2)), 4, Few(3, 4)), <<1, 2, 3>>)>>,
    <<Cols(Hash(From(5), 4, Same(4) \cup {<<2, 4>>}), <<1, 2>>)>>,
    <<Cols(Hash(From(2), 40, All(1, 40)), <<1, 2>>)>>,
    <<Cols(Left(From(5), 4, {<<2, 1>>, <<2, 3>>, <<4, 4>>}), <<1, 2>>)>>,
    <<Cols(Hash(Hash(From(3), 3, All(3, 3)), 2, {<<1, 1>>, <<3, 1>>, <<3, 2>>}), <<1, 2, 3>>)>>,
    <<Reduce(From(9), "distinct")>>,
    <<Cols(Reduce(Filter(From(9), Odd(9)), "group"), <<1, 2>>)>>,
    <<Cols(Reduce(Hash(From(3), 2, All(3, 2)), "group"), <<1, 2>>)>>,
    <<Ordered(From(5))>>,
    <<TopN(Ordered(Filter(From(8), Odd(8))), 2)>>,
    <<From(3), From(30)>>,
    <<TopN(From(4), 2), Reduce(From(5), "distinct"), TopN(From(3), 1)>>,
    <<FromSub(<<Filter(From(30), Odd(30))>>)>>,
    <<Filter(FromSub(<<TopN(From(4), 3)>>), Odd(4))>>,
    <<FromSub(<<Cols(Cross(From(3), 2, All(3, 2)), <<2>>)>>), From(3)>>,
    <<Cols(Cross(FromSub(<<From(3)>>), 2, All(6, 2)), <<1, 2>>)>>,
    <<Cols(Hash(FromSub(<<From(3)>>), 2, All(6, 2)), <<1, 2>>)>>,
    <<Cols(Cross(Hash(From(3), 3, All(3, 3)), 3, All(3, 3)), <<1, 2, 3>>)>>,
    <<Cols(Hash(Cross(From(3), 3, All(3, 3)), 3, All(3, 3)), <<1, 2, 3>>)>>,
    <<Cols(Reduce(FromSub(<<Filter(From(6), Odd(6))>>), "group"), <<1, 2>>)>>,
    <<Reduce(FromSub(<<From(5)>>), "distinct"), From(2)>> }

(* A hash join that TOP cut short is not run again: hashjoin_reset keeps its matches. *)
Cut == <<TopN(Cols(Hash(From(5), 3, All(5, 3)), <<2, 1>>), 4)>>

(* fql_exec writes the rows of an ORDER BY that has none; fql_step fails on it. *)
NoRows == <<Ordered(Filter(From(3), {}))>>

MCPlans ==
  {Plan(members, NoValue, stepping, runs) : members \in Statements, stepping \in BOOLEAN, runs \in 1 .. 2}
  \cup {Plan(Cut, NoValue, stepping, 1) : stepping \in BOOLEAN}
  \cup {Plan(NoRows, NoValue, FALSE, runs) : runs \in 1 .. 2}
  \cup {Plan(<<From(3)>>, <<TopN(From(5), 1)>>, stepping, 2) : stepping \in BOOLEAN}

(* Two cartesian joins, of which the second takes one list of the first in each call. *)
ThreeTables ==
  {Plan(<<Cols(Cross(Cross(From(6), 8, All(6, 8)), 2, All(6, 2)), <<1, 2, 3>>)>>, NoValue, FALSE, 1)}
=============================================================================
