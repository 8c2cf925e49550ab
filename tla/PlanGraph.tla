------------------------------ MODULE PlanGraph ------------------------------
(***************************************************************************)
(* How a statement becomes the graph of processes that module Fifo runs:   *)
(* _build of lib/fqlplan.c for a query and its subqueries, the             *)
(* apply_process function of each operation, process_activate, and the     *)
(* traversal of util/dgraph.c that counts the inputs of each pipe and      *)
(* orders the processes.                                                   *)
(*                                                                         *)
(* A query is a record: its operation; its sources, tables and subqueries  *)
(* with their joins; which clauses it has; unions; consts, the subqueries  *)
(* used as values, each with the clause (at) that uses it; and target, the *)
(* source that is deleted from or updated.  The plan of a subquery is      *)
(* built while that of the query around it waits: stack.                   *)
(***************************************************************************)
EXTENDS Integers, SequencesExt, FiniteSets

CONSTANTS
  Queries,     (* the statements to plan                                   *)
  Nested       (* the queries that these contain, at any depth             *)

NULL == 0

(* The source that is a table has no query. *)
NoQuery == [op |-> "none"]

Operations == {"select", "delete", "update", "set", "if"}

Sources ==
  [kind : {"table"}, query : {NoQuery}, hash : BOOLEAN, left : BOOLEAN, conditions : Nat] \cup
  [kind : {"subquery"}, query : Nested, hash : BOOLEAN, left : BOOLEAN, conditions : Nat]

QueryType ==
  [op : Operations, sources : Seq(Sources), where : BOOLEAN, group : BOOLEAN,
   distinct : BOOLEAN, having : BOOLEAN, order : BOOLEAN, unions : Seq(Nested),
   consts : Seq([query : Nested, at : {"where", "op"}]), target : Nat]

ASSUME QueriesAssumption == Queries \cup Nested \subseteq QueryType

VARIABLES
  query,       (* the statement                                            *)
  node,        (* every dnode made so far, with its process                *)
  plans,       (* every plan, in the order in which _build is called       *)
  stack,       (* the plans whose _build has not returned, innermost first *)
  phase,       (* what plan_build is doing                                 *)
  fifoOut,     (* fifo_out of each node: the pipes it writes               *)
  inputCount,  (* input_count of the input pipes of each node              *)
  trav,        (* _trav, the queue of the traversal                        *)
  rootIdx,     (* _root_idx, the next root to traverse from                *)
  order        (* execution_vector                                         *)

vars == <<query, node, plans, stack, phase, fifoOut, inputCount, trav, rootIdx, order>>
wiring == <<fifoOut, inputCount, trav, rootIdx, order>>

(* The plan of the statement, and the one being built. *)
main == plans[1]
self == plans[stack[1]]

(* A process and the dnode that holds it.  out[0] is where the rows go that fail a test,
   or all of them if there is none; out[1], where those go that pass. *)
Process(p, action) ==
  [plan |-> p, action |-> action, passive |-> FALSE, out |-> [b \in 0..1 |-> NULL],
   root |-> FALSE, rootFifo |-> -1, secondary |-> FALSE, dual |-> FALSE, second |-> FALSE,
   const |-> FALSE, killed |-> FALSE, dead |-> FALSE, left |-> FALSE, unionEnds |-> << >>,
   waits |-> {}, freed |-> FALSE, visits |-> 0]

Passive(p) == [Process(p, "no_op") EXCEPT !.passive = TRUE]

(* step is the clause to build, or the loop that is going on, and after that next; i
   counts in a loop; child is the subquery last built; stages are the processes a row
   passes, in the order of the clauses (history). *)
NewPlan(q, entry, isUnion) ==
  [query |-> q, entry |-> entry, isUnion |-> isUnion, step |-> "consts", next |-> "union",
   i |-> 1, graph |-> << >>, current |-> NULL, opTrue |-> NULL, opFalse |-> NULL,
   isConst |-> FALSE, constPlans |-> << >>, child |-> NULL, stages |-> << >>]

-----------------------------------------------------------------------------
(* Changes to a state s, which is the nodes and the plan being built. *)

State == [node |-> node, plan |-> self]
Here  == stack[1]
Newest(s) == Len(s.node)

Add(s, process) ==
  [s EXCEPT !.node = Append(@, process), !.plan.graph = Append(@, Newest(s) + 1)]

Link(s, from, branch, to) == [s EXCEPT !.node[from].out[branch] = to]

(* The node that follows the clauses so far is to, and is then the current one. *)
Advance(s, to) == [Link(s, s.plan.current, 0, to) EXCEPT !.plan.current = to]

Stage(s, n) == [s EXCEPT !.plan.stages = Append(@, n)]

(* Mutant: the processes of a subquery stay in the graph of its own plan. *)
ConsumeNothing(s) == s

Consume(s) == [s EXCEPT !.plan.graph = @ \o plans[s.plan.child].graph]

(* Mutant: the process waits for the op_true of its own plan. *)
WaitListOwn(s, clause) ==
  {s.plan.opTrue : k \in {j \in DOMAIN s.plan.query.consts : s.plan.query.consts[j].at = clause}}

(* The op_true of each value that the clause uses. *)
WaitList(s, clause) ==
  {plans[s.plan.constPlans[k]].opTrue :
     k \in {j \in DOMAIN s.plan.constPlans : s.plan.query.consts[j].at = clause}}

(* fql_hash_join sends what has a match to branch 1. *)
LogicBranch(fromHash) == IF fromHash THEN 1 ELSE 0

(* plan_logicgroup_to_process: a process for the condition and a passive node for what
   passes it.  All of a condition that consists of one comparison is in the hash join. *)
Logic(s, action, conditions, fromHash, waits) ==
  LET logic == Newest(s) + 1
      true  == logic + 1
      added == Add(Add(s, [Process(Here, action) EXCEPT
                             !.passive = fromHash /\ conditions = 1, !.waits = waits,
                             !.out = [b \in 0..1 |-> IF b = 0 THEN s.plan.opFalse ELSE true]]),
                   Passive(Here))
      kept  == IF fromHash /\ conditions = 1 THEN added ELSE Stage(added, logic)
  IN  [Link(kept, s.plan.current, LogicBranch(fromHash), logic) EXCEPT !.plan.current = true]

(* Branch b of node n leads to a passive node. *)
ToPassive(s, n, b) == s.node[n].out[b] # NULL /\ s.node[s.node[n].out[b]].passive

(* Where a passive node leads to, for one that has it on branch b. *)
Onward(passive, b) ==
  IF b = 1 /\ passive.out[1] # NULL THEN passive.out[1] ELSE passive.out[0]

(* One round of the loops that take branch 0, and then branch 1, past passive nodes. *)
Bypass(s, n) ==
  LET b == IF ToPassive(s, n, 0) THEN 0 ELSE 1
  IN  Link(s, n, b, Onward(s.node[s.node[n].out[b]], b))

(* The elements of a sequence that are in a set, in their order. *)
Kept(seq, S) ==
  LET kept[k \in 0..Len(seq)] ==
        IF k = 0 THEN << >>
        ELSE IF seq[k] \in S THEN Append(kept[k - 1], seq[k]) ELSE kept[k - 1]
  IN  kept[Len(seq)]

(* Then they are freed. *)
FreePassive(s) ==
  LET gone == {n \in Range(s.plan.graph) : s.node[n].passive}
  IN  [s EXCEPT !.node = [n \in DOMAIN s.node |-> [s.node[n] EXCEPT !.freed = @ \/ n \in gone]],
                !.plan.graph = Kept(@, Range(@) \ gone)]

(* The nodes of the graph that are marked as roots. *)
RootsOf(s) == {n \in Range(s.plan.graph) : s.node[n].root}

(* If none is marked, those that no other node leads to. *)
GetRoots(s) ==
  LET G       == Range(s.plan.graph)
      entered == {s.node[n].out[b] : n \in G, b \in 0..1}
  IN  IF RootsOf(s) # {} THEN s
      ELSE [s EXCEPT !.node = [n \in DOMAIN s.node |->
                                 [s.node[n] EXCEPT !.root = @ \/ (n \in G /\ n \notin entered)]]]

-----------------------------------------------------------------------------
(* The operations. *)

(* One table is rewritten by op_true itself: without WHERE its rows arrive at the TRUE
   input, and the FALSE one is closed from the start. *)
UpdateTable(s) ==
  LET n   == s.plan.opTrue
      upd == [s EXCEPT !.node[n].action = "update", !.node[n].second = TRUE,
                       !.node[s.plan.opFalse].passive = TRUE]
  IN  IF s.plan.query.where THEN [upd EXCEPT !.node[n].dual = TRUE]
      ELSE [upd EXCEPT !.node[s.plan.stages[1]].secondary = TRUE, !.node[n].killed = TRUE]

DeleteTable(s) ==
  [s EXCEPT !.node[s.plan.opFalse].action = "delete", !.node[s.plan.opTrue].passive = TRUE]

(* Behind a join, a filter with a FALSE and a TRUE input. *)
RewriteJoin(s) ==
  LET update == s.plan.query.op = "update"
      filter == Newest(s) + 1
      added  == Add(s, [Process(Here, IF update THEN "update_filter" ELSE "delete_filter")
                          EXCEPT !.dual = TRUE, !.second = TRUE])
      linked == Link(Link(added, s.plan.opFalse, 0, filter), s.plan.opTrue, 0, filter)
  IN  [linked EXCEPT !.node[s.plan.opFalse].passive = TRUE,
                     !.node[s.plan.opTrue].passive = TRUE,
                     !.plan.opTrue = IF update THEN filter ELSE @]

ApplyOther(s) ==
  Stage([s EXCEPT !.node[s.plan.opTrue].action = s.plan.query.op,
                  !.node[s.plan.opFalse].passive = TRUE], s.plan.opTrue)

ApplyProcess(s) ==
  LET op   == s.plan.query.op
      join == Len(s.plan.query.sources) > 1
  IN  CASE op \in {"delete", "update"} /\ join -> RewriteJoin(s)
        [] op = "update" /\ ~join -> UpdateTable(s)
        [] op = "delete" /\ ~join -> DeleteTable(s)
        [] op \notin {"delete", "update"} -> ApplyOther(s)

(* Mutant: the operation does not wait for the values it uses. *)
AwaitNothing(s) == s

Await(s) == [s EXCEPT !.node[s.plan.opTrue].waits = @ \cup WaitList(s, "op")]

Enter(s) ==
  IF s.plan.entry = NULL THEN s ELSE Link(s, s.plan.opTrue, 0, s.plan.entry)

-----------------------------------------------------------------------------
(* _build, clause by clause. *)

At(step) == phase = "build" /\ self.step = step

Go(s, step) ==
  /\ node' = s.node
  /\ plans' = [plans EXCEPT ![Here] = [s.plan EXCEPT !.step = step]]
  /\ UNCHANGED <<query, stack, phase, wiring>>

(* Calls _build for a subquery, to go on at step. *)
Call(s, step, q, entry, isUnion) ==
  LET child == Len(plans) + 1
  IN  /\ node' = s.node
      /\ plans' = Append([plans EXCEPT ![Here] = [s.plan EXCEPT !.step = step, !.child = child]],
                         NewPlan(q, entry, isUnion))
      /\ stack' = <<child>> \o stack
      /\ UNCHANGED <<query, phase, wiring>>

Fail ==
  /\ phase' = "failed"
  /\ UNCHANGED <<query, node, plans, stack, wiring>>

Further(s) == [s EXCEPT !.plan.i = @ + 1]

(* To remove the passive nodes, and to go on at next. *)
Clearing(s, next) == [s EXCEPT !.plan.i = 1, !.plan.next = next]

BuildConst ==
  /\ At("consts") /\ self.i <= Len(self.query.consts)
  /\ Call([Further(State) EXCEPT !.plan.constPlans = Append(@, Len(plans) + 1)],
          "consts", self.query.consts[self.i].query, NULL, FALSE)

Construct ==
  /\ At("consts") /\ self.i > Len(self.query.consts)
  /\ LET start == Len(node) + 1
         p     == Process(Here, "no_op")
     IN  Go([Add(Add(Add(State, Passive(Here)), p), p) EXCEPT
               !.plan.current = start, !.plan.opTrue = start + 1,
               !.plan.opFalse = start + 2, !.plan.i = 1], "from")

source == self.query.sources[self.i]
MoreSources == At("from") /\ self.i <= Len(self.query.sources)

Read == [Process(Here, "read") EXCEPT !.root = TRUE, !.rootFifo = 0]

FromTable ==
  /\ MoreSources /\ self.i = 1 /\ source.kind = "table"
  /\ LET read == Len(node) + 1
     IN  Go(Further(Stage(Advance(Add(State, Read), read), read)), "from")

FromSubquery ==
  /\ MoreSources /\ self.i = 1 /\ source.kind = "subquery"
  /\ Call(Add(State, Process(Here, "read")), "from subquery", source.query, Len(node) + 1, FALSE)

FromConsumed ==
  /\ At("from subquery")
  /\ LET read == plans[self.child].entry
     IN  Go(Further(Stage(Advance(Consume(State), read), read)), "from")

(* The hash join, its right-hand side read by the process right, and the rest of its
   condition. *)
HashJoin(s, right) ==
  LET join   == Newest(s) + 1
      joined == Advance(Add(Link(s, right, 0, join),
                            [Process(Here, "hash_join") EXCEPT
                               !.second = TRUE, !.left = source.left]), join)
  IN  Further(Logic(Stage(joined, join),
                  IF source.left THEN "left_join_logic" ELSE "logic",
                  source.conditions, TRUE, {}))

JoinTable ==
  /\ MoreSources /\ self.i > 1 /\ source.hash /\ source.kind = "table"
  /\ Go(HashJoin(Add(State, [Read EXCEPT !.secondary = TRUE]), Len(node) + 1), "from")

JoinSubquery ==
  /\ MoreSources /\ self.i > 1 /\ source.hash /\ source.kind = "subquery"
  /\ Call(Add(State, [Process(Here, "read") EXCEPT !.secondary = TRUE]),
          "join subquery", source.query, Len(node) + 1, FALSE)

JoinConsumed ==
  /\ At("join subquery")
  /\ Go(HashJoin(Consume(State), plans[self.child].entry), "from")

CartesianJoin ==
  /\ MoreSources /\ self.i > 1 /\ ~source.hash
  /\ IF source.left \/ source.kind = "subquery" THEN Fail
     ELSE LET join   == Len(node) + 1
              joined == Advance(Add(State, [Process(Here, "cartesian_join") EXCEPT
                                              !.root = TRUE, !.rootFifo = 1]), join)
          IN  Go(Further(Logic(Stage(joined, join), "logic", source.conditions, FALSE, {})),
                 "from")

Where ==
  /\ At("from") /\ self.i > Len(self.query.sources)
  /\ Go(IF self.query.where THEN Logic(State, "logic", 1, FALSE, WaitList(State, "where"))
        ELSE State, "group")

(* GROUP BY has a root of its own: the rows it makes are not those it reads. *)
Group ==
  /\ At("group")
  /\ LET n       == Len(node) + 1
         grouped == IF self.query.group
                    THEN Stage(Advance(Add(State, [Process(Here, "groupby") EXCEPT
                                                     !.root = TRUE, !.rootFifo = 1]), n), n)
                    ELSE State
         m       == Newest(grouped) + 1
     IN  Go(IF self.query.distinct
            THEN Stage(Advance(Add(grouped, Process(Here, "distinct")), m), m)
            ELSE grouped, "having")

Having ==
  /\ At("having")
  /\ Go(IF self.query.having THEN Logic(State, "logic", 1, FALSE, {}) ELSE State, "operation")

(* A union member ends in the process before its operation, if that is a real one. *)
Operation ==
  /\ At("operation")
  /\ LET prev    == self.current
         linked  == Link(State, prev, 0, self.opTrue)
         quiet   == IF self.isUnion
                    THEN [linked EXCEPT !.node[self.opFalse].passive = TRUE] ELSE linked
         applied == Enter(Await(ApplyProcess([quiet EXCEPT !.plan.current = self.opTrue])))
     IN  IF self.isUnion /\ ~node[prev].passive THEN Go(Clearing(quiet, "union"), "clear")
         ELSE IF /\ self.query.op \in {"delete", "update"}
                 /\ Len(self.query.sources) > 1 /\ self.query.target # 1
         THEN Fail
         ELSE Go(Clearing(applied, "union"), "clear")

Relink ==
  /\ At("clear") /\ self.i <= Len(self.graph)
  /\ LET n == self.graph[self.i]
     IN  Go(IF \E b \in 0..1 : ToPassive(State, n, b) THEN Bypass(State, n) ELSE Further(State),
            "clear")

Clear ==
  /\ At("clear") /\ self.i > Len(self.graph)
  /\ Go(FreePassive(State), "roots")

Roots == At("roots") /\ Go([GetRoots(State) EXCEPT !.plan.i = 1], self.next)

BuildUnion ==
  /\ At("union") /\ self.i <= Len(self.query.unions)
  /\ Call(Further(State), "union member", self.query.unions[self.i], NULL, TRUE)

UnionConsumed ==
  /\ At("union member")
  /\ LET member == plans[self.child]
         ended  == [Consume(State) EXCEPT !.node[self.opTrue].unionEnds = Append(@, member.current)]
     IN  Go(IF member.isConst THEN ended
            ELSE [ended EXCEPT !.node[member.opTrue].passive = TRUE], "union")

Order ==
  /\ At("union") /\ self.i > Len(self.query.unions)
  /\ LET n       == Len(node) + 1
         ordered == IF self.query.order
                    THEN [Stage(Advance(Add(State, Process(Here, "orderby")), n), n)
                            EXCEPT !.plan.opTrue = n]
                    ELSE State
     IN  Go(Clearing(ordered, IF self.query.op = "delete" THEN "disable" ELSE "finish"), "clear")

(* DELETE without a condition: the read has nobody to send to, and fql_delete no input. *)
DisableStranded(s) ==
  LET stranded == {n \in RootsOf(s) \ {s.plan.opTrue, s.plan.opFalse} :
                     s.node[n].out = [b \in 0..1 |-> NULL]}
  IN  [s EXCEPT !.node = [n \in DOMAIN s.node |->
         IF n \in stranded THEN [s.node[n] EXCEPT !.passive = TRUE]
         ELSE IF n = s.plan.opFalse THEN [s.node[n] EXCEPT !.dead = stranded # {}]
         ELSE s.node[n]]]

Disable == At("disable") /\ Go(Clearing(DisableStranded(State), "finish"), "clear")

(* Mutant: the number of the root pipe is counted up. *)
MarkRootsConstNext(s) ==
  [s EXCEPT !.node = [n \in DOMAIN s.node |->
     IF s.node[n].root /\ s.node[n].plan = Here
     THEN [s.node[n] EXCEPT !.const = TRUE, !.rootFifo = @ + 1] ELSE s.node[n]]]

(* Without a source, the roots of this plan are given one row. *)
MarkRootsConst(s) ==
  LET roots == {n \in RootsOf(s) : s.node[n].plan = Here /\ s.node[n].action # "read"}
  IN  [s EXCEPT !.node = [n \in DOMAIN s.node |->
         IF n \in roots
         THEN [s.node[n] EXCEPT !.const = TRUE, !.rootFifo = IF @ = -1 THEN 0 ELSE @]
         ELSE s.node[n]]]

(* The end of _build: the values used join the graph, one by one. *)
ConsumeConst ==
  /\ At("finish") /\ self.i <= Len(self.constPlans)
  /\ Go(Further([State EXCEPT !.plan.graph = @ \o plans[self.constPlans[self.i]].graph]), "finish")

(* It returns to its caller. *)
Finish ==
  /\ At("finish") /\ self.i > Len(self.constPlans)
  /\ LET all      == GetRoots(State)
         marked   == IF self.query.sources = << >> THEN MarkRootsConst(all) ELSE all
     IN  /\ node' = marked.node
         /\ plans' = [plans EXCEPT ![Here] =
                        [marked.plan EXCEPT !.step = "built", !.isConst =
                           \A n \in RootsOf(marked) : marked.node[n].const]]
  /\ stack' = Tail(stack)
  /\ phase' = IF Len(stack) = 1 THEN "activate" ELSE phase
  /\ UNCHANGED <<query, wiring>>

-----------------------------------------------------------------------------
(* The main plan: pipes, counts, order. *)

graph == Range(main.graph)
roots == Kept(main.graph, {n \in graph : node[n].root})

(* The input pipes of n are <<n, 0>> and <<n, 1>>; <<n, 2>> is the pipe made for a union
   member that ends in n. *)
NoPipe == <<NULL, 0>>

unionEnds == UNION {Range(node[n].unionEnds) : n \in graph}

Activate ==
  /\ phase = "activate" /\ phase' = "pipes"
  /\ fifoOut' = [n \in DOMAIN node |->
                   [b \in 0..1 |-> IF b = 0 /\ n \in unionEnds THEN <<n, 2>> ELSE NoPipe]]
  /\ UNCHANGED <<query, node, plans, stack, inputCount, trav, rootIdx, order>>

Both(n) == [b \in 0..1 |-> <<n, b>>]

(* Mutant: the read of the other side of a join writes to input 0. *)
InputSideFirst(n) == 0

(* The input that n writes to, if it has no other instructions. *)
InputSide(n) == IF node[n].secondary THEN 1 ELSE 0

(* Mutant: the two inputs of a process are not told apart. *)
DualLinkNever(m) == FALSE

(* Both outputs of a process lead to m, each to an input of its own. *)
DualLink(m) == m # NULL /\ node[m].dual

Pipes(n) ==
  LET to == node[n].out
  IN  IF DualLink(to[0]) THEN Both(to[0]) ELSE IF DualLink(to[1]) THEN Both(to[1])
      ELSE [b \in 0..1 |-> IF to[b] = NULL THEN fifoOut[n][b] ELSE <<to[b], InputSide(n)>>]

(* dgraph_traverse_reset *)
Reset(next) ==
  /\ phase' = next
  /\ node' = [n \in DOMAIN node |-> [node[n] EXCEPT !.visits = 0]]
  /\ trav' = <<roots[1]>> /\ rootIdx' = 2

MakePipes ==
  /\ phase = "pipes" /\ Reset("count")
  /\ fifoOut' = [n \in DOMAIN node |-> IF n \in graph THEN Pipes(n) ELSE fifoOut[n]]
  /\ UNCHANGED <<query, plans, stack, inputCount, order>>

Traversing == phase \in {"count", "order"}
RootsLeft == trav = << >> /\ rootIdx <= Len(roots)

(* Mutant: a root that has been reached already ends the traversal. *)
NextRootEnds ==
  /\ Traversing /\ RootsLeft
  /\ LET fresh == node[roots[rootIdx]].visits = 0
     IN  /\ rootIdx' = IF fresh THEN rootIdx + 1 ELSE Len(roots) + 1
         /\ trav' = IF fresh THEN <<roots[rootIdx]>> ELSE trav
  /\ UNCHANGED <<query, node, plans, stack, phase, fifoOut, inputCount, order>>

(* Mutant: a root that has been reached already is not passed over. *)
NextRootStuck ==
  /\ Traversing /\ RootsLeft
  /\ node[roots[rootIdx]].visits = 0
  /\ trav' = <<roots[rootIdx]>> /\ rootIdx' = rootIdx + 1
  /\ UNCHANGED <<query, node, plans, stack, phase, fifoOut, inputCount, order>>

NextRoot ==
  /\ Traversing /\ RootsLeft /\ rootIdx' = rootIdx + 1
  /\ trav' = IF node[roots[rootIdx]].visits = 0 THEN <<roots[rootIdx]>> ELSE trav
  /\ UNCHANGED <<query, node, plans, stack, phase, fifoOut, inputCount, order>>

Visit ==
  /\ Traversing /\ trav # << >>
  /\ LET n      == Head(trav)
         fresh(m) == IF m \in {NULL, n} \/ node[m].visits > 0 THEN << >> ELSE <<m>>
     IN  /\ node' = [node EXCEPT ![n].visits = @ + 1]
         /\ trav' = Tail(trav) \o fresh(node[n].out[0]) \o fresh(node[n].out[1])
         /\ order' = IF phase = "order" THEN Append(order, n) ELSE order
  /\ UNCHANGED <<query, plans, stack, phase, fifoOut, inputCount, rootIdx>>

Traversed == trav = << >> /\ rootIdx > Len(roots)

(* Stops at the first node that was not visited. *)
UpdatePipes ==
  /\ phase = "count" /\ Traversed /\ Reset("order")
  /\ LET reached(k) == \A j \in 1..k : node[main.graph[j]].visits > 0
     IN  inputCount' = [n \in DOMAIN node |->
           IF \E k \in DOMAIN main.graph : main.graph[k] = n /\ reached(k)
           THEN node[n].visits ELSE 0]
  /\ UNCHANGED <<query, plans, stack, fifoOut, order>>

Ordered ==
  /\ phase = "order" /\ Traversed /\ phase' = "done"
  /\ UNCHANGED <<query, node, plans, stack, wiring>>

Init ==
  /\ query \in Queries
  /\ node = << >> /\ plans = <<NewPlan(query, NULL, FALSE)>> /\ stack = <<1>>
  /\ phase = "build" /\ fifoOut = << >> /\ inputCount = << >>
  /\ trav = << >> /\ rootIdx = 0 /\ order = << >>

Build ==
  \/ BuildConst \/ Construct \/ FromTable \/ FromSubquery \/ FromConsumed
  \/ JoinTable \/ JoinSubquery \/ JoinConsumed \/ CartesianJoin
  \/ Where \/ Group \/ Having \/ Operation
  \/ Relink \/ Clear \/ Roots \/ BuildUnion \/ UnionConsumed \/ Order
  \/ Disable \/ ConsumeConst \/ Finish

Wire ==
  \/ Activate \/ MakePipes \/ NextRoot \/ Visit \/ UpdatePipes \/ Ordered

Next == Build \/ Wire

Spec == Init /\ [][Next]_vars
FairSpec == Spec /\ WF_vars(Next)

-----------------------------------------------------------------------------
(* The statements for which _build keeps wait lists and union ends inside the graph. *)

(* A query that reads nothing. *)
Constant(q) == q.sources = << >> /\ q.consts = << >> /\ q.unions = << >>

(* The last process in front of the operation of q is not a passive one. *)
EndsInProcess(q) == ~q.having /\ (q.group \/ q.distinct \/ (Len(q.sources) = 1 /\ ~q.where))

Member(q) == ~q.order /\ (Constant(q) \/ EndsInProcess(q))

SubqueriesOf(q) ==
  {q.sources[k].query : k \in {j \in DOMAIN q.sources : q.sources[j].kind = "subquery"}}

(* The queries that have no values and no unions, at any depth. *)
Valueless ==
  UNION {S \in SUBSET Nested :
           \A q \in S : q.consts = << >> /\ q.unions = << >> /\ SubqueriesOf(q) \subseteq S}

(* What the grammar allows, less the shapes in which a reference is lost: a member of a
   union has no ORDER BY of its own and ends in a process, and the sources of a DELETE are
   without values. *)
Supported ==
  /\ \A q \in Nested : q.op = "select"
  /\ \A q \in Queries \cup Nested : \A k \in DOMAIN q.unions : Member(q.unions[k])
  /\ \A q \in Queries : q.op = "delete" => q.unions = << >> /\ SubqueriesOf(q) \subseteq Valueless

-----------------------------------------------------------------------------
(* Properties. *)

Writers(pipe) == {n \in graph : \E b \in 0..1 : fifoOut[n][b] = pipe}

(* Every field has a value of its kind, edges lead to nodes that exist, and a plan of the
   stack has not been built. *)
TypeOK ==
  /\ \A n \in DOMAIN node :
       /\ \A b \in 0..1 : node[n].out[b] \in {NULL} \cup DOMAIN node
       /\ node[n].waits \subseteq DOMAIN node
       /\ node[n].rootFifo \in {-1, 0, 1}
  /\ \A p \in DOMAIN plans :
       /\ Range(plans[p].graph) \subseteq DOMAIN node
       /\ plans[p].step = "built" <=> p \notin Range(stack)
  /\ phase \in {"build", "activate", "pipes", "count", "order", "done", "failed"}
  /\ phase \in {"build", "failed"} <=> stack # << >>

(* Nothing that runs refers to a process that _clear_passive has freed, or to one that is
   not in the graph: not by an edge, not as the end of a union, not in a wait list (the
   comment at fqlplan.c:643). *)
NoDangling ==
  phase \notin {"build", "failed"} =>
    \A n \in graph :
      /\ ~node[n].freed
      /\ ({node[n].out[b] : b \in 0..1} \ {NULL}) \cup node[n].waits
           \cup Range(node[n].unionEnds) \subseteq graph

(* An input that has no writer: a root pipe, the closed or dead one of a rewrite, and that
   of GROUP BY without a source. *)
NoWriter(n, side) ==
  \/ node[n].rootFifo = side
  \/ side = 0 /\ \/ node[n].killed \/ node[n].dead
                 \/ node[n].action = "groupby" /\ node[n].const

(* Every other input pipe has one process that writes it.  That is the assumption under
   which module Fifo is right to test for room with the state it read before; a pipe with
   no writer is never closed, and its reader waits for ever. *)
OneWriter ==
  phase \in {"count", "order", "done"} =>
    \A n \in graph : \A side \in 0..(IF node[n].second THEN 1 ELSE 0) :
      Cardinality(Writers(<<n, side>>)) = (IF NoWriter(n, side) THEN 0 ELSE 1)

(* Where a process sends the rows that pass it, and where those that fail its test. *)
Branches(n) == node[n].action \in {"hash_join", "logic", "left_join_logic"}
TrueOut(n)  == fifoOut[n][IF Branches(n) THEN 1 ELSE 0]
Rejects(n)  == node[n].action = "logic" \/ (node[n].action = "hash_join" /\ ~node[n].left)

(* Where the rows of plan p must go that pass everything, and those that fail. *)
Rewriter == {n \in graph : node[n].action \in {"delete", "update", "delete_filter", "update_filter"}}
Accepted(p) ==
  LET q == plans[p].query
  IN  IF q.op = "delete" /\ Len(q.sources) = 1 THEN NoPipe
      ELSE IF q.op \in {"delete", "update"} THEN <<CHOOSE n \in Rewriter : TRUE, 1>>
      ELSE IF plans[p].isUnion THEN <<Last(plans[p].stages), 2>>
      ELSE IF plans[p].entry # NULL THEN <<plans[p].entry, 0>>
      ELSE NoPipe
Rejected(p) ==
  IF plans[p].query.op \in {"delete", "update"}
  THEN <<CHOOSE n \in Rewriter : TRUE, 0>> ELSE NoPipe

(* A row that passes a clause goes to the next one, whatever clauses there are between;
   one that passes them all goes to the reader of the plan; and one that DELETE or UPDATE
   leaves alone is sent to the process that writes the new table. *)
Routed ==
  phase \in {"count", "order", "done"} =>
    \A p \in DOMAIN plans : \A k \in DOMAIN plans[p].stages :
      LET n    == plans[p].stages[k]
          last == k = Len(plans[p].stages)
      IN  /\ n \in graph \/ (plans[p].query.op = "delete" /\ ~plans[p].query.where)
          /\ n \in graph =>
               /\ TrueOut(n) = IF last THEN Accepted(p) ELSE <<plans[p].stages[k + 1], 0>>
               /\ Rejects(n) => fifoOut[n][0] = Rejected(p)

(* The traversal finds every process ("This should be impossible", fqlplan.c:690, if not):
   a process that it misses is never called, and its pipes have no input count. *)
AllScheduled ==
  phase = "done" => Range(order) = graph /\ \A n \in graph : inputCount[n] > 0

(* What is left of S when nodes on which no other of S depends are taken away, until there
   is no such node. *)
Knot(S) ==
  LET Free(T) == {n \in T : /\ {node[n].out[b] : b \in 0..1} \cap T = {}
                            /\ \A m \in T : n \notin node[m].waits}
      left[k \in 0..Cardinality(S)] ==
        IF k = 0 THEN S ELSE LET T == left[k - 1] IN T \ Free(T)
  IN  left[Cardinality(S)]

(* No process waits, through pipes and wait lists, for one that waits for it. *)
NoWaitCycle == phase = "done" => Knot(graph) = {}

(* Every value that an expression uses is waited for by some process. *)
Awaited ==
  phase = "done" =>
    \A p \in DOMAIN plans : \A k \in DOMAIN plans[p].constPlans :
      \E n \in graph : plans[plans[p].constPlans[k]].opTrue \in node[n].waits

(* A statement is planned or refused. *)
Planned == <>(phase \in {"done", "failed"})
=============================================================================
