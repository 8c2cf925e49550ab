--------------------------- MODULE PlanGraphProofs ---------------------------
(***************************************************************************)
(* Proofs about PlanGraph for every statement and every nesting: types,    *)
(* the traversal, and the edges of a plan.                                 *)
(***************************************************************************)
EXTENDS PlanGraph, SequenceTheorems, WellFoundedInduction, TLAPS

-----------------------------------------------------------------------------
(* The types of nodes and plans when there are K nodes. *)

Statements == Queries \cup Nested

Actions ==
  Operations \cup {"no_op", "read", "hash_join", "cartesian_join", "logic", "left_join_logic",
                   "groupby", "distinct", "orderby", "update_filter", "delete_filter"}

CallSteps == {"from subquery", "join subquery", "union member"}
GoSteps   == {"from", "group", "having", "operation", "clear", "roots", "union", "disable", "finish"}
Steps     == {"consts", "built"} \cup CallSteps \cup GoSteps

NodeOf(K) ==
  [plan : Nat, action : Actions, passive : BOOLEAN, out : [0..1 -> 0..K], root : BOOLEAN,
   rootFifo : {-1, 0, 1}, secondary : BOOLEAN, dual : BOOLEAN, second : BOOLEAN,
   const : BOOLEAN, killed : BOOLEAN, dead : BOOLEAN, left : BOOLEAN, unionEnds : Seq(Nat),
   waits : SUBSET (1..K), freed : BOOLEAN, visits : Nat]

PlanOf(K) ==
  [query : Statements, entry : 0..K, isUnion : BOOLEAN, step : Steps,
   next : {"union", "disable", "finish"}, i : Nat \ {0}, graph : Seq(1..K), current : 0..K,
   opTrue : 0..K, opFalse : 0..K, isConst : BOOLEAN, constPlans : Seq(Nat), child : Nat,
   stages : Seq(Nat)]

StateOf(K) == [node : Seq(NodeOf(K)), plan : PlanOf(K)]

-----------------------------------------------------------------------------
LEMMA NodeOfGrows ==
  ASSUME NEW K \in Nat, NEW L \in Nat, K <= L
  PROVE  NodeOf(K) \subseteq NodeOf(L)
BY DEF NodeOf

LEMMA PlanOfGrows ==
  ASSUME NEW K \in Nat, NEW L \in Nat, K <= L
  PROVE  PlanOf(K) \subseteq PlanOf(L)
<1>1. Seq(1..K) \subseteq Seq(1..L)
  OBVIOUS
<1>2. QED
  BY <1>1 DEF PlanOf

LEMMA StateOfGrows ==
  ASSUME NEW K \in Nat, NEW L \in Nat, K <= L
  PROVE  StateOf(K) \subseteq StateOf(L)
<1>1. Seq(NodeOf(K)) \subseteq Seq(NodeOf(L))
  BY NodeOfGrows
<1>2. QED
  BY <1>1, PlanOfGrows DEF StateOf

(* What has a node for each of a sequence of nodes is a sequence of nodes. *)
LEMMA MapType ==
  ASSUME NEW S, NEW seq \in Seq(S), NEW f, DOMAIN f = DOMAIN seq, f = [n \in DOMAIN f |-> f[n]],
         \A n \in DOMAIN seq : f[n] \in S
  PROVE  f \in Seq(S) /\ Len(f) = Len(seq)
<1>1. Len(seq) \in Nat /\ DOMAIN seq = 1..Len(seq)
  BY LenProperties
<1>2. f \in [1..Len(seq) -> S]
  BY <1>1
<1>3. QED
  BY <1>1, <1>2

LEMMA OutType ==
  ASSUME NEW K \in Nat, NEW e0 \in 0..K, NEW e1 \in 0..K
  PROVE  [b \in 0..1 |-> IF b = 0 THEN e0 ELSE e1] \in [0..1 -> 0..K]
OBVIOUS

LEMMA ProcessType ==
  ASSUME NEW K \in Nat, NEW p \in Nat, NEW action \in Actions
  PROVE  Process(p, action) \in NodeOf(K)
<1>1. [b \in 0..1 |-> NULL] \in [0..1 -> 0..K]
  BY DEF NULL
<1>2. << >> \in Seq(Nat) /\ {} \in SUBSET (1..K)
  OBVIOUS
<1>3. QED
  BY <1>1, <1>2 DEF Process, NodeOf

LEMMA PassiveType ==
  ASSUME NEW K \in Nat, NEW p \in Nat
  PROVE  Passive(p) \in NodeOf(K)
<1>1. Process(p, "no_op") \in NodeOf(K)
  BY ProcessType DEF Actions
<1>2. QED
  BY <1>1 DEF Passive, NodeOf

(* A field of a node can be given any value of its type. *)
LEMMA NodeFields ==
  ASSUME NEW K \in Nat, NEW n \in NodeOf(K)
  PROVE  /\ \A action \in Actions : [n EXCEPT !.action = action] \in NodeOf(K)
         /\ \A v \in BOOLEAN : /\ [n EXCEPT !.passive = v] \in NodeOf(K)
                               /\ [n EXCEPT !.root = v] \in NodeOf(K)
                               /\ [n EXCEPT !.secondary = v] \in NodeOf(K)
                               /\ [n EXCEPT !.dual = v] \in NodeOf(K)
                               /\ [n EXCEPT !.second = v] \in NodeOf(K)
                               /\ [n EXCEPT !.const = v] \in NodeOf(K)
                               /\ [n EXCEPT !.killed = v] \in NodeOf(K)
                               /\ [n EXCEPT !.dead = v] \in NodeOf(K)
                               /\ [n EXCEPT !.left = v] \in NodeOf(K)
                               /\ [n EXCEPT !.freed = v] \in NodeOf(K)
         /\ \A v \in {-1, 0, 1} : [n EXCEPT !.rootFifo = v] \in NodeOf(K)
         /\ \A v \in Seq(Nat) : [n EXCEPT !.unionEnds = v] \in NodeOf(K)
         /\ \A v \in SUBSET (1..K) : [n EXCEPT !.waits = v] \in NodeOf(K)
         /\ \A v \in Nat : [n EXCEPT !.visits = v] \in NodeOf(K)
         /\ \A v \in [0..1 -> 0..K] : [n EXCEPT !.out = v] \in NodeOf(K)
<1>1. \A action \in Actions : [n EXCEPT !.action = action] \in NodeOf(K)
  BY DEF NodeOf
<1>2. \A v \in BOOLEAN : /\ [n EXCEPT !.passive = v] \in NodeOf(K)
                         /\ [n EXCEPT !.root = v] \in NodeOf(K)
                         /\ [n EXCEPT !.secondary = v] \in NodeOf(K)
                         /\ [n EXCEPT !.dual = v] \in NodeOf(K)
                         /\ [n EXCEPT !.second = v] \in NodeOf(K)
  BY ZenonT(60) DEF NodeOf
<1>3. \A v \in BOOLEAN : /\ [n EXCEPT !.const = v] \in NodeOf(K)
                         /\ [n EXCEPT !.killed = v] \in NodeOf(K)
                         /\ [n EXCEPT !.dead = v] \in NodeOf(K)
                         /\ [n EXCEPT !.left = v] \in NodeOf(K)
                         /\ [n EXCEPT !.freed = v] \in NodeOf(K)
  <2> SUFFICES ASSUME NEW v \in BOOLEAN
               PROVE  /\ [n EXCEPT !.const = v] \in NodeOf(K)
                      /\ [n EXCEPT !.killed = v] \in NodeOf(K)
                      /\ [n EXCEPT !.dead = v] \in NodeOf(K)
                      /\ [n EXCEPT !.left = v] \in NodeOf(K)
                      /\ [n EXCEPT !.freed = v] \in NodeOf(K)
    OBVIOUS
  <2>1. [n EXCEPT !.const = v] \in NodeOf(K) /\ [n EXCEPT !.killed = v] \in NodeOf(K)
    BY DEF NodeOf
  <2>2. [n EXCEPT !.dead = v] \in NodeOf(K) /\ [n EXCEPT !.left = v] \in NodeOf(K)
    BY DEF NodeOf
  <2>3. [n EXCEPT !.freed = v] \in NodeOf(K)
    BY DEF NodeOf
  <2>4. QED
    BY <2>1, <2>2, <2>3
<1>4. \A v \in {-1, 0, 1} : [n EXCEPT !.rootFifo = v] \in NodeOf(K)
  BY DEF NodeOf
<1>5. \A v \in Seq(Nat) : [n EXCEPT !.unionEnds = v] \in NodeOf(K)
  BY DEF NodeOf
<1>6. \A v \in SUBSET (1..K) : [n EXCEPT !.waits = v] \in NodeOf(K)
  BY DEF NodeOf
<1>7. \A v \in Nat : [n EXCEPT !.visits = v] \in NodeOf(K)
  BY DEF NodeOf
<1>8. \A v \in [0..1 -> 0..K] : [n EXCEPT !.out = v] \in NodeOf(K)
  BY DEF NodeOf
<1>9. QED
  BY <1>1, <1>2, <1>3, <1>4, <1>5, <1>6, <1>7, <1>8

LEMMA StateParts ==
  ASSUME NEW K \in Nat, NEW s \in StateOf(K)
  PROVE  /\ s.node \in Seq(NodeOf(K)) /\ s.plan \in PlanOf(K)
         /\ Len(s.node) \in Nat /\ DOMAIN s.node = 1..Len(s.node)
BY LenProperties DEF StateOf

LEMMA AddType ==
  ASSUME NEW K \in Nat, NEW s \in StateOf(K), NEW process \in NodeOf(K), Len(s.node) < K
  PROVE  /\ Add(s, process) \in StateOf(K)
         /\ Len(Add(s, process).node) = Len(s.node) + 1
         /\ Add(s, process).plan = [s.plan EXCEPT !.graph = Append(@, Newest(s) + 1)]
<1>1. Append(s.node, process) \in Seq(NodeOf(K)) /\ Len(Append(s.node, process)) = Len(s.node) + 1
  BY StateParts
<1>2. Newest(s) + 1 \in 1..K /\ s.plan.graph \in Seq(1..K)
  BY StateParts DEF Newest, PlanOf
<1>3. Append(s.plan.graph, Newest(s) + 1) \in Seq(1..K)
  BY <1>2
<1>4. [s.plan EXCEPT !.graph = Append(@, Newest(s) + 1)] \in PlanOf(K)
  <2> DEFINE g == Append(s.plan.graph, Newest(s) + 1)
  <2>1. g \in Seq(1..K) /\ s.plan \in PlanOf(K)
    BY <1>3, StateParts
  <2> HIDE DEF g
  <2>2. [s.plan EXCEPT !.graph = g] \in PlanOf(K)
    BY <2>1 DEF PlanOf
  <2>3. QED
    BY <2>2 DEF g
<1>5. QED
  BY <1>1, <1>4 DEF StateOf, Add

LEMMA LinkType ==
  ASSUME NEW K \in Nat, NEW s \in StateOf(K), NEW from, NEW branch \in 0..1, NEW to \in 0..K
  PROVE  /\ Link(s, from, branch, to) \in StateOf(K)
         /\ Len(Link(s, from, branch, to).node) = Len(s.node)
         /\ Link(s, from, branch, to).plan = s.plan
<1> DEFINE f == [s.node EXCEPT ![from].out[branch] = to]
<1>1. ASSUME NEW n \in DOMAIN s.node
      PROVE  f[n] \in NodeOf(K)
  <2>1. s.node[n] \in NodeOf(K)
    BY StateParts, ElementOfSeq
  <2>2. s.node[n].out \in [0..1 -> 0..K]
    BY <2>1 DEF NodeOf
  <2>3. [s.node[n].out EXCEPT ![branch] = to] \in [0..1 -> 0..K]
    BY <2>2
  <2>4. [s.node[n] EXCEPT !.out = [s.node[n].out EXCEPT ![branch] = to]] \in NodeOf(K)
    BY <2>1, <2>3, NodeFields
  <2>5. f[n] = IF n = from THEN [s.node[n] EXCEPT !.out = [s.node[n].out EXCEPT ![branch] = to]]
               ELSE s.node[n]
    OBVIOUS
  <2>6. QED
    BY <2>1, <2>4, <2>5
<1>2. f \in Seq(NodeOf(K)) /\ Len(f) = Len(s.node)
  <2>1. DOMAIN f = DOMAIN s.node /\ f = [n \in DOMAIN f |-> f[n]]
    OBVIOUS
  <2> HIDE DEF f
  <2>2. QED
    BY <1>1, <2>1, MapType, StateParts
<1>3. QED
  BY <1>2, StateParts DEF StateOf, Link

-----------------------------------------------------------------------------
(* State t is s with d nodes more, still of the same query, and fits K nodes. *)
From(t, s, K, d) ==
  /\ t \in StateOf(K) /\ Len(t.node) = Len(s.node) + d
  /\ t.plan.query = s.plan.query /\ t.plan.constPlans = s.plan.constPlans
  /\ s.plan.opTrue # NULL => t.plan.opTrue # NULL

LEMMA FromTrans ==
  ASSUME NEW K \in Nat, NEW s \in StateOf(K), NEW t, NEW u, NEW d \in Nat, NEW e \in Nat,
         From(t, s, K, d), From(u, t, K, e)
  PROVE  From(u, s, K, d + e)
<1>1. Len(s.node) \in Nat
  BY StateParts
<1>2. Len(u.node) = Len(s.node) + (d + e)
  <2>1. Len(t.node) = Len(s.node) + d /\ Len(u.node) = Len(t.node) + e
    BY DEF From
  <2>2. \A a \in Nat : (a + d) + e = a + (d + e)
    OBVIOUS
  <2>3. QED
    BY <1>1, <2>1, <2>2
<1>3. u.plan.query = s.plan.query /\ u.plan.constPlans = s.plan.constPlans
  BY DEF From
<1>4. s.plan.opTrue # NULL => u.plan.opTrue # NULL
  BY DEF From
<1>5. u \in StateOf(K)
  BY DEF From
<1>6. QED
  BY <1>2, <1>3, <1>4, <1>5 DEF From

LEMMA FromSame ==
  ASSUME NEW K \in Nat, NEW s \in StateOf(K), NEW t, NEW u, NEW d \in Nat,
         From(t, s, K, d), From(u, t, K, 0)
  PROVE  From(u, s, K, d)
<1>1. From(u, s, K, d + 0)
  BY FromTrans
<1>2. d + 0 = d
  OBVIOUS
<1>3. QED
  BY <1>1, <1>2

LEMMA FromSelf ==
  ASSUME NEW K \in Nat, NEW s \in StateOf(K)
  PROVE  From(s, s, K, 0)
BY StateParts DEF From

LEMMA LenType ==
  ASSUME NEW K \in Nat, NEW s \in StateOf(K)
  PROVE  Len(s.node) \in Nat /\ Len(s.node) = Len(s.node) + 0
BY StateParts

LEMMA AddFrom ==
  ASSUME NEW K \in Nat, NEW s \in StateOf(K), NEW process \in NodeOf(K), Len(s.node) < K
  PROVE  From(Add(s, process), s, K, 1)
<1>1. s.plan \in PlanOf(K)
  BY StateParts
<1>2. /\ Add(s, process).plan.query = s.plan.query
      /\ Add(s, process).plan.constPlans = s.plan.constPlans
      /\ Add(s, process).plan.opTrue = s.plan.opTrue
  <2>1. Add(s, process).plan = [s.plan EXCEPT !.graph = Append(@, Newest(s) + 1)]
    BY AddType
  <2>2. QED
    BY <1>1, <2>1 DEF PlanOf
<1>3. QED
  BY <1>2, AddType DEF From

LEMMA LinkFrom ==
  ASSUME NEW K \in Nat, NEW s \in StateOf(K), NEW from, NEW branch \in 0..1, NEW to \in 0..K
  PROVE  From(Link(s, from, branch, to), s, K, 0)
BY LenType, LinkType DEF From

(* The fields of the plan that change on their own. *)
LEMMA PlanFields ==
  ASSUME NEW K \in Nat, NEW s \in StateOf(K)
  PROVE  /\ \A v \in 0..K : From([s EXCEPT !.plan.current = v], s, K, 0)
         /\ \A v \in 0..K : From([s EXCEPT !.plan.opFalse = v], s, K, 0)
         /\ \A v \in 1..K : From([s EXCEPT !.plan.opTrue = v], s, K, 0)
         /\ \A v \in Nat \ {0} : From([s EXCEPT !.plan.i = v], s, K, 0)
         /\ \A v \in {"union", "disable", "finish"} : From([s EXCEPT !.plan.next = v], s, K, 0)
         /\ \A v \in Seq(Nat) : From([s EXCEPT !.plan.stages = v], s, K, 0)
         /\ \A v \in Seq(1..K) : From([s EXCEPT !.plan.graph = v], s, K, 0)
<1> DEFINE Same(t) == t.node = s.node /\ t.plan.query = s.plan.query
                     /\ t.plan.constPlans = s.plan.constPlans
<1>1. \A t \in StateOf(K) : Same(t) /\ (s.plan.opTrue # NULL => t.plan.opTrue # NULL)
                             => From(t, s, K, 0)
  BY LenType DEF From
<1> HIDE DEF Same
<1>2. s \in [node : Seq(NodeOf(K)), plan : PlanOf(K)]
  BY DEF StateOf
<1>3. \A v \in 0..K : From([s EXCEPT !.plan.current = v], s, K, 0)
  <2>1. TAKE v \in 0..K
  <2>2. [s.plan EXCEPT !.current = v] \in PlanOf(K)
    BY <1>2 DEF PlanOf
  <2>3. [s EXCEPT !.plan.current = v] \in StateOf(K)
    BY <1>2, <2>2 DEF StateOf
  <2>4. Same([s EXCEPT !.plan.current = v])
    BY <1>2 DEF PlanOf, Same
  <2>5. s.plan.opTrue # NULL => [s EXCEPT !.plan.current = v].plan.opTrue # NULL
    BY <1>2 DEF PlanOf, NULL
  <2>6. QED
    BY <1>1, <2>3, <2>4, <2>5
<1>4. \A v \in 0..K : From([s EXCEPT !.plan.opFalse = v], s, K, 0)
  <2>1. TAKE v \in 0..K
  <2>2. [s.plan EXCEPT !.opFalse = v] \in PlanOf(K)
    BY <1>2 DEF PlanOf
  <2>3. [s EXCEPT !.plan.opFalse = v] \in StateOf(K)
    BY <1>2, <2>2 DEF StateOf
  <2>4. Same([s EXCEPT !.plan.opFalse = v])
    BY <1>2 DEF PlanOf, Same
  <2>5. s.plan.opTrue # NULL => [s EXCEPT !.plan.opFalse = v].plan.opTrue # NULL
    BY <1>2 DEF PlanOf, NULL
  <2>6. QED
    BY <1>1, <2>3, <2>4, <2>5
<1>5. \A v \in 1..K : From([s EXCEPT !.plan.opTrue = v], s, K, 0)
  <2>1. TAKE v \in 1..K
  <2>2. [s.plan EXCEPT !.opTrue = v] \in PlanOf(K)
    <3>1. v \in 0..K
      OBVIOUS
    <3>2. QED
      BY <1>2, <3>1 DEF PlanOf
  <2>3. [s EXCEPT !.plan.opTrue = v] \in StateOf(K)
    BY <1>2, <2>2 DEF StateOf
  <2>4. Same([s EXCEPT !.plan.opTrue = v])
    BY <1>2 DEF PlanOf, Same
  <2>5. s.plan.opTrue # NULL => [s EXCEPT !.plan.opTrue = v].plan.opTrue # NULL
    BY <1>2 DEF PlanOf, NULL
  <2>6. QED
    BY <1>1, <2>3, <2>4, <2>5
<1>6. \A v \in Nat \ {0} : From([s EXCEPT !.plan.i = v], s, K, 0)
  <2>1. TAKE v \in Nat \ {0}
  <2>2. [s.plan EXCEPT !.i = v] \in PlanOf(K)
    BY <1>2 DEF PlanOf
  <2>3. [s EXCEPT !.plan.i = v] \in StateOf(K)
    BY <1>2, <2>2 DEF StateOf
  <2>4. Same([s EXCEPT !.plan.i = v])
    BY <1>2 DEF PlanOf, Same
  <2>5. s.plan.opTrue # NULL => [s EXCEPT !.plan.i = v].plan.opTrue # NULL
    BY <1>2 DEF PlanOf, NULL
  <2>6. QED
    BY <1>1, <2>3, <2>4, <2>5
<1>7. \A v \in {"union", "disable", "finish"} : From([s EXCEPT !.plan.next = v], s, K, 0)
  <2>1. TAKE v \in {"union", "disable", "finish"}
  <2>2. [s.plan EXCEPT !.next = v] \in PlanOf(K)
    BY <1>2 DEF PlanOf
  <2>3. [s EXCEPT !.plan.next = v] \in StateOf(K)
    BY <1>2, <2>2 DEF StateOf
  <2>4. Same([s EXCEPT !.plan.next = v])
    BY <1>2 DEF PlanOf, Same
  <2>5. s.plan.opTrue # NULL => [s EXCEPT !.plan.next = v].plan.opTrue # NULL
    BY <1>2 DEF PlanOf, NULL
  <2>6. QED
    BY <1>1, <2>3, <2>4, <2>5
<1>8. \A v \in Seq(Nat) : From([s EXCEPT !.plan.stages = v], s, K, 0)
  <2>1. TAKE v \in Seq(Nat)
  <2>2. [s.plan EXCEPT !.stages = v] \in PlanOf(K)
    BY <1>2 DEF PlanOf
  <2>3. [s EXCEPT !.plan.stages = v] \in StateOf(K)
    BY <1>2, <2>2 DEF StateOf
  <2>4. Same([s EXCEPT !.plan.stages = v])
    BY <1>2 DEF PlanOf, Same
  <2>5. s.plan.opTrue # NULL => [s EXCEPT !.plan.stages = v].plan.opTrue # NULL
    BY <1>2 DEF PlanOf, NULL
  <2>6. QED
    BY <1>1, <2>3, <2>4, <2>5
<1>9. \A v \in Seq(1..K) : From([s EXCEPT !.plan.graph = v], s, K, 0)
  <2>1. TAKE v \in Seq(1..K)
  <2>2. [s.plan EXCEPT !.graph = v] \in PlanOf(K)
    BY <1>2 DEF PlanOf
  <2>3. [s EXCEPT !.plan.graph = v] \in StateOf(K)
    BY <1>2, <2>2 DEF StateOf
  <2>4. Same([s EXCEPT !.plan.graph = v])
    BY <1>2 DEF PlanOf, Same
  <2>5. s.plan.opTrue # NULL => [s EXCEPT !.plan.graph = v].plan.opTrue # NULL
    BY <1>2 DEF PlanOf, NULL
  <2>6. QED
    BY <1>1, <2>3, <2>4, <2>5
<1>10. QED
  BY <1>3, <1>4, <1>5, <1>6, <1>7, <1>8, <1>9

(* All nodes change, each within its type. *)
LEMMA NodesFrom ==
  ASSUME NEW K \in Nat, NEW s \in StateOf(K), NEW f, DOMAIN f = DOMAIN s.node,
         f = [n \in DOMAIN f |-> f[n]], \A n \in DOMAIN s.node : f[n] \in NodeOf(K)
  PROVE  From([s EXCEPT !.node = f], s, K, 0)
<1>1. f \in Seq(NodeOf(K)) /\ Len(f) = Len(s.node)
  BY MapType, StateParts
<1>2. [s EXCEPT !.node = f] \in StateOf(K)
  BY <1>1 DEF StateOf
<1>3. [s EXCEPT !.node = f].node = f /\ [s EXCEPT !.node = f].plan = s.plan
  BY DEF StateOf
<1>4. QED
  BY <1>1, <1>2, <1>3, LenType DEF From

(* One node changes, if there is such a node. *)
LEMMA NodeFrom ==
  ASSUME NEW K \in Nat, NEW s \in StateOf(K), NEW m, NEW v,
         m \in DOMAIN s.node => v \in NodeOf(K)
  PROVE  From([s EXCEPT !.node[m] = v], s, K, 0)
<1> DEFINE f == [s.node EXCEPT ![m] = v]
<1>1. \A n \in DOMAIN s.node : f[n] \in NodeOf(K)
  BY StateParts, ElementOfSeq
<1>2. DOMAIN f = DOMAIN s.node /\ f = [n \in DOMAIN f |-> f[n]]
  OBVIOUS
<1>3. From([s EXCEPT !.node = f], s, K, 0)
  <2> HIDE DEF f
  <2>1. QED
    BY <1>1, <1>2, NodesFrom
<1>4. QED
  BY <1>3

(* A field of one node changes. *)
LEMMA NodeFieldFrom ==
  ASSUME NEW K \in Nat, NEW s \in StateOf(K), NEW m
  PROVE  /\ \A v \in Actions : From([s EXCEPT !.node[m].action = v], s, K, 0)
         /\ \A v \in BOOLEAN : From([s EXCEPT !.node[m].passive = v], s, K, 0)
         /\ \A v \in BOOLEAN : From([s EXCEPT !.node[m].secondary = v], s, K, 0)
         /\ \A v \in BOOLEAN : From([s EXCEPT !.node[m].dual = v], s, K, 0)
         /\ \A v \in BOOLEAN : From([s EXCEPT !.node[m].second = v], s, K, 0)
         /\ \A v \in BOOLEAN : From([s EXCEPT !.node[m].killed = v], s, K, 0)
         /\ \A v \in Seq(Nat) : From([s EXCEPT !.node[m].unionEnds = v], s, K, 0)
         /\ \A v \in SUBSET (1..K) : From([s EXCEPT !.node[m].waits = v], s, K, 0)
<1>1. m \in DOMAIN s.node => s.node[m] \in NodeOf(K)
  BY StateParts, ElementOfSeq
<1>2. \A v \in Actions : From([s EXCEPT !.node[m].action = v], s, K, 0)
  <2>1. TAKE v \in Actions
  <2>2. m \in DOMAIN s.node => [s.node[m] EXCEPT !.action = v] \in NodeOf(K)
    BY <1>1, NodeFields
  <2>3. From([s EXCEPT !.node[m] = [s.node[m] EXCEPT !.action = v]], s, K, 0)
    BY <2>2, NodeFrom
  <2>4. QED
    BY <2>3
<1>3. \A v \in BOOLEAN : From([s EXCEPT !.node[m].passive = v], s, K, 0)
  <2>1. TAKE v \in BOOLEAN
  <2>2. m \in DOMAIN s.node => [s.node[m] EXCEPT !.passive = v] \in NodeOf(K)
    BY <1>1, NodeFields
  <2>3. From([s EXCEPT !.node[m] = [s.node[m] EXCEPT !.passive = v]], s, K, 0)
    BY <2>2, NodeFrom
  <2>4. QED
    BY <2>3
<1>4. \A v \in BOOLEAN : From([s EXCEPT !.node[m].secondary = v], s, K, 0)
  <2>1. TAKE v \in BOOLEAN
  <2>2. m \in DOMAIN s.node => [s.node[m] EXCEPT !.secondary = v] \in NodeOf(K)
    BY <1>1, NodeFields
  <2>3. From([s EXCEPT !.node[m] = [s.node[m] EXCEPT !.secondary = v]], s, K, 0)
    BY <2>2, NodeFrom
  <2>4. QED
    BY <2>3
<1>5. \A v \in BOOLEAN : From([s EXCEPT !.node[m].dual = v], s, K, 0)
  <2>1. TAKE v \in BOOLEAN
  <2>2. m \in DOMAIN s.node => [s.node[m] EXCEPT !.dual = v] \in NodeOf(K)
    BY <1>1, NodeFields
  <2>3. From([s EXCEPT !.node[m] = [s.node[m] EXCEPT !.dual = v]], s, K, 0)
    BY <2>2, NodeFrom
  <2>4. QED
    BY <2>3
<1>6. \A v \in BOOLEAN : From([s EXCEPT !.node[m].second = v], s, K, 0)
  <2>1. TAKE v \in BOOLEAN
  <2>2. m \in DOMAIN s.node => [s.node[m] EXCEPT !.second = v] \in NodeOf(K)
    BY <1>1, NodeFields
  <2>3. From([s EXCEPT !.node[m] = [s.node[m] EXCEPT !.second = v]], s, K, 0)
    BY <2>2, NodeFrom
  <2>4. QED
    BY <2>3
<1>7. \A v \in BOOLEAN : From([s EXCEPT !.node[m].killed = v], s, K, 0)
  <2>1. TAKE v \in BOOLEAN
  <2>2. m \in DOMAIN s.node => [s.node[m] EXCEPT !.killed = v] \in NodeOf(K)
    BY <1>1, NodeFields
  <2>3. From([s EXCEPT !.node[m] = [s.node[m] EXCEPT !.killed = v]], s, K, 0)
    BY <2>2, NodeFrom
  <2>4. QED
    BY <2>3
<1>8. \A v \in Seq(Nat) : From([s EXCEPT !.node[m].unionEnds = v], s, K, 0)
  <2>1. TAKE v \in Seq(Nat)
  <2>2. m \in DOMAIN s.node => [s.node[m] EXCEPT !.unionEnds = v] \in NodeOf(K)
    BY <1>1, NodeFields
  <2>3. From([s EXCEPT !.node[m] = [s.node[m] EXCEPT !.unionEnds = v]], s, K, 0)
    BY <2>2, NodeFrom
  <2>4. QED
    BY <2>3
<1>9. \A v \in SUBSET (1..K) : From([s EXCEPT !.node[m].waits = v], s, K, 0)
  <2>1. TAKE v \in SUBSET (1..K)
  <2>2. m \in DOMAIN s.node => [s.node[m] EXCEPT !.waits = v] \in NodeOf(K)
    BY <1>1, NodeFields
  <2>3. From([s EXCEPT !.node[m] = [s.node[m] EXCEPT !.waits = v]], s, K, 0)
    BY <2>2, NodeFrom
  <2>4. QED
    BY <2>3
<1>10. QED
  BY <1>2, <1>3, <1>4, <1>5, <1>6, <1>7, <1>8, <1>9

LEMMA AdvanceFrom ==
  ASSUME NEW K \in Nat, NEW s \in StateOf(K), NEW to \in 0..K
  PROVE  From(Advance(s, to), s, K, 0)
<1> DEFINE t == Link(s, s.plan.current, 0, to)
<1>1. From(t, s, K, 0)
  BY LinkFrom
<1>2. t \in StateOf(K)
  BY <1>1 DEF From
<1> HIDE DEF t
<1>3. From([t EXCEPT !.plan.current = to], t, K, 0)
  BY <1>2, PlanFields
<1>4. From([t EXCEPT !.plan.current = to], s, K, 0 + 0)
  BY <1>1, <1>3, FromTrans
<1>5. QED
  BY <1>4 DEF Advance, t

LEMMA StageFrom ==
  ASSUME NEW K \in Nat, NEW s \in StateOf(K), NEW n \in Nat
  PROVE  From(Stage(s, n), s, K, 0)
<1>1. Append(s.plan.stages, n) \in Seq(Nat)
  BY StateParts DEF PlanOf
<1>2. QED
  BY <1>1, PlanFields DEF Stage

LEMMA FurtherFrom ==
  ASSUME NEW K \in Nat, NEW s \in StateOf(K)
  PROVE  From(Further(s), s, K, 0)
<1>1. s.plan.i + 1 \in Nat \ {0}
  BY StateParts DEF PlanOf
<1>2. QED
  BY <1>1, PlanFields DEF Further

LEMMA ClearingFrom ==
  ASSUME NEW K \in Nat, NEW s \in StateOf(K), NEW next \in {"union", "disable", "finish"}
  PROVE  From(Clearing(s, next), s, K, 0)
<1> DEFINE t == [s EXCEPT !.plan.i = 1]
<1>1. From(t, s, K, 0)
  <2>1. 1 \in Nat \ {0}
    OBVIOUS
  <2>2. QED
    BY <2>1, PlanFields
<1>2. t \in StateOf(K)
  BY <1>1 DEF From
<1>3. From([t EXCEPT !.plan.next = next], t, K, 0)
  <2> HIDE DEF t
  <2>1. QED
    BY <1>2, PlanFields
<1>4. From([t EXCEPT !.plan.next = next], s, K, 0 + 0)
  BY <1>1, <1>3, FromTrans
<1>5. Clearing(s, next) = [t EXCEPT !.plan.next = next]
  BY DEF Clearing
<1>6. QED
  BY <1>4, <1>5

LEMMA BypassFrom ==
  ASSUME NEW K \in Nat, NEW s \in StateOf(K), K = Len(s.node), NEW n \in 1..K,
         \E b \in 0..1 : ToPassive(s, n, b)
  PROVE  From(Bypass(s, n), s, K, 0)
<1>1. ASSUME NEW m \in 1..K
      PROVE  s.node[m].out \in [0..1 -> 0..K]
  <2>1. s.node[m] \in NodeOf(K)
    BY StateParts, ElementOfSeq
  <2>2. QED
    BY <2>1 DEF NodeOf
<1> DEFINE b == IF ToPassive(s, n, 0) THEN 0 ELSE 1
           m == s.node[n].out[b]
<1>2. b \in 0..1 /\ ToPassive(s, n, b)
  OBVIOUS
<1>3. m # 0
  BY <1>2 DEF ToPassive, NULL
<1> HIDE DEF b
<1>4. m \in 1..K
  <2>1. s.node[n].out[b] \in 0..K
    BY <1>1, <1>2
  <2>2. QED
    BY <1>3, <2>1
<1>5. Onward(s.node[m], b) \in 0..K
  <2>1. s.node[m].out[0] \in 0..K /\ s.node[m].out[1] \in 0..K
    <3>1. s.node[m].out \in [0..1 -> 0..K]
      BY <1>1, <1>4
    <3>2. 0 \in 0..1 /\ 1 \in 0..1
      OBVIOUS
    <3>3. QED
      BY ONLY <3>1, <3>2
  <2>2. QED
    BY <2>1 DEF Onward
<1>6. From(Link(s, n, b, Onward(s.node[m], b)), s, K, 0)
  BY <1>2, <1>5, LinkFrom
<1>7. QED
  BY <1>6 DEF Bypass, b

-----------------------------------------------------------------------------
(* The part of a sequence that is in a set. *)

LEMMA LeastOf ==
  ASSUME NEW S \in SUBSET Nat, S # {}
  PROVE  \E m \in S : \A n \in S : m <= n
<1>1. PICK m \in S : \A n \in S : <<n, m>> \notin OpToRel(<, Nat)
  BY NatLessThanWellFounded, WFMin
<1>2. \A n \in S : ~(n < m)
  BY <1>1 DEF OpToRel
<1>3. QED
  BY <1>2

(* The elements after the first k have been looked at. *)
KeptNext(f, seq, S, k) ==
  IF k = 0 THEN << >> ELSE IF seq[k] \in S THEN Append(f[k - 1], seq[k]) ELSE f[k - 1]

KeptIs(f, seq, S, m) == f = [k \in 0..m |-> KeptNext(f, seq, S, k)]

LEMMA KeptExists ==
  ASSUME NEW seq, NEW S, NEW n \in Nat
  PROVE  \E f : KeptIs(f, seq, S, n)
<1> DEFINE Bad == {m \in Nat : ~ \E f : KeptIs(f, seq, S, m)}
<1>1. SUFFICES ASSUME Bad # {} PROVE FALSE
  OBVIOUS
<1>2. PICK m \in Bad : \A k \in Bad : m <= k
  BY <1>1, LeastOf
<1>3. CASE m = 0
  <2> DEFINE g == [k \in 0..0 |-> << >>]
  <2>1. g = [k \in 0..0 |-> KeptNext(g, seq, S, k)]
    BY DEF KeptNext
  <2>2. QED
    BY <1>2, <1>3, <2>1 DEF KeptIs
<1>4. CASE m # 0
  <2>1. m - 1 \in Nat /\ m - 1 \notin Bad
    BY <1>2, <1>4
  <2>2. PICK f : KeptIs(f, seq, S, m - 1)
    BY <2>1
  <2> DEFINE g == [k \in 0..m |-> IF k = m THEN KeptNext(f, seq, S, m) ELSE f[k]]
  <2>3. ASSUME NEW k \in 0..m
        PROVE  g[k] = KeptNext(g, seq, S, k)
    <3>1. CASE k = 0
      <4>1. g[k] = f[0] /\ f[0] = KeptNext(f, seq, S, 0)
        BY <1>4, <2>1, <2>2, <3>1 DEF KeptIs
      <4>2. QED
        BY <3>1, <4>1 DEF KeptNext
    <3>2. CASE k # 0
      <4>1. k - 1 \in 0..(m - 1) /\ g[k - 1] = f[k - 1]
        BY <2>1, <3>2
      <4>2. g[k] = KeptNext(f, seq, S, k)
        BY <2>1, <2>2 DEF KeptIs
      <4> HIDE DEF g
      <4>3. QED
        BY <3>2, <4>1, <4>2 DEF KeptNext
    <3>3. QED
      BY <3>1, <3>2
  <2>4. g = [k \in 0..m |-> KeptNext(g, seq, S, k)]
    BY <2>3
  <2>5. KeptIs(g, seq, S, m)
    BY <2>4 DEF KeptIs
  <2>6. QED
    BY <1>2, <2>5
<1>5. QED
  BY <1>3, <1>4

LEMMA RangeOfAppend ==
  ASSUME NEW T, NEW seq \in Seq(T), NEW e \in T
  PROVE  Range(Append(seq, e)) = Range(seq) \cup {e}
<1> DEFINE n   == Len(seq)
           app == Append(seq, e)
<1>1. n \in Nat /\ DOMAIN seq = 1..n /\ DOMAIN app = 1..(n + 1)
  BY AppendProperties, LenProperties
<1>2. /\ \A i \in 1..n : app[i] = seq[i]
      /\ app[n + 1] = e
  BY AppendProperties
<1>3. 1..(n + 1) = (1..n) \cup {n + 1}
  BY <1>1
<1> HIDE DEF n, app
<1>4. {app[i] : i \in 1..(n + 1)} = {seq[i] : i \in 1..n} \cup {e}
  BY <1>2, <1>3
<1>5. QED
  BY <1>1, <1>4 DEF Range, app

LEMMA KeptProperties ==
  ASSUME NEW T, NEW seq \in Seq(T), NEW S
  PROVE  Kept(seq, S) \in Seq(T) /\ Range(Kept(seq, S)) = Range(seq) \cap S
<1>1. Len(seq) \in Nat /\ DOMAIN seq = 1..Len(seq) /\ seq \in [1..Len(seq) -> T]
  BY LenProperties
<1> DEFINE f == CHOOSE f : KeptIs(f, seq, S, Len(seq))
<1>2. Kept(seq, S) = f[Len(seq)]
  BY DEF Kept, KeptIs, KeptNext
<1>3. KeptIs(f, seq, S, Len(seq))
  BY <1>1, KeptExists
<1> HIDE DEF f
<1> DEFINE Good(k) == f[k] \in Seq(T) /\ Range(f[k]) = {seq[j] : j \in 1..k} \cap S
           Bad == {k \in 0..Len(seq) : ~Good(k)}
<1>4. ASSUME Bad # {} PROVE FALSE
  <2>1. Bad \in SUBSET Nat
    OBVIOUS
  <2>2. PICK k \in Bad : \A j \in Bad : k <= j
    BY <1>4, <2>1, LeastOf
  <2>3. f[k] = KeptNext(f, seq, S, k)
    BY <1>1, <1>3, <2>2 DEF KeptIs
  <2>4. CASE k = 0
    <3>1. f[k] = << >>
      BY <2>3, <2>4 DEF KeptNext
    <3>2. Range(<< >>) = {}
      BY DEF Range
    <3>3. {seq[j] : j \in 1..k} = {}
      BY <2>4
    <3>4. Good(k)
      <4>1. << >> \in Seq(T)
        OBVIOUS
      <4>2. f[k] \in Seq(T)
        BY <3>1, <4>1, Zenon
      <4>3. Range(f[k]) = {}
        BY <3>1, <3>2, Zenon
      <4>4. QED
        BY <3>3, <4>2, <4>3
    <3>5. QED
      BY <2>2, <3>4
  <2>5. CASE k # 0
    <3>1. k \in 1..Len(seq) /\ k - 1 \in 0..Len(seq) /\ k - 1 \notin Bad
      <4>1. k \in 0..Len(seq)
        BY <2>2
      <4>2. k \in 1..Len(seq) /\ k - 1 \in 0..Len(seq) /\ ~(k <= k - 1)
        BY <1>1, <2>5, <4>1
      <4>3. QED
        BY <2>2, <4>2
    <3>2. Good(k - 1)
      BY <3>1
    <3>3. seq[k] \in T
      BY <1>1, <3>1
    <3>4. {seq[j] : j \in 1..k} = {seq[j] : j \in 1..(k - 1)} \cup {seq[k]}
      BY <3>1
    <3>5. CASE seq[k] \in S
      <4>1. f[k] = Append(f[k - 1], seq[k])
        BY <2>3, <2>5, <3>5 DEF KeptNext
      <4>2. f[k] \in Seq(T)
        BY <3>2, <3>3, <4>1
      <4>3. Range(f[k]) = Range(f[k - 1]) \cup {seq[k]}
        BY <3>2, <3>3, <4>1, RangeOfAppend
      <4>4. QED
        BY <2>2, <3>2, <3>4, <3>5, <4>2, <4>3
    <3>6. CASE seq[k] \notin S
      <4>1. f[k] = f[k - 1]
        BY <2>3, <2>5, <3>6 DEF KeptNext
      <4>2. QED
        BY <2>2, <3>2, <3>4, <3>6, <4>1
    <3>7. QED
      BY <3>5, <3>6
  <2>6. QED
    BY <2>4, <2>5
<1>5. Good(Len(seq))
  <2>1. Len(seq) \in 0..Len(seq)
    BY <1>1
  <2>2. Len(seq) \notin Bad
    BY <1>4
  <2> HIDE DEF Good
  <2>3. QED
    BY <2>1, <2>2
<1>6. {seq[j] : j \in 1..Len(seq)} = Range(seq)
  BY <1>1 DEF Range
<1>7. QED
  BY <1>2, <1>5, <1>6

-----------------------------------------------------------------------------
(* What the other changes make of a state. *)

LEMMA ConsumeFrom ==
  ASSUME NEW K \in Nat, NEW s \in StateOf(K), plans[s.plan.child].graph \in Seq(1..K)
  PROVE  From(Consume(s), s, K, 0)
<1>1. s.plan.graph \o plans[s.plan.child].graph \in Seq(1..K)
  BY StateParts DEF PlanOf
<1>2. QED
  BY <1>1, PlanFields DEF Consume

LEMMA FreePassiveFrom ==
  ASSUME NEW K \in Nat, NEW s \in StateOf(K)
  PROVE  From(FreePassive(s), s, K, 0)
<1> DEFINE gone == {n \in Range(s.plan.graph) : s.node[n].passive}
           f    == [n \in DOMAIN s.node |-> [s.node[n] EXCEPT !.freed = @ \/ n \in gone]]
           t    == [s EXCEPT !.node = f]
<1>1. ASSUME NEW n \in DOMAIN s.node PROVE f[n] \in NodeOf(K)
  <2>1. s.node[n] \in NodeOf(K)
    BY StateParts, ElementOfSeq
  <2>2. (s.node[n].freed \/ n \in gone) \in BOOLEAN
    OBVIOUS
  <2> HIDE DEF gone
  <2>3. QED
    BY <2>1, <2>2, NodeFields
<1>2. From(t, s, K, 0)
  <2>1. DOMAIN f = DOMAIN s.node /\ f = [n \in DOMAIN f |-> f[n]]
    OBVIOUS
  <2> HIDE DEF f
  <2>2. QED
    BY <1>1, <2>1, NodesFrom
<1>3. t \in StateOf(K) /\ t.plan.graph = s.plan.graph
  <2>1. t \in StateOf(K)
    BY <1>2 DEF From
  <2>2. t.plan = s.plan
    BY DEF StateOf
  <2>3. QED
    BY <2>1, <2>2
<1>4. Kept(s.plan.graph, Range(s.plan.graph) \ gone) \in Seq(1..K)
  <2>1. s.plan.graph \in Seq(1..K)
    BY StateParts DEF PlanOf
  <2>2. QED
    BY <2>1, KeptProperties
<1>5. From([t EXCEPT !.plan.graph = Kept(s.plan.graph, Range(s.plan.graph) \ gone)], t, K, 0)
  <2> HIDE DEF t, gone
  <2>1. QED
    BY <1>3, <1>4, PlanFields
<1>6. From([t EXCEPT !.plan.graph = Kept(s.plan.graph, Range(s.plan.graph) \ gone)], s, K, 0 + 0)
  <2> HIDE DEF t, gone
  <2>1. QED
    BY <1>2, <1>5, FromTrans
<1>7. QED
  BY <1>6 DEF FreePassive

LEMMA GetRootsFrom ==
  ASSUME NEW K \in Nat, NEW s \in StateOf(K)
  PROVE  From(GetRoots(s), s, K, 0)
<1> DEFINE G       == Range(s.plan.graph)
           entered == {s.node[n].out[b] : n \in G, b \in 0..1}
           f       == [n \in DOMAIN s.node |-> [s.node[n] EXCEPT !.root = @ \/ (n \in G /\ n \notin entered)]]
<1>1. ASSUME NEW n \in DOMAIN s.node PROVE f[n] \in NodeOf(K)
  <2>1. s.node[n] \in NodeOf(K)
    BY StateParts, ElementOfSeq
  <2>2. (s.node[n].root \/ (n \in G /\ n \notin entered)) \in BOOLEAN
    OBVIOUS
  <2> HIDE DEF G, entered
  <2>3. QED
    BY <2>1, <2>2, NodeFields
<1>2. From([s EXCEPT !.node = f], s, K, 0)
  <2>1. DOMAIN f = DOMAIN s.node /\ f = [n \in DOMAIN f |-> f[n]]
    OBVIOUS
  <2> HIDE DEF f
  <2>2. QED
    BY <1>1, <2>1, NodesFrom
<1>3. GetRoots(s) = s \/ GetRoots(s) = [s EXCEPT !.node = f]
  BY DEF GetRoots
<1>4. QED
  BY <1>2, <1>3, FromSelf

(* The values that the clauses of the plan use have been built. *)
ValuesBuilt(s, K) ==
  \A k \in DOMAIN s.plan.constPlans : plans[s.plan.constPlans[k]].opTrue \in 1..K

LEMMA WaitListType ==
  ASSUME NEW K \in Nat, NEW s \in StateOf(K), NEW clause, ValuesBuilt(s, K)
  PROVE  WaitList(s, clause) \in SUBSET (1..K)
BY DEF WaitList, ValuesBuilt

LEMMA DeleteTableFrom ==
  ASSUME NEW K \in Nat, NEW s \in StateOf(K)
  PROVE  From(DeleteTable(s), s, K, 0)
<1> DEFINE t == [s EXCEPT !.node[s.plan.opFalse].action = "delete"]
<1>1. From(t, s, K, 0)
  <2>1. "delete" \in Actions
    BY DEF Actions, Operations
  <2>2. QED
    BY <2>1, NodeFieldFrom
<1>2. t \in StateOf(K)
  BY <1>1 DEF From
<1>3. From([t EXCEPT !.node[s.plan.opTrue].passive = TRUE], t, K, 0)
  <2> HIDE DEF t
  <2>1. QED
    BY <1>2, NodeFieldFrom
<1>4. From([t EXCEPT !.node[s.plan.opTrue].passive = TRUE], s, K, 0 + 0)
  <2> HIDE DEF t
  <2>1. QED
    BY <1>1, <1>3, FromTrans
<1>5. QED
  BY <1>4 DEF DeleteTable

LEMMA UpdateTableFrom ==
  ASSUME NEW K \in Nat, NEW s \in StateOf(K)
  PROVE  From(UpdateTable(s), s, K, 0)
<1> DEFINE n  == s.plan.opTrue
           t1 == [s EXCEPT !.node[n].action = "update"]
           t2 == [t1 EXCEPT !.node[n].second = TRUE]
           t3 == [t2 EXCEPT !.node[s.plan.opFalse].passive = TRUE]
           u  == [t3 EXCEPT !.node[n].dual = TRUE]
           v1 == [t3 EXCEPT !.node[s.plan.stages[1]].secondary = TRUE]
           v2 == [v1 EXCEPT !.node[n].killed = TRUE]
<1>1. From(t1, s, K, 0) /\ t1 \in StateOf(K)
  <2>1. "update" \in Actions
    BY DEF Actions, Operations
  <2>2. From(t1, s, K, 0)
    BY <2>1, NodeFieldFrom
  <2>3. QED
    BY <2>2 DEF From
<1> HIDE DEF n, t1
<1>2. From(t2, t1, K, 0) /\ t2 \in StateOf(K)
  <2>1. From(t2, t1, K, 0)
    BY <1>1, NodeFieldFrom
  <2>2. QED
    BY <2>1 DEF From
<1> HIDE DEF t2
<1>3. From(t3, t2, K, 0) /\ t3 \in StateOf(K)
  <2>1. From(t3, t2, K, 0)
    BY <1>2, NodeFieldFrom
  <2>2. QED
    BY <2>1 DEF From
<1> HIDE DEF t3
<1>4. From(u, t3, K, 0)
  BY <1>3, NodeFieldFrom
<1>5. From(v1, t3, K, 0) /\ v1 \in StateOf(K)
  <2>1. From(v1, t3, K, 0)
    BY <1>3, NodeFieldFrom
  <2>2. QED
    BY <2>1 DEF From
<1> HIDE DEF v1
<1>6. From(v2, v1, K, 0)
  BY <1>5, NodeFieldFrom
<1> HIDE DEF u, v2
<1>7. From(t3, s, K, 0)
  BY <1>1, <1>2, <1>3, FromSame
<1>8. From(u, s, K, 0) /\ From(v2, s, K, 0)
  BY <1>4, <1>5, <1>6, <1>7, FromSame
<1>9. UpdateTable(s) = IF s.plan.query.where THEN u ELSE v2
  BY DEF UpdateTable, n, t1, t2, t3, u, v1, v2
<1>10. QED
  BY <1>8, <1>9

LEMMA ApplyOtherFrom ==
  ASSUME NEW K \in Nat, NEW s \in StateOf(K), s.plan.query \in QueryType
  PROVE  From(ApplyOther(s), s, K, 0)
<1> DEFINE t1 == [s EXCEPT !.node[s.plan.opTrue].action = s.plan.query.op]
           t2 == [t1 EXCEPT !.node[s.plan.opFalse].passive = TRUE]
<1>1. From(t1, s, K, 0) /\ t1 \in StateOf(K)
  <2>1. s.plan.query.op \in Actions
    BY DEF Actions, QueryType
  <2>2. From(t1, s, K, 0)
    BY <2>1, NodeFieldFrom
  <2>3. QED
    BY <2>2 DEF From
<1> HIDE DEF t1
<1>2. From(t2, t1, K, 0) /\ t2 \in StateOf(K)
  <2>1. From(t2, t1, K, 0)
    BY <1>1, NodeFieldFrom
  <2>2. QED
    BY <2>1 DEF From
<1> HIDE DEF t2
<1>3. s.plan.opTrue \in Nat
  BY StateParts DEF PlanOf
<1>4. From(Stage(t2, s.plan.opTrue), t2, K, 0)
  BY <1>2, <1>3, StageFrom
<1>5. From(Stage(t2, s.plan.opTrue), s, K, 0)
  BY <1>1, <1>2, <1>4, FromSame
<1>6. QED
  BY <1>5 DEF ApplyOther, t1, t2

LEMMA RewriteJoinFrom ==
  ASSUME NEW K \in Nat, NEW s \in StateOf(K), Len(s.node) < K, Here \in Nat
  PROVE  From(RewriteJoin(s), s, K, 1)
<1> DEFINE update == s.plan.query.op = "update"
           filter == Newest(s) + 1
           p0     == Process(Here, IF update THEN "update_filter" ELSE "delete_filter")
           p1     == [p0 EXCEPT !.dual = TRUE]
           p2     == [p1 EXCEPT !.second = TRUE]
           added  == Add(s, p2)
           half   == Link(added, s.plan.opFalse, 0, filter)
           linked == Link(half, s.plan.opTrue, 0, filter)
           t1     == [linked EXCEPT !.node[s.plan.opFalse].passive = TRUE]
           t2     == [t1 EXCEPT !.node[s.plan.opTrue].passive = TRUE]
<1>1. filter \in 1..K
  BY StateParts DEF Newest
<1>2. p2 \in NodeOf(K)
  <2>1. (IF update THEN "update_filter" ELSE "delete_filter") \in Actions
    BY DEF Actions
  <2>2. p0 \in NodeOf(K)
    BY <2>1, ProcessType
  <2> HIDE DEF p0
  <2>3. p1 \in NodeOf(K)
    BY <2>2, NodeFields
  <2> HIDE DEF p1
  <2>4. QED
    BY <2>3, NodeFields
<1> HIDE DEF p2, filter
<1>3. From(added, s, K, 1) /\ added \in StateOf(K)
  <2>1. From(added, s, K, 1)
    BY <1>2, AddFrom
  <2>2. QED
    BY <2>1 DEF From
<1> HIDE DEF added
<1>4. From(half, added, K, 0) /\ half \in StateOf(K)
  <2>1. From(half, added, K, 0)
    BY <1>1, <1>3, LinkFrom
  <2>2. QED
    BY <2>1 DEF From
<1> HIDE DEF half
<1>5. From(linked, half, K, 0) /\ linked \in StateOf(K)
  <2>1. From(linked, half, K, 0)
    BY <1>1, <1>4, LinkFrom
  <2>2. QED
    BY <2>1 DEF From
<1> HIDE DEF linked
<1>6. From(t1, linked, K, 0) /\ t1 \in StateOf(K)
  <2>1. From(t1, linked, K, 0)
    BY <1>5, NodeFieldFrom
  <2>2. QED
    BY <2>1 DEF From
<1> HIDE DEF t1
<1>7. From(t2, t1, K, 0) /\ t2 \in StateOf(K)
  <2>1. From(t2, t1, K, 0)
    BY <1>6, NodeFieldFrom
  <2>2. QED
    BY <2>1 DEF From
<1>8. t2.plan.opTrue = s.plan.opTrue
  <2>1. added.plan.opTrue = s.plan.opTrue
    <3>1. added.plan = [s.plan EXCEPT !.graph = Append(@, Newest(s) + 1)]
      BY <1>2, AddType DEF added
    <3>2. s.plan \in PlanOf(K)
      BY StateParts
    <3>3. QED
      BY <3>1, <3>2 DEF PlanOf
  <2>2. half.plan = added.plan
    BY <1>1, <1>3, LinkType DEF half
  <2>3. linked.plan = half.plan
    BY <1>1, <1>4, LinkType DEF linked
  <2>4. t1.plan = linked.plan
    BY <1>5 DEF t1, StateOf
  <2>5. t2.plan = t1.plan
    BY <1>6 DEF t2, StateOf
  <2>6. QED
    BY <2>1, <2>2, <2>3, <2>4, <2>5
<1> HIDE DEF t2
<1> DEFINE r == [t2 EXCEPT !.plan.opTrue = IF update THEN filter ELSE @]
<1>9. From(r, t2, K, 0)
  <2>1. CASE update
    <3>1. From([t2 EXCEPT !.plan.opTrue = filter], t2, K, 0)
      BY <1>1, <1>7, PlanFields
    <3>2. QED
      BY <2>1, <3>1
  <2>2. CASE ~update
    <3>1. r.node = t2.node /\ r.plan \in PlanOf(K) /\ r \in StateOf(K)
      BY <1>7, <2>2 DEF StateOf, PlanOf
    <3>2. /\ r.plan.opTrue = t2.plan.opTrue /\ r.plan.query = t2.plan.query
          /\ r.plan.constPlans = t2.plan.constPlans
      BY <1>7, <2>2 DEF StateOf, PlanOf
    <3>3. QED
      BY <1>7, <3>1, <3>2, LenType DEF From
  <2>3. QED
    BY <2>1, <2>2
<1>10. From(r, s, K, 1)
  BY <1>3, <1>4, <1>5, <1>6, <1>7, <1>9, FromSame
<1>11. RewriteJoin(s) = r
  BY DEF RewriteJoin, r, t2, t1, linked, half, added, p2, filter
<1>12. QED
  BY ONLY <1>10, <1>11

(* The process of the operation adds a node for a rewriting behind a join only. *)
Filters(s) == s.plan.query.op \in {"delete", "update"} /\ Len(s.plan.query.sources) > 1

LEMMA ApplyProcessFrom ==
  ASSUME NEW K \in Nat, NEW s \in StateOf(K), Here \in Nat, s.plan.query \in QueryType,
         Filters(s) => Len(s.node) < K
  PROVE  From(ApplyProcess(s), s, K, IF Filters(s) THEN 1 ELSE 0)
<1>1. CASE Filters(s)
  <2>1. ApplyProcess(s) = RewriteJoin(s)
    BY <1>1 DEF ApplyProcess, Filters
  <2>2. QED
    BY <1>1, <2>1, RewriteJoinFrom
<1>2. CASE ~Filters(s)
  <2>1. ApplyProcess(s) \in {UpdateTable(s), DeleteTable(s), ApplyOther(s)}
    BY <1>2 DEF ApplyProcess, Filters
  <2>2. From(ApplyProcess(s), s, K, 0)
    BY <2>1, UpdateTableFrom, DeleteTableFrom, ApplyOtherFrom
  <2>3. QED
    BY <1>2, <2>2
<1>3. QED
  BY <1>1, <1>2

LEMMA AwaitFrom ==
  ASSUME NEW K \in Nat, NEW s \in StateOf(K), ValuesBuilt(s, K)
  PROVE  From(Await(s), s, K, 0)
<1> DEFINE m == s.plan.opTrue
           v == s.node[m].waits \cup WaitList(s, "op")
<1>1. CASE m \in DOMAIN s.node
  <2>1. s.node[m] \in NodeOf(K)
    BY <1>1, StateParts, ElementOfSeq
  <2>2. v \in SUBSET (1..K)
    BY <2>1, WaitListType DEF NodeOf
  <2>3. From([s EXCEPT !.node[m].waits = v], s, K, 0)
    <3> HIDE DEF v, m
    <3>1. QED
      BY <2>2, NodeFieldFrom
  <2>4. QED
    BY <2>3 DEF Await
<1>2. CASE m \notin DOMAIN s.node
  <2>1. [s.node EXCEPT ![m].waits = v] = s.node
    BY <1>2, StateParts
  <2>2. Await(s) = [s EXCEPT !.node = s.node]
    BY <1>2, <2>1 DEF Await
  <2>3. s.node \in Seq(NodeOf(K)) /\ s \in [node : Seq(NodeOf(K)), plan : PlanOf(K)]
    BY StateParts DEF StateOf
  <2>4. [s EXCEPT !.node = s.node] = s
    BY <2>3
  <2>5. QED
    BY <2>2, <2>4, FromSelf
<1>3. QED
  BY <1>1, <1>2

LEMMA EnterFrom ==
  ASSUME NEW K \in Nat, NEW s \in StateOf(K)
  PROVE  From(Enter(s), s, K, 0)
<1>1. s.plan.entry \in 0..K
  BY StateParts DEF PlanOf
<1>2. QED
  BY <1>1, FromSelf, LinkFrom DEF Enter

LEMMA LogicFrom ==
  ASSUME NEW K \in Nat, NEW s \in StateOf(K), Len(s.node) + 2 <= K, Here \in Nat,
         NEW action \in Actions, NEW conditions, NEW fromHash \in BOOLEAN,
         NEW waits \in SUBSET (1..K)
  PROVE  From(Logic(s, action, conditions, fromHash, waits), s, K, 2)
<1> DEFINE logic == Newest(s) + 1
           true  == logic + 1
           edges == [b \in 0..1 |-> IF b = 0 THEN s.plan.opFalse ELSE true]
           quiet == fromHash /\ conditions = 1
           p0    == Process(Here, action)
           p1    == [p0 EXCEPT !.passive = quiet]
           p2    == [p1 EXCEPT !.waits = waits]
           p3    == [p2 EXCEPT !.out = edges]
           one   == Add(s, p3)
           added == Add(one, Passive(Here))
           kept  == IF quiet THEN added ELSE Stage(added, logic)
           t     == Link(kept, s.plan.current, LogicBranch(fromHash), logic)
           u     == [t EXCEPT !.plan.current = true]
<1>1. Len(s.node) \in Nat /\ logic \in 1..K /\ true \in 1..K /\ Len(s.node) < K
  BY StateParts DEF Newest
<1>2. p3 \in NodeOf(K)
  <2>1. p0 \in NodeOf(K)
    BY ProcessType
  <2>2. quiet \in BOOLEAN
    OBVIOUS
  <2> HIDE DEF p0, quiet
  <2>3. p1 \in NodeOf(K)
    BY <2>1, <2>2, NodeFields
  <2> HIDE DEF p1
  <2>4. p2 \in NodeOf(K)
    BY <2>3, NodeFields
  <2> HIDE DEF p2
  <2>5. s.plan.opFalse \in 0..K /\ true \in 0..K
    BY <1>1, StateParts DEF PlanOf
  <2>6. edges \in [0..1 -> 0..K]
    <3> HIDE DEF true
    <3>1. QED
      BY <2>5, OutType
  <2> HIDE DEF edges
  <2>7. QED
    BY <2>4, <2>6, NodeFields
<1> HIDE DEF p3, logic, true, quiet
<1>3. From(one, s, K, 1) /\ one \in StateOf(K) /\ Len(one.node) < K
  <2>1. From(one, s, K, 1)
    BY <1>1, <1>2, AddFrom
  <2>2. Len(one.node) = Len(s.node) + 1 /\ one \in StateOf(K)
    BY <2>1 DEF From
  <2> HIDE DEF one
  <2>3. QED
    BY <1>1, <2>1, <2>2
<1> HIDE DEF one
<1>4. From(added, s, K, 2) /\ added \in StateOf(K)
  <2>1. Passive(Here) \in NodeOf(K)
    BY PassiveType
  <2>2. From(added, one, K, 1)
    BY <1>3, <2>1, AddFrom
  <2> HIDE DEF added
  <2>3. From(added, s, K, 1 + 1)
    BY <1>3, <2>2, FromTrans
  <2>4. QED
    BY <2>3 DEF From
<1> HIDE DEF added
<1>5. From(kept, added, K, 0) /\ kept \in StateOf(K)
  <2>1. logic \in Nat
    BY <1>1
  <2>2. From(kept, added, K, 0)
    BY <1>4, <2>1, FromSelf, StageFrom
  <2>3. QED
    BY <2>2 DEF From
<1> HIDE DEF kept
<1>6. From(t, kept, K, 0) /\ t \in StateOf(K)
  <2>1. LogicBranch(fromHash) \in 0..1 /\ logic \in 0..K
    BY <1>1 DEF LogicBranch
  <2>2. From(t, kept, K, 0)
    BY <1>5, <2>1, LinkFrom
  <2>3. QED
    BY <2>2 DEF From
<1> HIDE DEF t
<1>7. From(u, t, K, 0)
  <2>1. true \in 0..K
    BY <1>1
  <2>2. QED
    BY <1>6, <2>1, PlanFields
<1> HIDE DEF u
<1>8. From(u, s, K, 2)
  BY <1>4, <1>5, <1>6, <1>7, FromSame
<1>9. u = Logic(s, action, conditions, fromHash, waits)
  BY DEF u, t, kept, added, one, p3, edges, quiet, true, logic, Logic
<1>10. QED
  BY <1>8, <1>9

-----------------------------------------------------------------------------
(* The invariant.  The plans of the stack are being built, the innermost of them was made
   last, and what a plan refers to was made after it. *)

Descends(st) == \A j, k \in DOMAIN st : j < k => st[k] < st[j]

Waiting ==
  /\ stack \in Seq(1..Len(plans))
  /\ Descends(stack)
  /\ \A p \in DOMAIN plans : plans[p].step = "built" <=> p \notin Range(stack)

PlanOK(p) ==
  /\ \A k \in DOMAIN plans[p].constPlans : plans[p].constPlans[k] \in (p + 1)..Len(plans)
  /\ plans[p].step # "consts" => plans[p].opTrue # NULL
  /\ plans[p].step \in CallSteps => plans[p].child \in (p + 1)..Len(plans)
  /\ plans[p].step \in {"from subquery", "join subquery"} =>
       plans[p].i \in 1..Len(plans[p].query.sources)

Phases == {"build", "activate", "pipes", "count", "order", "done", "failed"}

PlanInv ==
  /\ query \in Queries
  /\ node \in Seq(NodeOf(Len(node)))
  /\ plans \in Seq(PlanOf(Len(node))) /\ 1 \in DOMAIN plans
  /\ Waiting
  /\ \A p \in DOMAIN plans : PlanOK(p)
  /\ phase \in Phases
  /\ phase \in {"build", "failed"} <=> stack # << >>

-----------------------------------------------------------------------------
(* The stack. *)

LEMMA Push ==
  ASSUME NEW n \in Nat, NEW st \in Seq(1..n), Descends(st)
  PROVE  /\ <<n + 1>> \o st \in Seq(1..(n + 1))
         /\ Descends(<<n + 1>> \o st)
         /\ Range(<<n + 1>> \o st) = {n + 1} \cup Range(st)
         /\ (<<n + 1>> \o st)[1] = n + 1 /\ <<n + 1>> \o st # << >>
<1> DEFINE u == <<n + 1>> \o st
           l == Len(st)
<1>1. l \in Nat /\ DOMAIN st = 1..l /\ \A j \in 1..l : st[j] \in 1..n
  BY LenProperties, ElementOfSeq
<1>2. st \in Seq(1..(n + 1)) /\ <<n + 1>> \in Seq(1..(n + 1))
  <2>1. 1..n \subseteq 1..(n + 1) /\ n + 1 \in 1..(n + 1)
    OBVIOUS
  <2>2. QED
    BY <2>1
<1>3. u \in Seq(1..(n + 1)) /\ Len(u) = l + 1
  BY <1>2
<1>4. u[1] = n + 1 /\ \A j \in 2..(l + 1) : u[j] = st[j - 1]
  BY <1>1, <1>2
<1>5. DOMAIN u = 1..(l + 1)
  BY <1>3, LenProperties
<1> HIDE DEF u, l
<1>6. Descends(u)
  <2>1. SUFFICES ASSUME NEW j \in 1..(l + 1), NEW k \in 1..(l + 1), j < k PROVE u[k] < u[j]
    BY <1>5 DEF Descends
  <2>2. k \in 2..(l + 1) /\ u[k] = st[k - 1] /\ k - 1 \in 1..l
    BY <1>1, <1>4, <2>1
  <2>3. CASE j = 1
    <3>1. st[k - 1] \in 1..n
      BY <1>1, <2>2
    <3>2. QED
      BY <1>4, <2>2, <2>3, <3>1
  <2>4. CASE j # 1
    <3>1. u[j] = st[j - 1] /\ j - 1 \in 1..l /\ j - 1 < k - 1
      BY <1>1, <1>4, <2>1, <2>4
    <3>2. st[k - 1] < st[j - 1]
      BY <1>1, <2>2, <3>1 DEF Descends
    <3>3. QED
      BY <2>2, <3>1, <3>2
  <2>5. QED
    BY <2>3, <2>4
<1>7. Range(u) = {n + 1} \cup Range(st)
  <2>1. ASSUME NEW j \in 1..(l + 1) PROVE u[j] \in {n + 1} \cup Range(st)
    <3>1. CASE j = 1
      BY <1>4, <3>1
    <3>2. CASE j # 1
      <4>1. j \in 2..(l + 1) /\ j - 1 \in DOMAIN st
        BY <1>1, <3>2
      <4>2. QED
        BY <1>4, <4>1 DEF Range
    <3>3. QED
      BY <3>1, <3>2
  <2>2. ASSUME NEW x \in {n + 1} \cup Range(st) PROVE x \in Range(u)
    <3>1. CASE x = n + 1
      <4>1. 1 \in DOMAIN u
        BY <1>1, <1>5
      <4>2. QED
        BY <1>4, <3>1, <4>1 DEF Range
    <3>2. CASE x \in Range(st)
      <4>1. PICK j \in 1..l : x = st[j]
        BY <1>1, <3>2 DEF Range
      <4>2. j + 1 \in 2..(l + 1) /\ j + 1 \in DOMAIN u /\ (j + 1) - 1 = j
        BY <1>1, <1>5
      <4>3. u[j + 1] = x
        BY <1>4, <4>1, <4>2
      <4>4. QED
        BY <4>2, <4>3 DEF Range
    <3>3. QED
      BY <2>2, <3>1, <3>2
  <2>3. QED
    BY <1>5, <2>1, <2>2 DEF Range
<1>8. u # << >>
  BY <1>1, <1>5
<1>9. QED
  BY <1>3, <1>4, <1>6, <1>7, <1>8 DEF u

LEMMA Pop ==
  ASSUME NEW n \in Nat, NEW st \in Seq(1..n), Descends(st), st # << >>
  PROVE  /\ Tail(st) \in Seq(1..n) /\ Descends(Tail(st))
         /\ Range(Tail(st)) = Range(st) \ {st[1]}
         /\ Tail(st) # << >> <=> Len(st) # 1
<1> DEFINE u == Tail(st)
           l == Len(st)
<1>1. l \in Nat \ {0} /\ DOMAIN st = 1..l /\ \A j \in 1..l : st[j] \in 1..n
  BY LenProperties, ElementOfSeq, EmptySeq
<1>2. u \in Seq(1..n) /\ Len(u) = l - 1 /\ \A j \in 1..(l - 1) : u[j] = st[j + 1]
  BY HeadTailProperties
<1>3. DOMAIN u = 1..(l - 1)
  BY <1>2, LenProperties
<1>4. u # << >> <=> l # 1
  <2>1. u # << >> <=> Len(u) # 0
    BY <1>2, EmptySeq
  <2>2. QED
    BY SMTT(30), <1>1, <1>2, <2>1
<1> HIDE DEF u, l
<1>5. Descends(u)
  <2>1. SUFFICES ASSUME NEW j \in 1..(l - 1), NEW k \in 1..(l - 1), j < k PROVE u[k] < u[j]
    BY <1>3 DEF Descends
  <2>2. j + 1 \in 1..l /\ k + 1 \in 1..l /\ j + 1 < k + 1
    BY <1>1, <2>1
  <2>3. st[k + 1] < st[j + 1]
    BY <1>1, <2>2 DEF Descends
  <2>4. QED
    BY <1>2, <2>3
<1>6. Range(u) = Range(st) \ {st[1]}
  <2>1. ASSUME NEW j \in 1..(l - 1) PROVE u[j] \in Range(st) \ {st[1]}
    <3>1. u[j] = st[j + 1] /\ j + 1 \in 1..l /\ 1 \in 1..l /\ 1 < j + 1
      BY <1>1, <1>2
    <3>2. st[j + 1] < st[1] /\ st[j + 1] \in 1..n /\ st[1] \in 1..n
      BY <1>1, <3>1 DEF Descends
    <3>3. st[j + 1] # st[1]
      BY <3>2
    <3>4. QED
      BY <1>1, <3>1, <3>3 DEF Range
  <2>2. ASSUME NEW x \in Range(st) \ {st[1]} PROVE x \in Range(u)
    <3>1. PICK j \in 1..l : x = st[j]
      BY <1>1 DEF Range
    <3>2. j # 1
      BY <2>2, <3>1
    <3>3. j - 1 \in 1..(l - 1) /\ (j - 1) + 1 = j
      BY <1>1, <3>2
    <3>4. u[j - 1] = x
      BY <1>2, <3>1, <3>3
    <3>5. QED
      BY <1>3, <3>3, <3>4 DEF Range
  <2>3. QED
    BY <1>3, <2>1, <2>2 DEF Range
<1>7. QED
  BY <1>2, <1>4, <1>5, <1>6 DEF u, l

-----------------------------------------------------------------------------
(* What the invariant says of the plan being built. *)

LEMMA Building ==
  ASSUME PlanInv, phase = "build"
  PROVE  /\ Len(node) \in Nat /\ Len(plans) \in Nat
         /\ DOMAIN plans = 1..Len(plans)
         /\ stack # << >> /\ Here \in 1..Len(plans) /\ Here \in Nat /\ Here \in Range(stack)
         /\ self \in PlanOf(Len(node)) /\ PlanOK(Here)
         /\ self.query \in QueryType
<1>1. Len(node) \in Nat /\ Len(plans) \in Nat /\ DOMAIN plans = 1..Len(plans)
  BY LenProperties DEF PlanInv
<1>2. stack # << >> /\ stack \in Seq(1..Len(plans))
  BY DEF PlanInv, Waiting
<1>3. Here \in 1..Len(plans) /\ Here \in Range(stack)
  <2>1. Len(stack) \in Nat /\ Len(stack) # 0 /\ DOMAIN stack = 1..Len(stack)
    BY <1>2, LenProperties, EmptySeq
  <2>2. 1 \in DOMAIN stack
    BY <2>1
  <2>3. QED
    BY <1>2, <2>1, <2>2, ElementOfSeq DEF Here, Range
<1>4. self \in PlanOf(Len(node)) /\ PlanOK(Here)
  BY <1>1, <1>3, ElementOfSeq DEF PlanInv, self, Here
<1>5. self.query \in Statements
  BY <1>4 DEF PlanOf
<1>6. self.query \in QueryType
  BY <1>5, QueriesAssumption DEF Statements
<1>7. QED
  BY <1>1, <1>2, <1>3, <1>4, <1>6

LEMMA StateType ==
  ASSUME PlanInv, phase = "build", NEW d \in Nat
  PROVE  State \in StateOf(Len(node) + d)
<1>1. State \in StateOf(Len(node))
  <2>1. node \in Seq(NodeOf(Len(node))) /\ self \in PlanOf(Len(node))
    BY Building DEF PlanInv
  <2>2. QED
    BY <2>1 DEF State, StateOf
<1>2. Len(node) \in Nat /\ Len(node) + d \in Nat /\ Len(node) <= Len(node) + d
  BY Building
<1>3. QED
  BY <1>1, <1>2, StateOfGrows

(* A plan can refer to more plans than before. *)
LEMMA LaterPlans ==
  ASSUME NEW p \in Nat, NEW n \in Nat, NEW m \in Nat, n <= m
  PROVE  (p + 1)..n \subseteq (p + 1)..m
OBVIOUS

(* What _build does within a step keeps the invariant. *)
LEMMA GoInv ==
  ASSUME PlanInv, phase = "build", NEW d \in Nat, NEW s, From(s, State, Len(node) + d, d),
         s.plan.opTrue # NULL, NEW step \in GoSteps, Go(s, step)
  PROVE  PlanInv'
<1> DEFINE K == Len(node) + d
           P == [s.plan EXCEPT !.step = step]
<1>1. Len(node) \in Nat /\ K \in Nat /\ Len(node) <= K
  BY Building
<1>2. s \in StateOf(K) /\ s.plan \in PlanOf(K) /\ s.node \in Seq(NodeOf(K)) /\ Len(s.node) = K
  <2>1. s \in StateOf(K) /\ Len(s.node) = Len(State.node) + d /\ State.node = node
    BY DEF From, State
  <2>2. s.plan \in PlanOf(K) /\ s.node \in Seq(NodeOf(K))
    BY <1>1, <2>1, StateParts
  <2>3. QED
    BY <2>1, <2>2
<1> HIDE DEF K
<1>3. /\ node' = s.node /\ plans' = [plans EXCEPT ![Here] = P]
      /\ query' = query /\ stack' = stack /\ phase' = phase
  BY DEF Go
<1>4. P \in PlanOf(K) /\ P.step = step /\ P.opTrue # NULL /\ P.constPlans = self.constPlans
  <2>1. step \in Steps
    BY DEF Steps
  <2>2. P \in PlanOf(K) /\ P.step = step /\ P.opTrue = s.plan.opTrue
        /\ P.constPlans = s.plan.constPlans
    BY <1>2, <2>1 DEF PlanOf
  <2>3. s.plan.constPlans = self.constPlans
    BY DEF From, State
  <2>4. QED
    BY <2>2, <2>3
<1> HIDE DEF P
<1>5. node' \in Seq(NodeOf(Len(node'))) /\ Len(node') = K
  BY <1>2, <1>3
<1>6. \A p \in DOMAIN plans : plans[p] \in PlanOf(K)
  BY <1>1, Building, PlanOfGrows, ElementOfSeq DEF PlanInv
<1>7. plans' \in Seq(PlanOf(K)) /\ Len(plans') = Len(plans) /\ DOMAIN plans' = DOMAIN plans
  <2>1. plans \in Seq(PlanOf(Len(node)))
    BY DEF PlanInv
  <2>2. DOMAIN plans' = DOMAIN plans /\ plans' = [p \in DOMAIN plans' |-> plans'[p]]
    BY <1>3
  <2>3. \A p \in DOMAIN plans : plans'[p] \in PlanOf(K)
    BY <1>3, <1>4, <1>6
  <2>4. QED
    BY <2>1, <2>2, <2>3, MapType
<1>8. Waiting'
  <2>1. P.step # "built"
    BY <1>4 DEF GoSteps
  <2>2. \A p \in DOMAIN plans' : plans'[p].step = "built" <=> p \notin Range(stack')
    BY <1>3, <1>7, <2>1, Building DEF PlanInv, Waiting
  <2>3. QED
    BY <1>3, <1>7, <2>2 DEF PlanInv, Waiting
<1>9. ASSUME NEW p \in DOMAIN plans' PROVE PlanOK(p)'
  <2>1. CASE p = Here
    <3>1. plans'[p] = P
      BY <1>3, <1>7, <2>1
    <3>2. step \notin CallSteps /\ step \notin {"from subquery", "join subquery"}
      BY DEF GoSteps, CallSteps
    <3>3. \A k \in DOMAIN P.constPlans : P.constPlans[k] \in (p + 1)..Len(plans)
      BY <1>4, <2>1, Building DEF PlanOK, self, Here
    <3>4. QED
      BY <1>4, <1>7, <3>1, <3>2, <3>3 DEF PlanOK
  <2>2. CASE p # Here
    <3>1. plans'[p] = plans[p] /\ PlanOK(p)
      BY <1>3, <1>7, <2>2 DEF PlanInv
    <3>2. QED
      BY <1>7, <3>1 DEF PlanOK
  <2>3. QED
    BY <2>1, <2>2
<1>10. QED
  BY <1>3, <1>5, <1>7, <1>8, <1>9 DEF PlanInv

LEMMA NewPlanType ==
  ASSUME NEW K \in Nat, NEW q \in Statements, NEW entry \in 0..K, NEW isUnion \in BOOLEAN
  PROVE  /\ NewPlan(q, entry, isUnion) \in PlanOf(K)
         /\ NewPlan(q, entry, isUnion).step = "consts"
         /\ NewPlan(q, entry, isUnion).constPlans = << >>
<1>1. << >> \in Seq(1..K) /\ << >> \in Seq(Nat)
  OBVIOUS
<1>2. QED
  BY <1>1 DEF NewPlan, PlanOf, Steps, NULL

(* What the plan is left with that calls _build for a subquery, to go on at step. *)
CallOK(s, step) ==
  /\ step # "consts" => s.plan.opTrue # NULL
  /\ \A k \in DOMAIN s.plan.constPlans :
       s.plan.constPlans[k] \in (Here + 1)..(Len(plans) + 1)
  /\ step \in {"from subquery", "join subquery"} => s.plan.i \in 1..Len(s.plan.query.sources)

(* So does the call of _build for a subquery: its plan is the last one. *)
LEMMA CallInv ==
  ASSUME PlanInv, phase = "build", NEW d \in Nat, NEW s \in StateOf(Len(node) + d),
         Len(s.node) = Len(node) + d, NEW step \in {"consts"} \cup CallSteps, CallOK(s, step),
         NEW q \in Nested, NEW entry \in 0..(Len(node) + d), NEW isUnion \in BOOLEAN,
         Call(s, step, q, entry, isUnion)
  PROVE  PlanInv'
<1> DEFINE K     == Len(node) + d
           child == Len(plans) + 1
           P     == [s.plan EXCEPT !.step = step, !.child = child]
           C     == NewPlan(q, entry, isUnion)
           old   == [plans EXCEPT ![Here] = P]
<1>1. Len(node) \in Nat /\ K \in Nat /\ Len(node) <= K /\ child \in Nat
      /\ Len(plans) \in Nat /\ Here \in 1..Len(plans) /\ DOMAIN plans = 1..Len(plans)
  <2>1. Len(node) \in Nat /\ Len(plans) \in Nat /\ Here \in 1..Len(plans)
        /\ DOMAIN plans = 1..Len(plans)
    BY Building
  <2>2. \A n \in Nat : n + d \in Nat /\ n <= n + d /\ n + 1 \in Nat
    OBVIOUS
  <2>3. QED
    BY <2>1, <2>2
<1>2. s \in StateOf(K) /\ s.plan \in PlanOf(K) /\ s.node \in Seq(NodeOf(K)) /\ Len(s.node) = K
  BY <1>1, StateParts
<1>3. C \in PlanOf(K) /\ C.step = "consts" /\ C.constPlans = << >>
  <2>1. q \in Statements
    BY DEF Statements
  <2>2. QED
    BY <1>1, <2>1, NewPlanType
<1> HIDE DEF K, C
<1>4. /\ node' = s.node /\ plans' = Append(old, C)
      /\ query' = query /\ stack' = <<child>> \o stack /\ phase' = phase
  BY DEF Call, C
<1>5. /\ P \in PlanOf(K) /\ P.step = step /\ P.opTrue = s.plan.opTrue /\ P.child = child
      /\ P.constPlans = s.plan.constPlans /\ P.i = s.plan.i /\ P.query = s.plan.query
  <2>1. step \in Steps
    BY DEF Steps
  <2>2. QED
    BY <1>1, <1>2, <2>1 DEF PlanOf
<1> HIDE DEF P
<1>6. node' \in Seq(NodeOf(Len(node'))) /\ Len(node') = K
  BY <1>2, <1>4
<1>7. \A p \in DOMAIN plans : plans[p] \in PlanOf(K)
  BY <1>1, PlanOfGrows, ElementOfSeq DEF PlanInv
<1>8. old \in Seq(PlanOf(K)) /\ Len(old) = Len(plans)
  <2>1. plans \in Seq(PlanOf(Len(node)))
    BY DEF PlanInv
  <2>2. DOMAIN old = DOMAIN plans /\ old = [p \in DOMAIN old |-> old[p]]
    OBVIOUS
  <2>3. \A p \in DOMAIN plans : old[p] \in PlanOf(K)
    BY <1>5, <1>7
  <2> HIDE DEF old
  <2>4. QED
    BY <2>1, <2>2, <2>3, MapType
<1>9. \A p \in 1..Len(plans) : old[p] = IF p = Here THEN P ELSE plans[p]
  BY <1>1
<1> HIDE DEF old
<1>10. /\ plans' \in Seq(PlanOf(K)) /\ Len(plans') = child /\ DOMAIN plans' = 1..child
       /\ plans'[child] = C
       /\ \A p \in 1..Len(plans) : plans'[p] = IF p = Here THEN P ELSE plans[p]
  <2>1. /\ Append(old, C) \in Seq(PlanOf(K)) /\ Len(Append(old, C)) = Len(plans) + 1
        /\ Append(old, C)[Len(plans) + 1] = C
        /\ \A p \in 1..Len(plans) : Append(old, C)[p] = old[p]
    BY <1>3, <1>8, AppendProperties
  <2>2. DOMAIN Append(old, C) = 1..Len(Append(old, C))
    BY <2>1, LenProperties
  <2>3. QED
    BY <1>4, <1>9, <2>1, <2>2
<1> HIDE DEF child
<1>11. child = Len(plans) + 1
  BY DEF child
<1>12. Waiting'
  <2>1. /\ stack' \in Seq(1..child) /\ Descends(stack')
        /\ Range(stack') = {child} \cup Range(stack)
    <3>1. stack \in Seq(1..Len(plans)) /\ Descends(stack)
      BY DEF PlanInv, Waiting
    <3>2. QED
      BY <1>1, <1>4, <1>11, <3>1, Push
  <2>2. P.step # "built" /\ C.step # "built"
    BY <1>3, <1>5 DEF CallSteps
  <2>3. ASSUME NEW p \in 1..child PROVE plans'[p].step = "built" <=> p \notin Range(stack')
    <3>1. CASE p = child
      BY <1>10, <2>1, <2>2, <3>1
    <3>2. CASE p # child
      <4>1. p \in 1..Len(plans)
        BY <1>1, <1>11, <3>2
      <4>2. plans[p].step = "built" <=> p \notin Range(stack)
        BY <1>1, <4>1 DEF PlanInv, Waiting
      <4>3. CASE p = Here
        BY <1>10, <2>1, <2>2, <4>1, <4>3, Building
      <4>4. CASE p # Here
        BY <1>10, <2>1, <3>2, <4>1, <4>2, <4>4
      <4>5. QED
        BY <4>3, <4>4
    <3>3. QED
      BY <3>1, <3>2
  <2>4. QED
    BY <1>10, <2>1, <2>3 DEF Waiting
<1>13. ASSUME NEW p \in 1..child PROVE PlanOK(p)'
  <2>1. CASE p = child
    <3>1. plans'[p] = C
      BY <1>10, <2>1
    <3>2. DOMAIN C.constPlans = {}
      BY <1>3
    <3>3. C.step \notin CallSteps /\ C.step \notin {"from subquery", "join subquery"}
      BY <1>3 DEF CallSteps
    <3>4. QED
      BY <1>3, <3>1, <3>2, <3>3 DEF PlanOK
  <2>2. CASE p = Here
    <3>1. plans'[p] = P
      BY <1>1, <1>10, <2>2
    <3>2. \A k \in DOMAIN P.constPlans : P.constPlans[k] \in (p + 1)..child
      BY <1>5, <1>11, <2>2 DEF CallOK
    <3>3. child \in (p + 1)..child
      BY <1>1, <1>11, <2>2
    <3>4. P.step # "consts" => P.opTrue # NULL
      BY <1>5 DEF CallOK
    <3>5. P.step \in {"from subquery", "join subquery"} => P.i \in 1..Len(P.query.sources)
      BY <1>5 DEF CallOK
    <3>6. QED
      BY <1>5, <1>10, <3>1, <3>2, <3>3, <3>4, <3>5 DEF PlanOK
  <2>3. CASE p # child /\ p # Here
    <3>1. p \in 1..Len(plans)
      BY <1>1, <1>10, <1>11, <2>3
    <3>2. plans'[p] = plans[p] /\ PlanOK(p)
      BY <1>1, <1>10, <2>3, <3>1 DEF PlanInv
    <3>3. (p + 1)..Len(plans) \subseteq (p + 1)..child
      BY <1>1, <1>11
    <3>4. QED
      BY <1>10, <3>2, <3>3 DEF PlanOK
  <2>4. QED
    BY <2>1, <2>2, <2>3
<1>14. stack' # << >>
  <2>1. stack \in Seq(1..Len(plans)) /\ Descends(stack)
    BY DEF PlanInv, Waiting
  <2>2. QED
    BY <1>1, <1>4, <1>11, <2>1, Push
<1>15. QED
  BY <1>4, <1>6, <1>10, <1>12, <1>13, <1>14 DEF PlanInv

-----------------------------------------------------------------------------
(* The joins, and the last changes. *)

(* A node is added and follows the clauses so far. *)
LEMMA ThenFrom ==
  ASSUME NEW K \in Nat, NEW s \in StateOf(K), Len(s.node) < K, NEW process \in NodeOf(K)
  PROVE  From(Stage(Advance(Add(s, process), Newest(s) + 1), Newest(s) + 1), s, K, 1)
<1> DEFINE n == Newest(s) + 1
           t == Add(s, process)
           u == Advance(t, n)
<1>1. n \in 1..K /\ n \in 0..K /\ n \in Nat
  BY StateParts DEF Newest
<1> HIDE DEF n
<1>2. From(t, s, K, 1) /\ t \in StateOf(K)
  <2>1. From(t, s, K, 1)
    BY AddFrom
  <2>2. QED
    BY <2>1 DEF From
<1> HIDE DEF t
<1>3. From(u, t, K, 0) /\ u \in StateOf(K)
  <2>1. From(u, t, K, 0)
    BY <1>1, <1>2, AdvanceFrom
  <2>2. QED
    BY <2>1 DEF From
<1> HIDE DEF u
<1>4. From(Stage(u, n), u, K, 0)
  BY <1>1, <1>3, StageFrom
<1>5. From(Stage(u, n), s, K, 1)
  BY <1>2, <1>3, <1>4, FromSame
<1>6. QED
  BY <1>5 DEF n, t, u

LEMMA HashJoinFrom ==
  ASSUME NEW K \in Nat, NEW s \in StateOf(K), Len(s.node) + 3 <= K, Here \in Nat,
         source \in Sources, NEW right
  PROVE  From(HashJoin(s, right), s, K, 3)
<1> DEFINE join   == Newest(s) + 1
           linked == Link(s, right, 0, join)
           p0     == Process(Here, "hash_join")
           p1     == [p0 EXCEPT !.second = TRUE]
           p2     == [p1 EXCEPT !.left = source.left]
           joined == Stage(Advance(Add(linked, p2), join), join)
           action == IF source.left THEN "left_join_logic" ELSE "logic"
           t      == Logic(joined, action, source.conditions, TRUE, {})
<1>1. Len(s.node) \in Nat /\ join \in 0..K
  BY StateParts DEF Newest
<1>2. p2 \in NodeOf(K)
  <2>1. p0 \in NodeOf(K)
    BY ProcessType DEF Actions
  <2> HIDE DEF p0
  <2>2. p1 \in NodeOf(K)
    BY <2>1, NodeFields
  <2> HIDE DEF p1
  <2>3. source.left \in BOOLEAN
    BY DEF Sources
  <2>4. QED
    BY <2>2, <2>3, NodeFields
<1> HIDE DEF p2
<1>3. From(linked, s, K, 0) /\ linked \in StateOf(K) /\ Len(linked.node) = Len(s.node)
  <2>1. From(linked, s, K, 0)
    <3> HIDE DEF join
    <3>1. QED
      BY <1>1, LinkFrom
  <2>2. linked \in StateOf(K) /\ Len(linked.node) = Len(s.node) + 0
    BY <2>1 DEF From
  <2> HIDE DEF linked
  <2>3. QED
    BY <1>1, <2>1, <2>2
<1>4. join = Newest(linked) + 1
  <2> HIDE DEF linked
  <2>1. QED
    BY <1>3 DEF Newest
<1> HIDE DEF linked, join
<1>5. From(joined, s, K, 1) /\ joined \in StateOf(K) /\ Len(joined.node) = Len(s.node) + 1
  <2>1. Len(linked.node) < K
    BY <1>1, <1>3
  <2>2. From(joined, linked, K, 1)
    BY <1>2, <1>3, <1>4, <2>1, ThenFrom
  <2> HIDE DEF joined
  <2>3. From(joined, s, K, 0 + 1)
    BY <1>3, <2>2, FromTrans
  <2>4. QED
    BY <2>3 DEF From
<1> HIDE DEF joined
<1>6. From(t, s, K, 3) /\ t \in StateOf(K)
  <2>1. Len(joined.node) + 2 <= K
    BY <1>1, <1>5
  <2>2. action \in Actions /\ TRUE \in BOOLEAN /\ {} \in SUBSET (1..K)
    BY DEF Actions
  <2> HIDE DEF action
  <2>3. From(t, joined, K, 2)
    BY <1>5, <2>1, <2>2, LogicFrom
  <2> HIDE DEF t
  <2>4. From(t, s, K, 1 + 2)
    BY <1>5, <2>3, FromTrans
  <2>5. QED
    BY <2>4 DEF From
<1> HIDE DEF t
<1>7. From(Further(t), t, K, 0)
  BY <1>6, FurtherFrom
<1>8. From(Further(t), s, K, 3)
  BY <1>6, <1>7, FromSame
<1>9. QED
  BY <1>8 DEF t, action, joined, p2, linked, join, HashJoin

LEMMA DisableStrandedFrom ==
  ASSUME NEW K \in Nat, NEW s \in StateOf(K)
  PROVE  From(DisableStranded(s), s, K, 0)
<1> DEFINE stranded == {n \in RootsOf(s) \ {s.plan.opTrue, s.plan.opFalse} :
                          s.node[n].out = [b \in 0..1 |-> NULL]}
           some == stranded # {}
           f == [n \in DOMAIN s.node |->
                   IF n \in stranded THEN [s.node[n] EXCEPT !.passive = TRUE]
                   ELSE IF n = s.plan.opFalse THEN [s.node[n] EXCEPT !.dead = some]
                   ELSE s.node[n]]
<1>1. ASSUME NEW n \in DOMAIN s.node PROVE f[n] \in NodeOf(K)
  <2>1. s.node[n] \in NodeOf(K) /\ some \in BOOLEAN
    BY StateParts, ElementOfSeq
  <2> HIDE DEF some
  <2>2. [s.node[n] EXCEPT !.passive = TRUE] \in NodeOf(K)
        /\ [s.node[n] EXCEPT !.dead = some] \in NodeOf(K)
    BY <2>1, NodeFields
  <2> HIDE DEF stranded
  <2>3. QED
    BY <2>1, <2>2
<1>2. From([s EXCEPT !.node = f], s, K, 0)
  <2>1. DOMAIN f = DOMAIN s.node /\ f = [n \in DOMAIN f |-> f[n]]
    OBVIOUS
  <2> HIDE DEF f
  <2>2. QED
    BY <1>1, <2>1, NodesFrom
<1>3. QED
  BY <1>2 DEF DisableStranded

LEMMA MarkRootsConstFrom ==
  ASSUME NEW K \in Nat, NEW s \in StateOf(K)
  PROVE  From(MarkRootsConst(s), s, K, 0)
<1> DEFINE R == {n \in RootsOf(s) : s.node[n].plan = Here /\ s.node[n].action # "read"}
           fifo(n) == IF s.node[n].rootFifo = -1 THEN 0 ELSE s.node[n].rootFifo
           f == [n \in DOMAIN s.node |->
                   IF n \in R THEN [s.node[n] EXCEPT !.const = TRUE, !.rootFifo = fifo(n)]
                   ELSE s.node[n]]
<1>1. ASSUME NEW n \in DOMAIN s.node PROVE f[n] \in NodeOf(K)
  <2>1. s.node[n] \in NodeOf(K)
    BY StateParts, ElementOfSeq
  <2>2. fifo(n) \in {-1, 0, 1}
    BY <2>1 DEF NodeOf
  <2> DEFINE m == [s.node[n] EXCEPT !.const = TRUE]
  <2>3. m \in NodeOf(K)
    BY <2>1, NodeFields
  <2>4. [m EXCEPT !.rootFifo = fifo(n)] \in NodeOf(K)
    <3> HIDE DEF m, fifo
    <3>1. QED
      BY <2>2, <2>3, NodeFields
  <2>5. f[n] = IF n \in R THEN [m EXCEPT !.rootFifo = fifo(n)] ELSE s.node[n]
    OBVIOUS
  <2>6. QED
    BY <2>1, <2>4, <2>5
<1>2. From([s EXCEPT !.node = f], s, K, 0)
  <2>1. DOMAIN f = DOMAIN s.node /\ f = [n \in DOMAIN f |-> f[n]]
    OBVIOUS
  <2> HIDE DEF f
  <2>2. QED
    BY <1>1, <2>1, NodesFrom
<1>3. QED
  BY <1>2 DEF MarkRootsConst

-----------------------------------------------------------------------------
(* Each step of _build keeps the invariant. *)

LEMMA Room ==
  ASSUME PlanInv, phase = "build", NEW d \in Nat
  PROVE  /\ Len(node) + d \in Nat /\ Len(node) \in Nat
         /\ State \in StateOf(Len(node) + d) /\ Here \in Nat
         /\ State.node = node /\ State.plan = self /\ Len(State.node) + d = Len(node) + d
<1>1. Len(node) \in Nat /\ Here \in Nat /\ State \in StateOf(Len(node) + d)
  BY Building, StateType
<1>2. State.node = node /\ State.plan = self
  BY DEF State
<1>3. QED
  BY <1>1, <1>2

(* A step after the construction of the operation. *)
LEMMA GoOn ==
  ASSUME PlanInv, NEW now \in Steps \ {"consts"}, At(now), NEW d \in Nat, NEW s,
         From(s, State, Len(node) + d, d), NEW step \in GoSteps, Go(s, step)
  PROVE  PlanInv'
<1>1. phase = "build" /\ self.step = now
  BY DEF At
<1>2. self.opTrue # NULL
  BY <1>1, Building DEF PlanOK, self, Here
<1>3. s.plan.opTrue # NULL
  BY <1>2 DEF From, State
<1>4. QED
  BY <1>1, <1>3, GoInv

LEMMA FailInv ==
  ASSUME PlanInv, phase = "build", Fail
  PROVE  PlanInv'
<1>1. stack # << >>
  BY Building
<1>2. QED
  BY <1>1 DEF Fail, PlanInv, Waiting, PlanOK, Phases

(* The next source, or value, or union. *)
LEMMA SourceType ==
  ASSUME PlanInv, phase = "build", self.i <= Len(self.query.sources)
  PROVE  /\ source \in Sources /\ self.i \in 1..Len(self.query.sources)
         /\ source.kind = "subquery" => source.query \in Nested
<1>1. self.query.sources \in Seq(Sources) /\ self.i \in Nat \ {0}
  BY Building DEF QueryType, PlanOf
<1>2. Len(self.query.sources) \in Nat /\ self.i \in 1..Len(self.query.sources)
  BY <1>1, LenProperties
<1>3. source \in Sources
  BY <1>1, <1>2, ElementOfSeq DEF source
<1>4. QED
  BY <1>2, <1>3 DEF Sources

LEMMA ReadType ==
  ASSUME NEW K \in Nat, Here \in Nat
  PROVE  Read \in NodeOf(K) /\ [Read EXCEPT !.secondary = TRUE] \in NodeOf(K)
<1> DEFINE p0 == Process(Here, "read")
           p1 == [p0 EXCEPT !.root = TRUE]
           p2 == [p1 EXCEPT !.rootFifo = 0]
<1>1. p0 \in NodeOf(K)
  BY ProcessType DEF Actions
<1> HIDE DEF p0
<1>2. p1 \in NodeOf(K)
  BY <1>1, NodeFields
<1> HIDE DEF p1
<1>3. p2 \in NodeOf(K)
  BY <1>2, NodeFields
<1> HIDE DEF p2
<1>4. [p2 EXCEPT !.secondary = TRUE] \in NodeOf(K)
  BY <1>3, NodeFields
<1>5. Read = p2
  BY DEF Read, p0, p1, p2
<1>6. QED
  BY <1>3, <1>4, <1>5

LEMMA BuildConstInv ==
  ASSUME PlanInv, BuildConst
  PROVE  PlanInv'
<1> DEFINE K == Len(node) + 0
           t == Further(State)
           c == Append(t.plan.constPlans, Len(plans) + 1)
           s == [t EXCEPT !.plan.constPlans = c]
           q == self.query.consts[self.i].query
<1>1. phase = "build" /\ self.i <= Len(self.query.consts) /\ Call(s, "consts", q, NULL, FALSE)
  BY DEF BuildConst, At
<1>2. K \in Nat /\ State \in StateOf(K) /\ Len(State.node) = K /\ 0 \in Nat /\ Len(plans) \in Nat
  <2>1. 0 \in Nat
    OBVIOUS
  <2>2. State \in StateOf(K) /\ Len(plans) \in Nat
    BY <1>1, <2>1, Room, Building
  <2>3. \A n \in Nat : n + 0 = n
    OBVIOUS
  <2>4. Len(State.node) = Len(node) /\ Len(node) \in Nat
    BY <1>1, Building DEF State
  <2>5. QED
    BY <2>1, <2>2, <2>3, <2>4
<1>3. q \in Nested
  <2>1. self.query.consts \in Seq([query : Nested, at : {"where", "op"}]) /\ self.i \in Nat \ {0}
    BY <1>1, Building DEF QueryType, PlanOf
  <2>2. Len(self.query.consts) \in Nat /\ self.i \in 1..Len(self.query.consts)
    BY <1>1, <2>1, LenProperties
  <2>3. self.query.consts[self.i] \in [query : Nested, at : {"where", "op"}]
    BY <2>1, <2>2, ElementOfSeq
  <2>4. QED
    BY <2>3
<1> HIDE DEF q, K
<1>4. t \in StateOf(K) /\ Len(t.node) = K /\ t.plan.constPlans = self.constPlans
  <2>1. From(t, State, K, 0)
    BY <1>2, FurtherFrom
  <2>2. Len(State.node) + 0 = K
    BY <1>2
  <2> HIDE DEF t
  <2>3. QED
    BY <2>1, <2>2 DEF From, State
<1> HIDE DEF t
<1>5. /\ c \in Seq(Nat)
      /\ \A k \in DOMAIN c : c[k] \in (Here + 1)..(Len(plans) + 1)
  <2>1. self.constPlans \in Seq(Nat) /\ Here \in 1..Len(plans)
        /\ \A k \in DOMAIN self.constPlans : self.constPlans[k] \in (Here + 1)..Len(plans)
    BY <1>1, Building DEF PlanOf, PlanOK, self, Here
  <2>2. c = Append(self.constPlans, Len(plans) + 1)
    BY <1>4
  <2> HIDE DEF c
  <2> DEFINE l == Len(self.constPlans)
  <2>3. l \in Nat /\ DOMAIN self.constPlans = 1..l
    BY <2>1, LenProperties
  <2>4. /\ c \in Seq(Nat) /\ DOMAIN c = 1..(l + 1) /\ c[l + 1] = Len(plans) + 1
        /\ \A k \in 1..l : c[k] = self.constPlans[k]
    <3>1. Len(plans) + 1 \in Nat
      BY <1>2
    <3>2. QED
      BY <2>1, <2>2, <2>3, <3>1, AppendProperties, LenProperties
  <2> HIDE DEF l
  <2>5. ASSUME NEW k \in 1..(l + 1) PROVE c[k] \in (Here + 1)..(Len(plans) + 1)
    <3>1. CASE k = l + 1
      BY <1>2, <2>1, <2>4, <3>1
    <3>2. CASE k # l + 1
      <4>1. k \in 1..l
        BY <2>3, <3>2
      <4>2. c[k] \in (Here + 1)..Len(plans)
        BY <2>1, <2>3, <2>4, <4>1
      <4>3. QED
        BY <1>2, <2>1, <4>2
    <3>3. QED
      BY <3>1, <3>2
  <2>6. QED
    BY <2>4, <2>5
<1> HIDE DEF c
<1>6. s \in StateOf(K) /\ Len(s.node) = K /\ s.plan.constPlans = c
  <2>1. t \in [node : Seq(NodeOf(K)), plan : PlanOf(K)]
    BY <1>4 DEF StateOf
  <2>2. [t.plan EXCEPT !.constPlans = c] \in PlanOf(K)
        /\ [t.plan EXCEPT !.constPlans = c].constPlans = c
    BY <1>5, <2>1 DEF PlanOf
  <2>3. QED
    BY <1>4, <2>1, <2>2 DEF StateOf
<1> HIDE DEF s
<1>7. CallOK(s, "consts")
  BY <1>5, <1>6 DEF CallOK
<1>8. NULL \in 0..K /\ FALSE \in BOOLEAN
  BY <1>2 DEF NULL
<1>9. QED
  BY <1>1, <1>2, <1>3, <1>6, <1>7, <1>8, CallInv DEF K

LEMMA ConstructInv ==
  ASSUME PlanInv, Construct
  PROVE  PlanInv'
<1> DEFINE K     == Len(node) + 3
           start == Len(node) + 1
           p     == Process(Here, "no_op")
           s1    == Add(State, Passive(Here))
           s2    == Add(s1, p)
           s3    == Add(s2, p)
           t1    == [s3 EXCEPT !.plan.current = start]
           t2    == [t1 EXCEPT !.plan.opTrue = start + 1]
           t3    == [t2 EXCEPT !.plan.opFalse = start + 2]
           t4    == [t3 EXCEPT !.plan.i = 1]
<1>1. phase = "build" /\ Go(t4, "from")
  BY DEF Construct, At
<1>2. State \in StateOf(K) /\ Here \in Nat /\ K \in Nat
  <2>1. 3 \in Nat
    OBVIOUS
  <2>2. QED
    BY <1>1, <2>1, Room
<1>3. /\ Len(State.node) < K /\ Len(State.node) + 1 < K /\ Len(State.node) + 2 < K
      /\ start \in 0..K /\ start + 1 \in 1..K /\ start + 2 \in 0..K
      /\ Len(State.node) \in Nat
  <2>1. Len(State.node) = Len(node) /\ Len(node) \in Nat
    BY <1>1, Building DEF State
  <2>2. \A n \in Nat : /\ n < n + 3 /\ n + 1 < n + 3 /\ n + 2 < n + 3 /\ n + 1 \in 0..(n + 3)
                       /\ (n + 1) + 1 \in 1..(n + 3) /\ (n + 1) + 2 \in 0..(n + 3)
    OBVIOUS
  <2>3. QED
    BY <2>1, <2>2
<1>4. Passive(Here) \in NodeOf(K) /\ p \in NodeOf(K)
  BY <1>2, PassiveType, ProcessType DEF Actions
<1> HIDE DEF p, start, K
<1>5. From(s1, State, K, 1) /\ s1 \in StateOf(K) /\ Len(s1.node) = Len(State.node) + 1
  <2>1. From(s1, State, K, 1)
    BY <1>2, <1>3, <1>4, AddFrom
  <2>2. QED
    BY <2>1 DEF From
<1> HIDE DEF s1
<1>6. From(s2, State, K, 2) /\ s2 \in StateOf(K) /\ Len(s2.node) = Len(State.node) + 2
  <2>1. From(s2, s1, K, 1)
    BY <1>2, <1>3, <1>4, <1>5, AddFrom
  <2> HIDE DEF s2
  <2>2. From(s2, State, K, 1 + 1)
    BY <1>2, <1>5, <2>1, FromTrans
  <2>3. QED
    BY <2>2 DEF From
<1> HIDE DEF s2
<1>7. From(s3, State, K, 3) /\ s3 \in StateOf(K)
  <2>1. From(s3, s2, K, 1)
    BY <1>2, <1>3, <1>4, <1>6, AddFrom
  <2> HIDE DEF s3
  <2>2. From(s3, State, K, 2 + 1)
    BY <1>2, <1>6, <2>1, FromTrans
  <2>3. QED
    BY <2>2 DEF From
<1> HIDE DEF s3
<1>8. From(t1, s3, K, 0) /\ t1 \in StateOf(K)
  <2>1. From(t1, s3, K, 0)
    BY <1>2, <1>3, <1>7, PlanFields
  <2>2. QED
    BY <2>1 DEF From
<1> HIDE DEF t1
<1>9. From(t2, t1, K, 0) /\ t2 \in StateOf(K) /\ t2.plan.opTrue # NULL
  <2>1. From(t2, t1, K, 0)
    BY <1>2, <1>3, <1>8, PlanFields
  <2>2. t2.plan.opTrue = start + 1
    <3>1. t1 \in [node : Seq(NodeOf(K)), plan : PlanOf(K)]
      BY <1>8 DEF StateOf
    <3>2. QED
      BY <3>1 DEF PlanOf
  <2>3. start + 1 # 0
    BY <1>3
  <2>4. QED
    BY <2>1, <2>2, <2>3 DEF From, NULL
<1> HIDE DEF t2
<1>10. From(t3, t2, K, 0) /\ t3 \in StateOf(K)
  <2>1. From(t3, t2, K, 0)
    BY <1>2, <1>3, <1>9, PlanFields
  <2>2. QED
    BY <2>1 DEF From
<1> HIDE DEF t3
<1>11. From(t4, t3, K, 0)
  <2>1. 1 \in Nat \ {0}
    OBVIOUS
  <2>2. QED
    BY <1>2, <1>10, <2>1, PlanFields
<1> HIDE DEF t4
<1>12. From(t4, State, K, 3)
  BY <1>2, <1>7, <1>8, <1>9, <1>10, <1>11, FromSame
<1>13. t4.plan.opTrue # NULL
  BY <1>9, <1>10, <1>11 DEF From
<1>14. "from" \in GoSteps
  BY DEF GoSteps
<1>15. QED
  BY <1>1, <1>12, <1>13, <1>14, GoInv DEF K

LEMMA FromTableInv ==
  ASSUME PlanInv, FromTable
  PROVE  PlanInv'
<1> DEFINE K    == Len(node) + 1
           read == Len(node) + 1
           s    == Stage(Advance(Add(State, Read), read), read)
<1>1. phase = "build" /\ Go(Further(s), "from") /\ At("from")
  BY DEF FromTable, MoreSources, At
<1>2. /\ State \in StateOf(K) /\ K \in Nat /\ Read \in NodeOf(K) /\ 1 \in Nat
      /\ read = Newest(State) + 1 /\ Len(State.node) < K
  <2>1. 1 \in Nat
    OBVIOUS
  <2>2. State \in StateOf(K) /\ K \in Nat /\ Here \in Nat /\ Len(node) \in Nat /\ State.node = node
    BY <1>1, <2>1, Room
  <2>3. Read \in NodeOf(K)
    <3> HIDE DEF K
    <3>1. QED
      BY <2>2, ReadType
  <2>4. \A n \in Nat : n < n + 1
    OBVIOUS
  <2>5. QED
    BY <2>1, <2>2, <2>3, <2>4 DEF Newest
<1> HIDE DEF read, K
<1>3. From(s, State, K, 1) /\ s \in StateOf(K)
  <2>1. From(s, State, K, 1)
    BY <1>2, ThenFrom
  <2>2. QED
    BY <2>1 DEF From
<1> HIDE DEF s
<1>4. From(Further(s), State, K, 1)
  <2>1. From(Further(s), s, K, 0)
    BY <1>2, <1>3, FurtherFrom
  <2>2. QED
    BY <1>2, <1>3, <2>1, FromSame
<1>5. "from" \in GoSteps /\ "from" \in Steps \ {"consts"}
  BY DEF GoSteps, Steps
<1>6. QED
  BY <1>1, <1>2, <1>4, <1>5, GoOn DEF K

LEMMA Counting ==
  ASSUME NEW a \in Nat, NEW b \in Nat
  PROVE  /\ a < a + 1 /\ a + 1 \in 0..(a + 1)
         /\ (b + 1)..a \subseteq (b + 1)..(a + 1)
OBVIOUS

(* The read of a subquery is made before the subquery is planned. *)
LEMMA ReadSubqueryInv ==
  ASSUME PlanInv, At("from"), self.i <= Len(self.query.sources), source.kind = "subquery",
         NEW process \in NodeOf(Len(node) + 1), NEW step \in {"from subquery", "join subquery"},
         Call(Add(State, process), step, source.query, Len(node) + 1, FALSE)
  PROVE  PlanInv'
<1> DEFINE K == Len(node) + 1
           s == Add(State, process)
<1>1. phase = "build" /\ self.step = "from" /\ 1 \in Nat
  BY DEF At
<1>2. /\ State \in StateOf(K) /\ K \in Nat /\ K \in 0..K /\ Len(State.node) < K
      /\ Len(State.node) + 1 = K
  <2>1. State \in StateOf(K) /\ K \in Nat /\ Len(node) \in Nat /\ State.node = node
    BY <1>1, Room
  <2>2. Len(node) < Len(node) + 1 /\ Len(node) + 1 \in 0..(Len(node) + 1)
    BY <2>1, Counting
  <2>3. QED
    BY <2>1, <2>2
<1> HIDE DEF K
<1>3. From(s, State, K, 1) /\ s \in StateOf(K) /\ Len(s.node) = K
  <2>1. From(s, State, K, 1)
    BY <1>2, AddFrom DEF K
  <2>2. s \in StateOf(K) /\ Len(s.node) = Len(State.node) + 1
    BY <2>1 DEF From
  <2>3. QED
    BY <1>2, <2>1, <2>2
<1>4. s.plan.i = self.i
  <2>1. s.plan = [self EXCEPT !.graph = Append(@, Newest(State) + 1)]
    BY <1>2, AddType DEF State, K
  <2>2. self \in PlanOf(Len(node))
    BY <1>1, Building
  <2>3. QED
    BY <2>1, <2>2 DEF PlanOf
<1> HIDE DEF s
<1>5. CallOK(s, step)
  <2>1. s.plan.query = self.query /\ s.plan.constPlans = self.constPlans
    BY <1>3 DEF From, State
  <2>2. s.plan.opTrue # NULL
    <3>1. self.opTrue # NULL
      BY <1>1, Building DEF PlanOK, self, Here
    <3>2. QED
      BY <1>3, <3>1 DEF From, State
  <2>3. self.i \in 1..Len(self.query.sources)
    BY <1>1, SourceType
  <2>4. \A k \in DOMAIN self.constPlans : self.constPlans[k] \in (Here + 1)..(Len(plans) + 1)
    <3>1. \A k \in DOMAIN self.constPlans : self.constPlans[k] \in (Here + 1)..Len(plans)
      BY <1>1, Building DEF PlanOK, self, Here
    <3>2. (Here + 1)..Len(plans) \subseteq (Here + 1)..(Len(plans) + 1)
      <4>1. Here \in Nat /\ Len(plans) \in Nat
        BY <1>1, Building
      <4>2. QED
        BY <4>1, Counting
    <3>3. QED
      BY <3>1, <3>2
  <2>5. QED
    BY <1>4, <2>1, <2>2, <2>3, <2>4 DEF CallOK
<1>6. source.query \in Nested /\ step \in {"consts"} \cup CallSteps /\ FALSE \in BOOLEAN
  BY <1>1, SourceType DEF CallSteps
<1>7. QED
  BY <1>1, <1>2, <1>3, <1>5, <1>6, CallInv DEF K, s

LEMMA FromSubqueryInv ==
  ASSUME PlanInv, FromSubquery
  PROVE  PlanInv'
<1>1. At("from") /\ phase = "build" /\ 1 \in Nat
  BY DEF FromSubquery, MoreSources, At
<1>2. Len(node) + 1 \in Nat /\ Here \in Nat
  BY <1>1, Room
<1>3. Process(Here, "read") \in NodeOf(Len(node) + 1)
  BY <1>2, ProcessType DEF Actions
<1>4. QED
  BY <1>1, <1>3, ReadSubqueryInv DEF FromSubquery, MoreSources

LEMMA JoinSubqueryInv ==
  ASSUME PlanInv, JoinSubquery
  PROVE  PlanInv'
<1>1. At("from") /\ phase = "build" /\ 1 \in Nat
  BY DEF JoinSubquery, MoreSources, At
<1>2. Len(node) + 1 \in Nat /\ Here \in Nat
  BY <1>1, Room
<1>3. [Process(Here, "read") EXCEPT !.secondary = TRUE] \in NodeOf(Len(node) + 1)
  <2>1. Process(Here, "read") \in NodeOf(Len(node) + 1)
    BY <1>2, ProcessType DEF Actions
  <2>2. QED
    BY <1>2, <2>1, NodeFields
<1>4. QED
  BY <1>1, <1>3, ReadSubqueryInv DEF JoinSubquery, MoreSources

(* The subquery last planned. *)
LEMMA ChildType ==
  ASSUME PlanInv, phase = "build", self.step \in CallSteps
  PROVE  plans[self.child] \in PlanOf(Len(node))
<1>1. self.child \in (Here + 1)..Len(plans)
  BY Building DEF PlanOK, self, Here
<1>2. self.child \in 1..Len(plans)
  <2>1. Here \in Nat /\ Len(plans) \in Nat
    BY Building
  <2>2. \A a, b \in Nat : (a + 1)..b \subseteq 1..b
    OBVIOUS
  <2>3. QED
    BY <1>1, <2>1, <2>2
<1>3. QED
  BY <1>2, Building, ElementOfSeq DEF PlanInv

LEMMA FromConsumedInv ==
  ASSUME PlanInv, FromConsumed
  PROVE  PlanInv'
<1> DEFINE K    == Len(node) + 0
           read == plans[self.child].entry
           s1   == Consume(State)
           s2   == Advance(s1, read)
           s3   == Stage(s2, read)
<1>1. phase = "build" /\ At("from subquery") /\ Go(Further(s3), "from") /\ 0 \in Nat
      /\ self.step \in CallSteps
  BY DEF FromConsumed, At, CallSteps
<1>2. State \in StateOf(K) /\ K \in Nat /\ State.plan = self /\ Len(node) = K
  <2>1. State \in StateOf(K) /\ K \in Nat /\ Len(node) \in Nat /\ State.plan = self
    BY <1>1, Room
  <2>2. \A n \in Nat : n = n + 0
    OBVIOUS
  <2>3. QED
    BY <2>1, <2>2
<1> HIDE DEF K
<1>3. plans[self.child] \in PlanOf(K)
  BY <1>1, <1>2, ChildType
<1>4. plans[State.plan.child].graph \in Seq(1..K) /\ read \in 0..K /\ read \in Nat
  BY <1>2, <1>3 DEF PlanOf
<1> HIDE DEF read
<1>5. From(s1, State, K, 0) /\ s1 \in StateOf(K)
  <2>1. From(s1, State, K, 0)
    BY <1>2, <1>4, ConsumeFrom
  <2>2. QED
    BY <2>1 DEF From
<1> HIDE DEF s1
<1>6. From(s2, s1, K, 0) /\ s2 \in StateOf(K)
  <2>1. From(s2, s1, K, 0)
    BY <1>2, <1>4, <1>5, AdvanceFrom
  <2>2. QED
    BY <2>1 DEF From
<1> HIDE DEF s2
<1>7. From(s3, s2, K, 0) /\ s3 \in StateOf(K)
  <2>1. From(s3, s2, K, 0)
    BY <1>2, <1>4, <1>6, StageFrom
  <2>2. QED
    BY <2>1 DEF From
<1> HIDE DEF s3
<1>8. From(Further(s3), s3, K, 0)
  BY <1>2, <1>7, FurtherFrom
<1>9. From(Further(s3), State, K, 0)
  BY <1>1, <1>2, <1>5, <1>6, <1>7, <1>8, FromSame
<1>10. "from" \in GoSteps /\ "from subquery" \in Steps \ {"consts"}
  BY DEF GoSteps, Steps, CallSteps
<1>11. QED
  BY <1>1, <1>9, <1>10, GoOn DEF K

LEMMA JoinTableInv ==
  ASSUME PlanInv, JoinTable
  PROVE  PlanInv'
<1> DEFINE K     == Len(node) + 4
           read  == [Read EXCEPT !.secondary = TRUE]
           right == Len(node) + 1
           s1    == Add(State, read)
           s2    == HashJoin(s1, right)
<1>1. phase = "build" /\ At("from") /\ Go(s2, "from") /\ self.i <= Len(self.query.sources)
  BY DEF JoinTable, MoreSources, At
<1>2. /\ State \in StateOf(K) /\ K \in Nat /\ Here \in Nat
      /\ Len(State.node) < K /\ (Len(State.node) + 1) + 3 <= K
  <2>1. 4 \in Nat
    OBVIOUS
  <2>2. State \in StateOf(K) /\ K \in Nat /\ Here \in Nat /\ Len(node) \in Nat /\ State.node = node
    BY <1>1, <2>1, Room
  <2>3. \A n \in Nat : n < n + 4 /\ (n + 1) + 3 <= n + 4
    OBVIOUS
  <2>4. QED
    BY <2>2, <2>3
<1> HIDE DEF right, K
<1>3. read \in NodeOf(K)
  BY <1>2, ReadType
<1> HIDE DEF read
<1>4. From(s1, State, K, 1) /\ s1 \in StateOf(K) /\ Len(s1.node) + 3 <= K
  <2>1. From(s1, State, K, 1)
    BY <1>2, <1>3, AddFrom
  <2>2. s1 \in StateOf(K) /\ Len(s1.node) = Len(State.node) + 1
    BY <2>1 DEF From
  <2>3. QED
    BY <1>2, <2>1, <2>2
<1> HIDE DEF s1
<1>5. source \in Sources
  BY <1>1, SourceType
<1>6. From(s2, s1, K, 3)
  BY <1>2, <1>4, <1>5, HashJoinFrom
<1> HIDE DEF s2
<1>7. From(s2, State, K, 1 + 3)
  BY <1>2, <1>4, <1>6, FromTrans
<1>8. 1 + 3 = 4 /\ 4 \in Nat
  OBVIOUS
<1>9. From(s2, State, K, 4)
  BY <1>7, <1>8
<1>10. "from" \in GoSteps /\ "from" \in Steps \ {"consts"}
  BY DEF GoSteps, Steps
<1>11. QED
  BY <1>1, <1>8, <1>9, <1>10, GoOn DEF K

LEMMA JoinConsumedInv ==
  ASSUME PlanInv, JoinConsumed
  PROVE  PlanInv'
<1> DEFINE K     == Len(node) + 3
           right == plans[self.child].entry
           s1    == Consume(State)
           s2    == HashJoin(s1, right)
<1>1. /\ phase = "build" /\ At("join subquery") /\ Go(s2, "from")
      /\ self.step = "join subquery" /\ self.step \in CallSteps
  BY DEF JoinConsumed, At, CallSteps
<1>2. /\ State \in StateOf(K) /\ K \in Nat /\ Here \in Nat /\ Len(State.node) \in Nat
      /\ Len(node) \in Nat /\ Len(node) <= K /\ Len(State.node) + 3 <= K /\ State.plan = self
  <2>1. 3 \in Nat
    OBVIOUS
  <2>2. State \in StateOf(K) /\ K \in Nat /\ Here \in Nat /\ Len(node) \in Nat
        /\ State.node = node /\ State.plan = self
    BY <1>1, <2>1, Room
  <2>3. \A n \in Nat : n <= n + 3 /\ n + 3 <= n + 3
    OBVIOUS
  <2>4. QED
    BY <2>2, <2>3
<1> HIDE DEF right, K
<1>3. plans[State.plan.child].graph \in Seq(1..K)
  <2>1. plans[self.child] \in PlanOf(K)
    BY <1>1, <1>2, ChildType, PlanOfGrows
  <2>2. QED
    BY <1>2, <2>1 DEF PlanOf
<1>4. From(s1, State, K, 0) /\ s1 \in StateOf(K) /\ Len(s1.node) + 3 <= K
  <2>1. From(s1, State, K, 0)
    BY <1>2, <1>3, ConsumeFrom
  <2>2. s1 \in StateOf(K) /\ Len(s1.node) = Len(State.node) + 0
    BY <2>1 DEF From
  <2>3. QED
    BY <1>2, <2>1, <2>2
<1> HIDE DEF s1
<1>5. source \in Sources
  <2>1. self.i \in 1..Len(self.query.sources)
    BY <1>1, Building DEF PlanOK, self, Here
  <2>2. Len(self.query.sources) \in Nat
    BY <1>1, Building, LenProperties DEF QueryType
  <2>3. self.i <= Len(self.query.sources)
    BY <2>1, <2>2
  <2>4. QED
    BY <1>1, <2>3, SourceType
<1>6. From(s2, s1, K, 3)
  BY <1>2, <1>4, <1>5, HashJoinFrom
<1> HIDE DEF s2
<1>7. From(s2, State, K, 0 + 3)
  BY <1>2, <1>4, <1>6, FromTrans
<1>8. 0 + 3 = 3 /\ 3 \in Nat
  OBVIOUS
<1>9. From(s2, State, K, 3)
  BY <1>7, <1>8
<1>10. "from" \in GoSteps /\ "join subquery" \in Steps \ {"consts"}
  BY DEF GoSteps, Steps, CallSteps
<1>11. QED
  BY <1>1, <1>8, <1>9, <1>10, GoOn DEF K

LEMMA CartesianJoinInv ==
  ASSUME PlanInv, CartesianJoin
  PROVE  PlanInv'
<1> DEFINE K      == Len(node) + 3
           join   == Len(node) + 1
           p0     == Process(Here, "cartesian_join")
           p1     == [p0 EXCEPT !.root = TRUE]
           p2     == [p1 EXCEPT !.rootFifo = 1]
           joined == Stage(Advance(Add(State, p2), join), join)
           t      == Logic(joined, "logic", source.conditions, FALSE, {})
<1>1. phase = "build" /\ At("from") /\ (Fail \/ Go(Further(t), "from"))
  BY DEF CartesianJoin, MoreSources, At
<1>2. /\ State \in StateOf(K) /\ K \in Nat /\ Here \in Nat /\ Len(State.node) < K
      /\ (Len(State.node) + 1) + 2 <= K /\ join = Newest(State) + 1
  <2>1. 3 \in Nat
    OBVIOUS
  <2>2. State \in StateOf(K) /\ K \in Nat /\ Here \in Nat /\ Len(node) \in Nat /\ State.node = node
    BY <1>1, <2>1, Room
  <2>3. \A n \in Nat : n < n + 3 /\ (n + 1) + 2 <= n + 3
    OBVIOUS
  <2>4. QED
    BY <2>2, <2>3 DEF Newest
<1> HIDE DEF join, K
<1>3. p2 \in NodeOf(K)
  <2>1. p0 \in NodeOf(K)
    BY <1>2, ProcessType DEF Actions
  <2> HIDE DEF p0
  <2>2. p1 \in NodeOf(K)
    BY <1>2, <2>1, NodeFields
  <2> HIDE DEF p1
  <2>3. QED
    BY <1>2, <2>2, NodeFields
<1> HIDE DEF p2
<1>4. From(joined, State, K, 1) /\ joined \in StateOf(K) /\ Len(joined.node) + 2 <= K
  <2>1. From(joined, State, K, 1)
    BY <1>2, <1>3, ThenFrom
  <2>2. joined \in StateOf(K) /\ Len(joined.node) = Len(State.node) + 1
    BY <2>1 DEF From
  <2>3. QED
    BY <1>2, <2>1, <2>2
<1> HIDE DEF joined
<1>5. From(t, State, K, 3) /\ t \in StateOf(K)
  <2>1. "logic" \in Actions /\ {} \in SUBSET (1..K) /\ FALSE \in BOOLEAN
    BY DEF Actions
  <2>2. From(t, joined, K, 2)
    BY <1>2, <1>4, <2>1, LogicFrom
  <2> HIDE DEF t
  <2>3. From(t, State, K, 1 + 2)
    BY <1>2, <1>4, <2>2, FromTrans
  <2>4. QED
    BY <2>3 DEF From
<1> HIDE DEF t
<1>6. From(Further(t), State, K, 3)
  <2>1. From(Further(t), t, K, 0)
    BY <1>2, <1>5, FurtherFrom
  <2>2. QED
    BY <1>2, <1>5, <2>1, FromSame
<1>7. "from" \in GoSteps /\ "from" \in Steps \ {"consts"} /\ 3 \in Nat
  BY DEF GoSteps, Steps
<1>8. QED
  BY <1>1, <1>6, <1>7, GoOn, FailInv DEF K

(* The values that a clause uses have been built: they come after this plan, and it is the
   innermost one. *)
LEMMA ValuesType ==
  ASSUME PlanInv, phase = "build"
  PROVE  \A k \in DOMAIN self.constPlans : plans[self.constPlans[k]].opTrue \in 1..Len(node)
<1>1. SUFFICES ASSUME NEW k \in DOMAIN self.constPlans
               PROVE  plans[self.constPlans[k]].opTrue \in 1..Len(node)
  OBVIOUS
<1> DEFINE c == self.constPlans[k]
<1>2. Here \in Nat /\ Len(plans) \in Nat /\ DOMAIN plans = 1..Len(plans) /\ Len(node) \in Nat
  BY Building
<1>3. c \in (Here + 1)..Len(plans)
  BY Building DEF PlanOK, self, Here
<1> HIDE DEF c
<1>4. c \in DOMAIN plans /\ Here < c
  BY <1>2, <1>3
<1>5. c \notin Range(stack)
  <2>1. stack \in Seq(1..Len(plans)) /\ Descends(stack) /\ stack # << >>
    BY Building DEF PlanInv, Waiting
  <2>2. Len(stack) \in Nat /\ Len(stack) # 0 /\ DOMAIN stack = 1..Len(stack)
        /\ \A j \in 1..Len(stack) : stack[j] \in 1..Len(plans)
    BY <2>1, LenProperties, EmptySeq, ElementOfSeq
  <2>3. ASSUME NEW j \in 1..Len(stack) PROVE stack[j] # c
    <3>1. CASE j = 1
      BY <1>2, <1>4, <3>1 DEF Here
    <3>2. CASE j # 1
      <4>1. 1 \in DOMAIN stack /\ 1 < j
        BY <2>2, <3>2
      <4>2. stack[j] < stack[1]
        BY <2>1, <2>2, <4>1 DEF Descends
      <4>3. stack[j] < Here /\ stack[j] \in Nat
        BY <2>2, <4>2 DEF Here
      <4>4. QED
        BY <1>2, <1>4, <4>3
    <3>3. QED
      BY <3>1, <3>2
  <2>4. QED
    BY <2>2, <2>3 DEF Range
<1>6. plans[c].step = "built" /\ PlanOK(c) /\ plans[c] \in PlanOf(Len(node))
  BY <1>4, <1>5, ElementOfSeq DEF PlanInv, Waiting
<1>7. plans[c].opTrue # 0 /\ plans[c].opTrue \in 0..Len(node)
  BY <1>6 DEF PlanOK, PlanOf, NULL
<1>8. QED
  BY <1>2, <1>7 DEF c

LEMMA ValuesBuiltNow ==
  ASSUME PlanInv, phase = "build", NEW d \in Nat, NEW s, s.plan.constPlans = self.constPlans
  PROVE  ValuesBuilt(s, Len(node) + d)
<1>1. Len(node) \in Nat
  BY Building
<1>2. 1..Len(node) \subseteq 1..(Len(node) + d)
  BY <1>1
<1>3. QED
  BY <1>2, ValuesType DEF ValuesBuilt

LEMMA LogicInv ==
  ASSUME PlanInv, NEW now \in Steps \ {"consts"}, At(now),
         NEW waits \in SUBSET (1..(Len(node) + 2)),
         NEW step \in GoSteps, Go(Logic(State, "logic", 1, FALSE, waits), step)
  PROVE  PlanInv'
<1> DEFINE K == Len(node) + 2
           t == Logic(State, "logic", 1, FALSE, waits)
<1>1. phase = "build" /\ 2 \in Nat
  BY DEF At
<1>2. State \in StateOf(K) /\ K \in Nat /\ Here \in Nat /\ Len(State.node) + 2 <= K
  <2>1. State \in StateOf(K) /\ K \in Nat /\ Here \in Nat /\ Len(node) \in Nat /\ State.node = node
    BY <1>1, Room
  <2>2. Len(State.node) + 2 = K
    BY <2>1
  <2>3. QED
    BY <2>1, <2>2
<1>3. From(t, State, K, 2)
  <2>1. "logic" \in Actions /\ FALSE \in BOOLEAN
    BY DEF Actions
  <2> HIDE DEF K
  <2>2. waits \in SUBSET (1..K)
    BY DEF K
  <2>3. QED
    BY <1>2, <2>1, <2>2, LogicFrom
<1>4. QED
  BY <1>1, <1>3, GoOn

LEMMA StayInv ==
  ASSUME PlanInv, NEW now \in Steps \ {"consts"}, At(now), NEW step \in GoSteps, Go(State, step)
  PROVE  PlanInv'
<1>1. phase = "build" /\ 0 \in Nat
  BY DEF At
<1>2. From(State, State, Len(node) + 0, 0)
  BY <1>1, Room, FromSelf
<1>3. QED
  BY <1>1, <1>2, GoOn

LEMMA WhereInv ==
  ASSUME PlanInv, Where
  PROVE  PlanInv'
<1>1. phase = "build" /\ At("from") /\ 2 \in Nat
  BY DEF Where, At
<1>2. "from" \in Steps \ {"consts"} /\ "group" \in GoSteps
  BY DEF Steps, GoSteps
<1>3. WaitList(State, "where") \in SUBSET (1..(Len(node) + 2))
  <2>1. State \in StateOf(Len(node) + 2) /\ Len(node) + 2 \in Nat /\ State.plan = self
    BY <1>1, Room
  <2>2. ValuesBuilt(State, Len(node) + 2)
    BY <1>1, <2>1, ValuesBuiltNow
  <2>3. QED
    BY <2>1, <2>2, WaitListType
<1>4. CASE self.query.where
  <2>1. Go(Logic(State, "logic", 1, FALSE, WaitList(State, "where")), "group")
    BY <1>4 DEF Where
  <2>2. QED
    BY <1>1, <1>2, <1>3, <2>1, LogicInv
<1>5. CASE ~self.query.where
  <2>1. Go(State, "group")
    BY <1>5 DEF Where
  <2>2. QED
    BY <1>1, <1>2, <2>1, StayInv
<1>6. QED
  BY <1>4, <1>5

LEMMA HavingInv ==
  ASSUME PlanInv, Having
  PROVE  PlanInv'
<1>1. At("having") /\ {} \in SUBSET (1..(Len(node) + 2))
  BY DEF Having
<1>2. "having" \in Steps \ {"consts"} /\ "operation" \in GoSteps
  BY DEF Steps, GoSteps
<1>3. CASE self.query.having
  <2>1. Go(Logic(State, "logic", 1, FALSE, {}), "operation")
    BY <1>3 DEF Having
  <2>2. QED
    BY <1>1, <1>2, <2>1, LogicInv
<1>4. CASE ~self.query.having
  <2>1. Go(State, "operation")
    BY <1>4 DEF Having
  <2>2. QED
    BY <1>1, <1>2, <2>1, StayInv
<1>5. QED
  BY <1>3, <1>4

LEMMA TwoMore ==
  ASSUME NEW a \in Nat, NEW d0 \in {0, 1}, NEW d1 \in {0, 1}
  PROVE  /\ d0 = 1 => a < a + (d0 + d1)
         /\ d1 = 1 => a + d0 < a + (d0 + d1)
OBVIOUS

LEMMA GroupInv ==
  ASSUME PlanInv, Group
  PROVE  PlanInv'
<1> DEFINE d0   == IF self.query.group THEN 1 ELSE 0
           d1   == IF self.query.distinct THEN 1 ELSE 0
           d    == d0 + d1
           K    == Len(node) + d
           n    == Len(node) + 1
           p0   == Process(Here, "groupby")
           p1   == [p0 EXCEPT !.root = TRUE]
           p2   == [p1 EXCEPT !.rootFifo = 1]
           then == Stage(Advance(Add(State, p2), n), n)
           grouped == IF self.query.group THEN then ELSE State
           m    == Newest(grouped) + 1
           more == Stage(Advance(Add(grouped, Process(Here, "distinct")), m), m)
           t    == IF self.query.distinct THEN more ELSE grouped
<1>1. phase = "build" /\ At("group") /\ Go(t, "having")
  BY DEF Group, At
<1>2. d0 \in {0, 1} /\ d1 \in {0, 1} /\ d0 \in Nat /\ d1 \in Nat /\ d \in Nat
  OBVIOUS
<1> HIDE DEF d0, d1
<1>3. /\ State \in StateOf(K) /\ K \in Nat /\ Here \in Nat /\ Len(State.node) \in Nat
      /\ n = Newest(State) + 1 /\ Len(State.node) + d = K
  <2>1. State \in StateOf(K) /\ K \in Nat /\ Here \in Nat /\ Len(node) \in Nat /\ State.node = node
    BY <1>1, <1>2, Room
  <2>2. QED
    BY <2>1 DEF Newest
<1> HIDE DEF n, K
<1>4. p2 \in NodeOf(K) /\ Process(Here, "distinct") \in NodeOf(K)
  <2>1. p0 \in NodeOf(K) /\ Process(Here, "distinct") \in NodeOf(K)
    BY <1>3, ProcessType DEF Actions
  <2> HIDE DEF p0
  <2>2. p1 \in NodeOf(K)
    BY <1>3, <2>1, NodeFields
  <2> HIDE DEF p1
  <2>3. QED
    BY <1>3, <2>1, <2>2, NodeFields
<1> HIDE DEF p2
<1>5. From(grouped, State, K, d0)
  <2>1. CASE self.query.group
    <3>1. d0 = 1
      BY <2>1 DEF d0
    <3>2. Len(State.node) < K
      BY <1>2, <1>3, <3>1, TwoMore
    <3>3. From(then, State, K, 1)
      BY <1>3, <1>4, <3>2, ThenFrom
    <3>4. QED
      BY <2>1, <3>1, <3>3
  <2>2. CASE ~self.query.group
    <3>1. d0 = 0 /\ grouped = State
      BY <2>2 DEF d0
    <3>2. QED
      BY <1>3, <3>1, FromSelf
  <2>3. QED
    BY <2>1, <2>2
<1>6. grouped \in StateOf(K) /\ Len(grouped.node) = Len(State.node) + d0
  BY <1>5 DEF From
<1> HIDE DEF grouped
<1>7. From(t, grouped, K, d1)
  <2>1. CASE self.query.distinct
    <3>1. d1 = 1
      BY <2>1 DEF d1
    <3>2. Len(grouped.node) < K
      BY <1>2, <1>3, <1>6, <3>1, TwoMore
    <3>3. From(more, grouped, K, 1)
      BY <1>3, <1>4, <1>6, <3>2, ThenFrom
    <3>4. QED
      BY <2>1, <3>1, <3>3
  <2>2. CASE ~self.query.distinct
    <3>1. d1 = 0 /\ t = grouped
      BY <2>2 DEF d1
    <3>2. QED
      BY <1>3, <1>6, <3>1, FromSelf
  <2>3. QED
    BY <2>1, <2>2
<1> HIDE DEF t
<1>8. From(t, State, K, d)
  BY <1>2, <1>3, <1>5, <1>7, FromTrans
<1>9. "having" \in GoSteps /\ "group" \in Steps \ {"consts"}
  BY DEF GoSteps, Steps
<1> HIDE DEF d
<1>10. QED
  BY <1>1, <1>2, <1>8, <1>9, GoOn DEF K

LEMMA OperationInv ==
  ASSUME PlanInv, Operation
  PROVE  PlanInv'
<1> DEFINE d       == IF Filters(State) THEN 1 ELSE 0
           prev    == self.current
           linked  == Link(State, prev, 0, self.opTrue)
           quiet   == IF self.isUnion
                      THEN [linked EXCEPT !.node[self.opFalse].passive = TRUE] ELSE linked
           moved   == [quiet EXCEPT !.plan.current = self.opTrue]
           applied == ApplyProcess(moved)
           waiting == Await(applied)
           entered == Enter(waiting)
<1>1. /\ phase = "build" /\ At("operation")
      /\ Fail \/ Go(Clearing(quiet, "union"), "clear") \/ Go(Clearing(entered, "union"), "clear")
  BY DEF Operation, At
<1>2. "clear" \in GoSteps /\ "operation" \in Steps \ {"consts"} /\ "union" \in {"union", "disable", "finish"}
  BY DEF GoSteps, Steps
<1>3. ASSUME NEW K \in Nat, State \in StateOf(K)
      PROVE  From(quiet, State, K, 0) /\ quiet \in StateOf(K)
  <2>1. self.opTrue \in 0..K
    BY <1>3, StateParts DEF State, PlanOf
  <2>2. From(linked, State, K, 0) /\ linked \in StateOf(K)
    <3>1. From(linked, State, K, 0)
      BY <1>3, <2>1, LinkFrom
    <3>2. QED
      BY <3>1 DEF From
  <2> HIDE DEF linked
  <2>3. From([linked EXCEPT !.node[self.opFalse].passive = TRUE], linked, K, 0)
    BY <1>3, <2>2, NodeFieldFrom
  <2>4. From(quiet, linked, K, 0)
    BY <1>3, <2>2, <2>3, FromSelf
  <2> HIDE DEF quiet
  <2>5. From(quiet, State, K, 0)
    BY <1>3, <2>2, <2>4, FromSame
  <2>6. QED
    BY <2>5 DEF From
<1>4. CASE Go(Clearing(quiet, "union"), "clear")
  <2> DEFINE K == Len(node) + 0
  <2>1. State \in StateOf(K) /\ K \in Nat /\ 0 \in Nat
    BY <1>1, Room
  <2>2. From(quiet, State, K, 0) /\ quiet \in StateOf(K)
    BY <1>3, <2>1
  <2> HIDE DEF quiet, K
  <2>3. From(Clearing(quiet, "union"), quiet, K, 0)
    BY <1>2, <2>1, <2>2, ClearingFrom
  <2>4. From(Clearing(quiet, "union"), State, K, 0)
    BY <2>1, <2>2, <2>3, FromSame
  <2>5. QED
    BY <1>1, <1>2, <1>4, <2>1, <2>4, GoOn DEF K
<1>5. CASE Go(Clearing(entered, "union"), "clear")
  <2> DEFINE K == Len(node) + d
  <2>1. d \in Nat /\ (Filters(State) => d = 1) /\ (~Filters(State) => d = 0)
    OBVIOUS
  <2> HIDE DEF d
  <2>2. /\ State \in StateOf(K) /\ K \in Nat /\ Here \in Nat /\ Len(State.node) \in Nat
        /\ Len(State.node) + d = K /\ State.plan = self
    <3>1. State \in StateOf(K) /\ K \in Nat /\ Here \in Nat /\ Len(node) \in Nat
          /\ State.node = node /\ State.plan = self
      BY <1>1, <2>1, Room
    <3>2. QED
      BY <3>1
  <2>3. From(quiet, State, K, 0) /\ quiet \in StateOf(K)
    BY <1>3, <2>2
  <2> HIDE DEF quiet, K
  <2>4. From(moved, State, K, 0) /\ moved \in StateOf(K) /\ Len(moved.node) = Len(State.node) + 0
        /\ moved.plan.query = self.query
    <3>1. self.opTrue \in 0..K
      BY <2>2, StateParts DEF PlanOf
    <3>2. From(moved, quiet, K, 0)
      BY <2>2, <2>3, <3>1, PlanFields
    <3> HIDE DEF moved
    <3>3. From(moved, State, K, 0)
      BY <2>2, <2>3, <3>2, FromSame
    <3>4. QED
      BY <2>2, <3>3 DEF From
  <2> HIDE DEF moved
  <2>5. From(applied, State, K, d) /\ applied \in StateOf(K)
    <3>1. moved.plan.query \in QueryType
      BY <1>1, <2>4, Building
    <3>2. Filters(moved) <=> Filters(State)
      BY <2>2, <2>4 DEF Filters
    <3>3. Filters(moved) => Len(moved.node) < K
      BY <2>1, <2>2, <2>4, <3>2
    <3>4. d = IF Filters(moved) THEN 1 ELSE 0
      BY <2>1, <3>2
    <3>5. From(applied, moved, K, d)
      BY <2>2, <2>4, <3>1, <3>3, <3>4, ApplyProcessFrom
    <3> HIDE DEF applied
    <3>6. From(applied, State, K, 0 + d)
      BY <2>1, <2>2, <2>4, <3>5, FromTrans
    <3>7. 0 + d = d
      BY <2>1
    <3>8. QED
      BY <3>6, <3>7 DEF From
  <2> HIDE DEF applied
  <2>6. From(waiting, applied, K, 0) /\ waiting \in StateOf(K)
    <3>1. applied.plan.constPlans = self.constPlans
      BY <2>2, <2>5 DEF From
    <3>2. ValuesBuilt(applied, K)
      BY <1>1, <2>1, <3>1, ValuesBuiltNow DEF K
    <3>3. From(waiting, applied, K, 0)
      BY <2>2, <2>5, <3>2, AwaitFrom
    <3>4. QED
      BY <3>3 DEF From
  <2> HIDE DEF waiting
  <2>7. From(entered, waiting, K, 0) /\ entered \in StateOf(K)
    <3>1. From(entered, waiting, K, 0)
      BY <2>2, <2>6, EnterFrom
    <3>2. QED
      BY <3>1 DEF From
  <2> HIDE DEF entered
  <2>8. From(Clearing(entered, "union"), entered, K, 0)
    BY <1>2, <2>2, <2>7, ClearingFrom
  <2>9. From(Clearing(entered, "union"), State, K, d)
    BY <2>1, <2>2, <2>5, <2>6, <2>7, <2>8, FromSame
  <2>10. QED
    BY <1>1, <1>2, <1>5, <2>1, <2>9, GoOn DEF K
<1>6. QED
  BY <1>1, <1>4, <1>5, FailInv

(* A step that makes no node. *)
LEMMA NoNodeInv ==
  ASSUME PlanInv, NEW now \in Steps \ {"consts"}, At(now), NEW s,
         \A K \in Nat : State \in StateOf(K) /\ K = Len(node) => From(s, State, K, 0),
         NEW step \in GoSteps, Go(s, step)
  PROVE  PlanInv'
<1>1. phase = "build" /\ 0 \in Nat
  BY DEF At
<1>2. Len(node) \in Nat /\ State \in StateOf(Len(node) + 0)
  BY <1>1, Room
<1>3. Len(node) + 0 = Len(node)
  BY <1>2
<1>4. From(s, State, Len(node), 0)
  BY <1>2, <1>3
<1>5. From(s, State, Len(node) + 0, 0)
  BY <1>3, <1>4
<1>6. QED
  BY <1>1, <1>5, GoOn

LEMMA RelinkInv ==
  ASSUME PlanInv, Relink
  PROVE  PlanInv'
<1> DEFINE n == self.graph[self.i]
<1>1. phase = "build" /\ At("clear") /\ self.i <= Len(self.graph)
      /\ Go(IF \E b \in 0..1 : ToPassive(State, n, b) THEN Bypass(State, n) ELSE Further(State),
            "clear")
  BY DEF Relink, At
<1>2. "clear" \in GoSteps /\ "clear" \in Steps \ {"consts"}
  BY DEF GoSteps, Steps
<1>3. n \in 1..Len(node)
  <2>1. self.graph \in Seq(1..Len(node)) /\ self.i \in Nat \ {0}
    BY <1>1, Building DEF PlanOf
  <2>2. Len(self.graph) \in Nat
    BY <2>1, LenProperties
  <2>3. self.i \in 1..Len(self.graph)
    BY <1>1, <2>1, <2>2
  <2>4. QED
    BY <2>1, <2>3, ElementOfSeq
<1> HIDE DEF n
<1>4. CASE \E b \in 0..1 : ToPassive(State, n, b)
  <2>1. ASSUME NEW K \in Nat, State \in StateOf(K), K = Len(node)
        PROVE  From(Bypass(State, n), State, K, 0)
    <3>1. K = Len(State.node)
      BY <2>1 DEF State
    <3>2. n \in 1..K
      BY <1>3, <2>1
    <3>3. QED
      BY <1>4, <2>1, <3>1, <3>2, BypassFrom
  <2>2. Go(Bypass(State, n), "clear")
    BY <1>1, <1>4
  <2>3. QED
    BY <1>1, <1>2, <2>1, <2>2, NoNodeInv
<1>5. CASE ~ \E b \in 0..1 : ToPassive(State, n, b)
  <2>1. ASSUME NEW K \in Nat, State \in StateOf(K)
        PROVE  From(Further(State), State, K, 0)
    BY <2>1, FurtherFrom
  <2>2. Go(Further(State), "clear")
    BY <1>1, <1>5
  <2>3. QED
    BY <1>1, <1>2, <2>1, <2>2, NoNodeInv
<1>6. QED
  BY <1>4, <1>5

LEMMA ClearInv ==
  ASSUME PlanInv, Clear
  PROVE  PlanInv'
<1>1. At("clear") /\ Go(FreePassive(State), "roots")
  BY DEF Clear
<1>2. "roots" \in GoSteps /\ "clear" \in Steps \ {"consts"}
  BY DEF GoSteps, Steps
<1>3. ASSUME NEW K \in Nat, State \in StateOf(K)
      PROVE  From(FreePassive(State), State, K, 0)
  BY <1>3, FreePassiveFrom
<1>4. QED
  BY <1>1, <1>2, <1>3, NoNodeInv

LEMMA RootsInv ==
  ASSUME PlanInv, Roots
  PROVE  PlanInv'
<1> DEFINE t == GetRoots(State)
           u == [t EXCEPT !.plan.i = 1]
<1>1. phase = "build" /\ At("roots") /\ Go(u, self.next)
  BY DEF Roots, At
<1>2. self.next \in GoSteps /\ "roots" \in Steps \ {"consts"}
  BY <1>1, Building DEF GoSteps, Steps, PlanOf
<1>3. ASSUME NEW K \in Nat, State \in StateOf(K)
      PROVE  From(u, State, K, 0)
  <2>1. From(t, State, K, 0) /\ t \in StateOf(K)
    <3>1. From(t, State, K, 0)
      BY <1>3, GetRootsFrom
    <3>2. QED
      BY <3>1 DEF From
  <2> HIDE DEF t
  <2>2. From(u, t, K, 0)
    <3>1. 1 \in Nat \ {0}
      OBVIOUS
    <3>2. QED
      BY <2>1, <3>1, PlanFields
  <2>3. QED
    BY <1>3, <2>1, <2>2, FromSame
<1>4. QED
  BY <1>1, <1>2, <1>3, NoNodeInv

LEMMA Nth ==
  ASSUME NEW T, NEW seq \in Seq(T), NEW i \in Nat \ {0}, i <= Len(seq)
  PROVE  seq[i] \in T
<1>1. Len(seq) \in Nat
  BY LenProperties
<1>2. i \in 1..Len(seq)
  BY <1>1
<1>3. QED
  BY <1>2, ElementOfSeq

LEMMA BuildUnionInv ==
  ASSUME PlanInv, BuildUnion
  PROVE  PlanInv'
<1> DEFINE K == Len(node) + 0
           s == Further(State)
           q == self.query.unions[self.i]
<1>1. phase = "build" /\ self.step = "union" /\ self.i <= Len(self.query.unions)
      /\ Call(s, "union member", q, NULL, TRUE)
  BY DEF BuildUnion, At
<1>2. K \in Nat /\ State \in StateOf(K) /\ Len(State.node) = K /\ 0 \in Nat /\ State.plan = self
  <2>1. 0 \in Nat
    OBVIOUS
  <2>2. State \in StateOf(K) /\ K \in Nat /\ State.node = node /\ State.plan = self /\ Len(node) \in Nat
    BY <1>1, <2>1, Room
  <2>3. \A n \in Nat : n + 0 = n
    OBVIOUS
  <2>4. QED
    BY <2>1, <2>2, <2>3
<1>3. q \in Nested
  <2>1. self.query.unions \in Seq(Nested) /\ self.i \in Nat \ {0}
    BY <1>1, Building DEF QueryType, PlanOf
  <2>2. QED
    BY <1>1, <2>1, Nth
<1> HIDE DEF q, K
<1>4. From(s, State, K, 0) /\ s \in StateOf(K) /\ Len(s.node) = K
  <2>1. From(s, State, K, 0)
    BY <1>2, FurtherFrom
  <2>2. Len(State.node) + 0 = Len(State.node)
    BY <1>2
  <2> HIDE DEF s
  <2>3. QED
    BY <1>2, <2>1, <2>2 DEF From
<1> HIDE DEF s
<1>5. CallOK(s, "union member")
  <2>1. s.plan.opTrue # NULL
    <3>1. self.opTrue # NULL
      BY <1>1, Building DEF PlanOK, self, Here
    <3>2. QED
      BY <1>2, <1>4, <3>1 DEF From
  <2>2. s.plan.constPlans = self.constPlans
    BY <1>2, <1>4 DEF From
  <2>3. \A k \in DOMAIN self.constPlans : self.constPlans[k] \in (Here + 1)..(Len(plans) + 1)
    <3>1. \A k \in DOMAIN self.constPlans : self.constPlans[k] \in (Here + 1)..Len(plans)
      BY <1>1, Building DEF PlanOK, self, Here
    <3>2. (Here + 1)..Len(plans) \subseteq (Here + 1)..(Len(plans) + 1)
      <4>1. Here \in Nat /\ Len(plans) \in Nat
        BY <1>1, Building
      <4>2. QED
        BY <4>1, Counting
    <3>3. QED
      BY <3>1, <3>2
  <2>4. QED
    BY <2>1, <2>2, <2>3 DEF CallOK
<1>6. NULL \in 0..K /\ TRUE \in BOOLEAN /\ "union member" \in {"consts"} \cup CallSteps
  BY <1>2 DEF NULL, CallSteps
<1>7. QED
  BY <1>1, <1>2, <1>3, <1>4, <1>5, <1>6, CallInv DEF K

LEMMA UnionConsumedInv ==
  ASSUME PlanInv, UnionConsumed
  PROVE  PlanInv'
<1> DEFINE member == plans[self.child]
           s1     == Consume(State)
           v      == Append(s1.node[self.opTrue].unionEnds, member.current)
           s2     == [s1 EXCEPT !.node[self.opTrue].unionEnds = v]
           s3     == [s2 EXCEPT !.node[member.opTrue].passive = TRUE]
<1>1. /\ phase = "build" /\ At("union member") /\ self.step \in CallSteps
      /\ Go(IF member.isConst THEN s2 ELSE s3, "union")
  BY DEF UnionConsumed, At, CallSteps
<1>2. "union" \in GoSteps /\ "union member" \in Steps \ {"consts"}
  BY DEF GoSteps, Steps, CallSteps
<1>3. ASSUME NEW K \in Nat, State \in StateOf(K), K = Len(node)
      PROVE  From(IF member.isConst THEN s2 ELSE s3, State, K, 0)
  <2>1. member \in PlanOf(K)
    BY <1>1, <1>3, ChildType
  <2>2. plans[State.plan.child].graph \in Seq(1..K) /\ member.current \in Nat
    BY <2>1 DEF PlanOf, State
  <2> HIDE DEF member
  <2>3. From(s1, State, K, 0) /\ s1 \in StateOf(K) /\ DOMAIN s1.node = 1..Len(s1.node)
    <3>1. From(s1, State, K, 0)
      BY <1>3, <2>2, ConsumeFrom
    <3>2. s1 \in StateOf(K)
      BY <3>1 DEF From
    <3> HIDE DEF s1
    <3>3. QED
      BY <3>1, <3>2, StateParts
  <2>4. self.opTrue \in DOMAIN s1.node
    <3>1. self \in PlanOf(K) /\ self.opTrue # NULL /\ Len(State.node) = K
      BY <1>1, <1>3, Building DEF PlanOK, self, Here, State, CallSteps
    <3>2. self.opTrue \in 1..K
      BY <3>1 DEF PlanOf, NULL
    <3>3. Len(s1.node) = K + 0
      BY <2>3, <3>1 DEF From
    <3>4. K + 0 = K
      BY <1>3
    <3>5. QED
      BY <2>3, <3>2, <3>3, <3>4
  <2> HIDE DEF s1
  <2>5. v \in Seq(Nat)
    <3>1. s1.node[self.opTrue] \in NodeOf(K)
      BY <1>3, <2>3, <2>4, StateParts, ElementOfSeq
    <3>2. s1.node[self.opTrue].unionEnds \in Seq(Nat)
      BY <3>1 DEF NodeOf
    <3>3. QED
      BY <2>2, <3>2, AppendProperties
  <2> HIDE DEF v
  <2>6. From(s2, s1, K, 0) /\ s2 \in StateOf(K)
    <3>1. From(s2, s1, K, 0)
      BY <1>3, <2>3, <2>5, NodeFieldFrom
    <3>2. QED
      BY <3>1 DEF From
  <2> HIDE DEF s2
  <2>7. From(s3, s2, K, 0)
    BY <1>3, <2>6, NodeFieldFrom
  <2> HIDE DEF s3
  <2>8. From(s2, State, K, 0) /\ From(s3, State, K, 0)
    BY <1>3, <2>3, <2>6, <2>7, FromSame
  <2>9. QED
    BY <2>8
<1>4. QED
  BY <1>1, <1>2, <1>3, NoNodeInv

LEMMA OrderInv ==
  ASSUME PlanInv, Order
  PROVE  PlanInv'
<1> DEFINE n       == Len(node) + 1
           then    == Stage(Advance(Add(State, Process(Here, "orderby")), n), n)
           sorted  == [then EXCEPT !.plan.opTrue = n]
           ordered == IF self.query.order THEN sorted ELSE State
           next    == IF self.query.op = "delete" THEN "disable" ELSE "finish"
           t       == Clearing(ordered, next)
           d       == IF self.query.order THEN 1 ELSE 0
           K       == Len(node) + d
<1>1. phase = "build" /\ At("union") /\ Go(t, "clear")
  BY DEF Order, At
<1>2. "clear" \in GoSteps /\ "union" \in Steps \ {"consts"} /\ next \in {"union", "disable", "finish"}
  BY DEF GoSteps, Steps
<1> HIDE DEF next
<1>3. d \in Nat
  OBVIOUS
<1>4. /\ State \in StateOf(K) /\ K \in Nat /\ Here \in Nat
      /\ n = Newest(State) + 1 /\ Len(State.node) = Len(node)
  <2> HIDE DEF d
  <2>1. State \in StateOf(K) /\ K \in Nat /\ Here \in Nat /\ State.node = node
    BY <1>1, <1>3, Room
  <2>2. QED
    BY <2>1 DEF Newest
<1>5. From(ordered, State, K, d)
  <2>1. CASE self.query.order
    <3>1. d = 1
      BY <2>1
    <3>2. Len(node) \in Nat
      BY <1>1, Building
    <3>3. Len(State.node) < K /\ n \in 1..K
      BY <1>4, <3>1, <3>2
    <3> HIDE DEF d, n, K
    <3>4. Process(Here, "orderby") \in NodeOf(K)
      BY <1>4, ProcessType DEF Actions
    <3>5. From(then, State, K, 1) /\ then \in StateOf(K)
      <4>1. From(then, State, K, 1)
        BY <1>4, <3>3, <3>4, ThenFrom
      <4>2. QED
        BY <4>1 DEF From
    <3> HIDE DEF then
    <3>6. From(sorted, then, K, 0)
      BY <1>4, <3>3, <3>5, PlanFields
    <3> HIDE DEF sorted
    <3>7. From(sorted, State, K, 1)
      BY <1>4, <3>5, <3>6, FromSame
    <3>8. QED
      BY <2>1, <3>1, <3>7
  <2>2. CASE ~self.query.order
    <3>1. d = 0 /\ ordered = State
      BY <2>2
    <3> HIDE DEF K, d, ordered
    <3>2. QED
      BY <1>4, <3>1, FromSelf
  <2>3. QED
    BY <2>1, <2>2
<1> HIDE DEF K, d, ordered
<1>6. ordered \in StateOf(K)
  BY <1>5 DEF From
<1>7. From(t, ordered, K, 0)
  BY <1>2, <1>4, <1>6, ClearingFrom
<1>8. From(t, State, K, d)
  BY <1>3, <1>4, <1>5, <1>7, FromSame
<1> HIDE DEF t
<1>9. QED
  BY <1>1, <1>2, <1>3, <1>8, GoOn DEF K

LEMMA DisableInv ==
  ASSUME PlanInv, Disable
  PROVE  PlanInv'
<1> DEFINE t == DisableStranded(State)
           u == Clearing(t, "finish")
<1>1. At("disable") /\ Go(u, "clear")
  BY DEF Disable
<1>2. "clear" \in GoSteps /\ "disable" \in Steps \ {"consts"} /\ "finish" \in {"union", "disable", "finish"}
  BY DEF GoSteps, Steps
<1>3. ASSUME NEW K \in Nat, State \in StateOf(K)
      PROVE  From(u, State, K, 0)
  <2>1. From(t, State, K, 0) /\ t \in StateOf(K)
    <3>1. From(t, State, K, 0)
      BY <1>3, DisableStrandedFrom
    <3>2. QED
      BY <3>1 DEF From
  <2> HIDE DEF t
  <2>2. From(u, t, K, 0)
    BY <1>2, <1>3, <2>1, ClearingFrom
  <2>3. QED
    BY <1>3, <2>1, <2>2, FromSame
<1>4. QED
  BY <1>1, <1>2, <1>3, NoNodeInv

LEMMA ConsumeConstInv ==
  ASSUME PlanInv, ConsumeConst
  PROVE  PlanInv'
<1> DEFINE c == self.constPlans[self.i]
           g == State.plan.graph \o plans[c].graph
           t == [State EXCEPT !.plan.graph = g]
<1>1. phase = "build" /\ At("finish") /\ self.i <= Len(self.constPlans) /\ Go(Further(t), "finish")
  BY DEF ConsumeConst, At
<1>2. "finish" \in GoSteps /\ "finish" \in Steps \ {"consts"}
  BY DEF GoSteps, Steps
<1>3. c \in DOMAIN plans
  <2>1. self.constPlans \in Seq(Nat) /\ self.i \in Nat \ {0}
    BY <1>1, Building DEF PlanOf
  <2>2. Len(self.constPlans) \in Nat /\ DOMAIN self.constPlans = 1..Len(self.constPlans)
    BY <2>1, LenProperties
  <2>3. self.i \in DOMAIN self.constPlans
    BY <1>1, <2>1, <2>2
  <2>4. c \in (Here + 1)..Len(plans)
    BY <1>1, <2>3, Building DEF PlanOK, self, Here
  <2> HIDE DEF c
  <2>5. Here \in Nat /\ Len(plans) \in Nat /\ DOMAIN plans = 1..Len(plans)
    BY <1>1, Building
  <2>6. QED
    BY <2>4, <2>5
<1> HIDE DEF c
<1>4. ASSUME NEW K \in Nat, State \in StateOf(K), K = Len(node)
      PROVE  From(Further(t), State, K, 0)
  <2>1. plans[c] \in PlanOf(K)
    BY <1>3, <1>4, ElementOfSeq DEF PlanInv
  <2>2. g \in Seq(1..K)
    <3>1. State.plan.graph \in Seq(1..K) /\ plans[c].graph \in Seq(1..K)
      BY <1>4, <2>1, StateParts DEF PlanOf
    <3>2. QED
      BY <3>1
  <2>3. From(t, State, K, 0) /\ t \in StateOf(K)
    <3>1. From(t, State, K, 0)
      BY <1>4, <2>2, PlanFields
    <3>2. QED
      BY <3>1 DEF From
  <2> HIDE DEF t
  <2>4. From(Further(t), t, K, 0)
    BY <1>4, <2>3, FurtherFrom
  <2>5. QED
    BY <1>4, <2>3, <2>4, FromSame
<1>5. QED
  BY <1>1, <1>2, <1>4, NoNodeInv

LEMMA FinishInv ==
  ASSUME PlanInv, Finish
  PROVE  PlanInv'
<1> DEFINE K      == Len(node)
           all    == GetRoots(State)
           marked == IF self.query.sources = << >> THEN MarkRootsConst(all) ELSE all
           const  == \A n \in RootsOf(marked) : marked.node[n].const
           P      == [marked.plan EXCEPT !.step = "built", !.isConst = const]
<1>1. /\ phase = "build" /\ self.step = "finish"
      /\ node' = marked.node /\ plans' = [plans EXCEPT ![Here] = P]
      /\ stack' = Tail(stack) /\ query' = query
      /\ phase' = IF Len(stack) = 1 THEN "activate" ELSE phase
  BY DEF Finish, At
<1>2. K \in Nat /\ State \in StateOf(K) /\ Len(State.node) = K /\ State.plan = self
      /\ Here \in 1..Len(plans) /\ DOMAIN plans = 1..Len(plans) /\ Len(plans) \in Nat
  <2>1. node \in Seq(NodeOf(K)) /\ self \in PlanOf(K) /\ K \in Nat
    BY <1>1, Building DEF PlanInv
  <2>2. State \in StateOf(K) /\ Len(State.node) = K /\ State.plan = self
    BY <2>1 DEF State, StateOf
  <2>3. QED
    BY <1>1, <2>1, <2>2, Building
<1> HIDE DEF K
<1>3. From(marked, State, K, 0)
  <2>1. From(all, State, K, 0) /\ all \in StateOf(K)
    <3>1. From(all, State, K, 0)
      BY <1>2, GetRootsFrom
    <3>2. QED
      BY <3>1 DEF From
  <2> HIDE DEF all
  <2>2. From(MarkRootsConst(all), all, K, 0)
    BY <1>2, <2>1, MarkRootsConstFrom
  <2>3. From(MarkRootsConst(all), State, K, 0)
    BY <1>2, <2>1, <2>2, FromSame
  <2>4. QED
    BY <2>1, <2>3
<1>4. const \in BOOLEAN
  OBVIOUS
<1> HIDE DEF marked, const
<1>5. /\ marked \in StateOf(K) /\ Len(marked.node) = K /\ marked.plan.opTrue # NULL
      /\ marked.plan.constPlans = self.constPlans
  <2>1. marked \in StateOf(K) /\ Len(marked.node) = Len(State.node) + 0
        /\ marked.plan.constPlans = self.constPlans
        /\ (self.opTrue # NULL => marked.plan.opTrue # NULL)
    BY <1>2, <1>3 DEF From
  <2>2. self.opTrue # NULL
    BY <1>1, Building DEF PlanOK, self, Here
  <2>3. K + 0 = K
    BY <1>2
  <2>4. QED
    BY <1>2, <2>1, <2>2, <2>3
<1>6. /\ marked.node \in Seq(NodeOf(K)) /\ P \in PlanOf(K) /\ P.step = "built"
      /\ P.opTrue # NULL /\ P.constPlans = self.constPlans
  <2>1. marked.node \in Seq(NodeOf(K)) /\ marked.plan \in PlanOf(K) /\ "built" \in Steps
    BY <1>2, <1>5, StateParts DEF Steps
  <2>2. QED
    BY ZenonT(60), <1>4, <1>5, <2>1 DEF PlanOf
<1> HIDE DEF P
<1>7. node' \in Seq(NodeOf(Len(node'))) /\ Len(node') = K
  BY <1>1, <1>5, <1>6
<1>8. plans' \in Seq(PlanOf(K)) /\ Len(plans') = Len(plans) /\ DOMAIN plans' = DOMAIN plans
  <2>1. plans \in Seq(PlanOf(K))
    BY DEF PlanInv, K
  <2>2. DOMAIN plans' = DOMAIN plans /\ plans' = [p \in DOMAIN plans' |-> plans'[p]]
    BY <1>1
  <2>3. \A p \in DOMAIN plans : plans'[p] \in PlanOf(K)
    BY <1>1, <1>6, <2>1, ElementOfSeq
  <2>4. QED
    BY <2>1, <2>2, <2>3, MapType
<1>9. /\ stack' \in Seq(1..Len(plans)) /\ Descends(stack')
      /\ Range(stack') = Range(stack) \ {Here}
      /\ stack' # << >> <=> Len(stack) # 1
  <2>1. stack \in Seq(1..Len(plans)) /\ Descends(stack) /\ stack # << >>
    BY <1>1, Building DEF PlanInv, Waiting
  <2>2. QED
    BY <1>1, <1>2, <2>1, Pop DEF Here
<1>10. Waiting'
  <2>1. \A p \in DOMAIN plans' : plans'[p].step = "built" <=> p \notin Range(stack')
    BY <1>1, <1>6, <1>8, <1>9 DEF PlanInv, Waiting
  <2>2. QED
    BY <1>8, <1>9, <2>1 DEF Waiting
<1>11. ASSUME NEW p \in DOMAIN plans' PROVE PlanOK(p)'
  <2>1. CASE p = Here
    <3>1. plans'[p] = P
      BY <1>1, <1>8, <2>1
    <3>2. P.step \notin CallSteps /\ P.step \notin {"from subquery", "join subquery"}
      BY <1>6 DEF CallSteps
    <3>3. \A k \in DOMAIN P.constPlans : P.constPlans[k] \in (p + 1)..Len(plans)
      BY <1>1, <1>6, <2>1, Building DEF PlanOK, self, Here
    <3>4. QED
      BY <1>6, <1>8, <3>1, <3>2, <3>3 DEF PlanOK
  <2>2. CASE p # Here
    <3>1. plans'[p] = plans[p] /\ PlanOK(p)
      BY <1>1, <1>8, <2>2 DEF PlanInv
    <3>2. QED
      BY <1>8, <3>1 DEF PlanOK
  <2>3. QED
    BY <2>1, <2>2
<1>12. phase' \in Phases /\ (phase' \in {"build", "failed"} <=> stack' # << >>)
  BY <1>1, <1>9 DEF Phases
<1>13. QED
  BY <1>1, <1>7, <1>8, <1>10, <1>11, <1>12 DEF PlanInv

-----------------------------------------------------------------------------
(* The steps after that change no plan, and of the nodes the numbers of visits only. *)

LEMMA WiredInv ==
  ASSUME PlanInv, phase \notin {"build", "failed"}, phase' \in Phases \ {"build", "failed"},
         node' \in Seq(NodeOf(Len(node))), Len(node') = Len(node), UNCHANGED <<query, plans, stack>>
  PROVE  PlanInv'
<1>1. stack = << >>
  BY DEF PlanInv
<1>2. Waiting' /\ \A p \in DOMAIN plans : PlanOK(p)'
  BY DEF PlanInv, Waiting, PlanOK
<1>3. QED
  BY <1>1, <1>2 DEF PlanInv

LEMMA ResetNodes ==
  ASSUME PlanInv, NEW next, Reset(next)
  PROVE  node' \in Seq(NodeOf(Len(node))) /\ Len(node') = Len(node)
<1> DEFINE f == [n \in DOMAIN node |-> [node[n] EXCEPT !.visits = 0]]
<1>1. node \in Seq(NodeOf(Len(node))) /\ Len(node) \in Nat
  BY LenProperties DEF PlanInv
<1>2. ASSUME NEW n \in DOMAIN node PROVE f[n] \in NodeOf(Len(node))
  <2>1. node[n] \in NodeOf(Len(node))
    BY <1>1, ElementOfSeq
  <2>2. QED
    BY <1>1, <2>1, NodeFields
<1>3. DOMAIN f = DOMAIN node /\ f = [n \in DOMAIN f |-> f[n]]
  OBVIOUS
<1>4. node' = f
  BY DEF Reset
<1> HIDE DEF f
<1>5. QED
  BY <1>1, <1>2, <1>3, <1>4, MapType

LEMMA WireInv ==
  ASSUME PlanInv, Wire
  PROVE  PlanInv'
<1>1. node \in Seq(NodeOf(Len(node))) /\ Len(node) \in Nat
  BY LenProperties DEF PlanInv
<1>2. CASE Activate
  <2>1. phase = "activate" /\ phase' = "pipes" /\ node' = node /\ UNCHANGED <<query, plans, stack>>
    BY <1>2 DEF Activate
  <2>2. QED
    BY <1>1, <2>1, WiredInv DEF Phases
<1>3. CASE MakePipes
  <2>1. phase = "pipes" /\ phase' = "count" /\ Reset("count") /\ UNCHANGED <<query, plans, stack>>
    BY <1>3 DEF MakePipes, Reset
  <2>2. QED
    BY <2>1, ResetNodes, WiredInv DEF Phases
<1>4. CASE NextRoot
  <2>1. phase \in {"count", "order"} /\ phase' = phase /\ node' = node
        /\ UNCHANGED <<query, plans, stack>>
    BY <1>4 DEF NextRoot, Traversing
  <2>2. QED
    BY <1>1, <2>1, WiredInv DEF Phases
<1>5. CASE Visit
  <2> DEFINE n == Head(trav)
             f == [node EXCEPT ![n].visits = @ + 1]
  <2>1. phase \in {"count", "order"} /\ phase' = phase /\ node' = f
        /\ UNCHANGED <<query, plans, stack>>
    BY <1>5 DEF Visit, Traversing
  <2> HIDE DEF n
  <2>2. ASSUME NEW m \in DOMAIN node PROVE f[m] \in NodeOf(Len(node))
    <3>1. node[m] \in NodeOf(Len(node))
      BY <1>1, ElementOfSeq
    <3>2. node[m].visits + 1 \in Nat
      BY <3>1 DEF NodeOf
    <3>3. [node[m] EXCEPT !.visits = node[m].visits + 1] \in NodeOf(Len(node))
      BY <1>1, <3>1, <3>2, NodeFields
    <3>4. QED
      BY <3>1, <3>3
  <2>3. DOMAIN f = DOMAIN node /\ f = [m \in DOMAIN f |-> f[m]]
    OBVIOUS
  <2> HIDE DEF f
  <2>4. f \in Seq(NodeOf(Len(node))) /\ Len(f) = Len(node)
    BY <1>1, <2>2, <2>3, MapType
  <2>5. QED
    BY <2>1, <2>4, WiredInv DEF Phases
<1>6. CASE UpdatePipes
  <2>1. phase = "count" /\ phase' = "order" /\ Reset("order") /\ UNCHANGED <<query, plans, stack>>
    BY <1>6 DEF UpdatePipes, Reset
  <2>2. QED
    BY <2>1, ResetNodes, WiredInv DEF Phases
<1>7. CASE Ordered
  <2>1. phase = "order" /\ phase' = "done" /\ node' = node /\ UNCHANGED <<query, plans, stack>>
    BY <1>7 DEF Ordered
  <2>2. QED
    BY <1>1, <2>1, WiredInv DEF Phases
<1>8. QED
  BY <1>2, <1>3, <1>4, <1>5, <1>6, <1>7 DEF Wire

LEMMA InitInv == Init => PlanInv
<1>1. SUFFICES ASSUME Init PROVE PlanInv
  OBVIOUS
<1> DEFINE P == NewPlan(query, NULL, FALSE)
<1>2. /\ query \in Queries /\ node = << >> /\ plans = <<P>> /\ stack = <<1>> /\ phase = "build"
  BY <1>1 DEF Init
<1>3. node \in Seq(NodeOf(Len(node))) /\ Len(node) = 0
  BY <1>2
<1>4. P \in PlanOf(0) /\ P.step = "consts" /\ P.constPlans = << >>
  <2>1. query \in Statements /\ NULL \in 0..0 /\ 0 \in Nat /\ FALSE \in BOOLEAN
    BY <1>2 DEF Statements, NULL
  <2>2. QED
    BY <2>1, NewPlanType
<1> HIDE DEF P
<1>5. plans \in Seq(PlanOf(0)) /\ Len(plans) = 1 /\ DOMAIN plans = {1} /\ plans[1] = P
  BY <1>2, <1>4
<1>6. Waiting
  <2>1. stack \in Seq(1..1) /\ DOMAIN stack = {1} /\ stack[1] = 1
    BY <1>2
  <2>2. Descends(stack)
    BY <2>1 DEF Descends
  <2>3. Range(stack) = {1}
    BY <2>1 DEF Range
  <2>4. QED
    BY <1>4, <1>5, <2>1, <2>2, <2>3 DEF Waiting
<1>7. PlanOK(1)
  <2>1. DOMAIN P.constPlans = {}
    BY <1>4
  <2>2. QED
    BY <1>4, <1>5, <2>1 DEF PlanOK, CallSteps
<1>8. stack # << >>
  BY <1>2
<1>9. QED
  BY <1>2, <1>3, <1>5, <1>6, <1>7, <1>8 DEF PlanInv, Phases

LEMMA NextInv ==
  ASSUME PlanInv, [Next]_vars
  PROVE  PlanInv'
<1>1. CASE Build
  BY <1>1, BuildConstInv, ConstructInv, FromTableInv, FromSubqueryInv, FromConsumedInv,
     JoinTableInv, JoinSubqueryInv, JoinConsumedInv, CartesianJoinInv, WhereInv, GroupInv,
     HavingInv, OperationInv, RelinkInv, ClearInv, RootsInv, BuildUnionInv, UnionConsumedInv,
     OrderInv, DisableInv, ConsumeConstInv, FinishInv DEF Build
<1>2. CASE Wire
  BY <1>2, WireInv
<1>3. CASE UNCHANGED vars
  BY <1>3 DEF vars, PlanInv, Waiting, PlanOK
<1>4. QED
  BY <1>1, <1>2, <1>3 DEF Next

(* The plans of the stack are being built, inside each other, and what a plan refers to has
   been built: fqlplan.c's _build calls itself and uses what comes back. *)
THEOREM PlanInvariant == Spec => []PlanInv
<1>1. QED
  BY InitInv, NextInv, PTL DEF Spec

LEMMA InvType == PlanInv => TypeOK
<1> SUFFICES ASSUME PlanInv PROVE TypeOK
  OBVIOUS
<1>2. Len(node) \in Nat /\ DOMAIN node = 1..Len(node) /\ node \in Seq(NodeOf(Len(node)))
  BY LenProperties DEF PlanInv
<1>3. ASSUME NEW n \in DOMAIN node
      PROVE  /\ \A b \in 0..1 : node[n].out[b] \in {NULL} \cup DOMAIN node
             /\ node[n].waits \subseteq DOMAIN node
             /\ node[n].rootFifo \in {-1, 0, 1}
  <2>1. node[n] \in NodeOf(Len(node))
    BY <1>2, ElementOfSeq
  <2>2. node[n].out \in [0..1 -> 0..Len(node)] /\ node[n].waits \subseteq 1..Len(node)
        /\ node[n].rootFifo \in {-1, 0, 1}
    BY <2>1 DEF NodeOf
  <2>3. 0..Len(node) = {NULL} \cup DOMAIN node
    BY <1>2 DEF NULL
  <2>4. QED
    BY <1>2, <2>2, <2>3
<1>4. ASSUME NEW p \in DOMAIN plans
      PROVE  Range(plans[p].graph) \subseteq DOMAIN node
  <2>1. plans[p] \in PlanOf(Len(node))
    BY ElementOfSeq DEF PlanInv
  <2>2. plans[p].graph \in Seq(1..Len(node))
    BY <2>1 DEF PlanOf
  <2>3. QED
    BY <1>2, <2>2, ElementOfSeq DEF Range
<1>5. QED
  BY <1>3, <1>4 DEF TypeOK, PlanInv, Waiting, Phases

(* Every field of a node and of a plan has a value of its kind, and edges, wait lists and
   graphs lead to nodes that exist, whatever the statement and however deep its subqueries
   are nested. *)
THEOREM TypeCorrect == Spec => []TypeOK
<1>1. QED
  BY PlanInvariant, InvType, PTL

-----------------------------------------------------------------------------
(* The traversal. *)

(* A set of nodes that has what its nodes lead to. *)
Closed(S) == \A n \in S : \A b \in 0..1 : node[n].out[b] \in {NULL} \cup S

(* There is a root, and every node can be reached from one. *)
Reachable ==
  /\ roots # << >>
  /\ \A S \in SUBSET graph : Range(roots) \subseteq S /\ Closed(S) => S = graph

(* And no edge leaves the graph. *)
Connected == Reachable /\ Closed(graph)

Visited == {n \in DOMAIN node : node[n].visits > 0}

(* What has been reached: the nodes visited and those in the queue. *)
Reached == Visited \cup Range(trav)

Travelling ==
  /\ trav \in Seq(graph) /\ Visited \subseteq graph /\ rootIdx \in Nat \ {0}
  /\ \A k \in DOMAIN roots : k < rootIdx => roots[k] \in Reached
  /\ \A n \in Visited : \A b \in 0..1 : node[n].out[b] \in {NULL} \cup Reached
  /\ phase = "order" => order \in Seq(graph) /\ Range(order) = Visited

TraversalInv ==
  /\ phase \notin {"order", "done"} => order = << >>
  /\ phase \in {"count", "order"} /\ Connected => Travelling
  /\ phase \in {"order", "done"} /\ Connected => \A n \in graph : inputCount[n] > 0
  /\ phase = "done" /\ Connected => Range(order) = graph

LEMMA GraphType ==
  ASSUME PlanInv
  PROVE  /\ main.graph \in Seq(1..Len(node)) /\ Len(node) \in Nat
         /\ graph \subseteq DOMAIN node /\ graph \subseteq 1..Len(node)
         /\ node \in Seq(NodeOf(Len(node))) /\ DOMAIN node = 1..Len(node)
         /\ roots \in Seq(1..Len(node)) /\ Range(roots) \subseteq graph
<1>1. node \in Seq(NodeOf(Len(node))) /\ DOMAIN node = 1..Len(node) /\ Len(node) \in Nat
  BY LenProperties DEF PlanInv
<1>2. main \in PlanOf(Len(node))
  BY ElementOfSeq DEF PlanInv, main
<1>3. main.graph \in Seq(1..Len(node))
  BY <1>2 DEF PlanOf
<1>4. graph \subseteq 1..Len(node)
  BY <1>3, ElementOfSeq DEF graph, Range
<1>5. roots \in Seq(1..Len(node))
      /\ Range(roots) = Range(main.graph) \cap {n \in graph : node[n].root}
  BY <1>3, KeptProperties DEF roots
<1>6. Range(roots) \subseteq graph
  BY <1>5 DEF graph
<1>7. QED
  BY <1>1, <1>3, <1>4, <1>5, <1>6

(* The graph stays what it is. *)
LEMMA GraphSame ==
  ASSUME PlanInv, plans' = plans,
         \A n \in DOMAIN node : node'[n].out = node[n].out /\ node'[n].root = node[n].root
  PROVE  graph' = graph /\ roots' = roots /\ (Connected' <=> Connected)
<1>1. graph' = graph /\ main.graph' = main.graph
  BY DEF graph, main
<1>2. graph \subseteq DOMAIN node
  BY GraphType
<1>3. {n \in graph : node[n].root}' = {n \in graph : node[n].root}
  BY <1>1, <1>2
<1>4. roots' = roots
  BY <1>1, <1>3 DEF roots
<1>5. ASSUME NEW S \in SUBSET graph PROVE Closed(S)' <=> Closed(S)
  BY <1>2 DEF Closed
<1>6. Connected' <=> Connected
  BY <1>1, <1>4, <1>5 DEF Connected, Reachable
<1>7. QED
  BY <1>1, <1>4, <1>6

(* When the queue is empty and no root is left, every node has been visited. *)
LEMMA AllVisited ==
  ASSUME PlanInv, Connected, Travelling, Traversed
  PROVE  Visited = graph
<1>1. trav = << >> /\ rootIdx \in Nat /\ Len(roots) \in Nat /\ DOMAIN roots = 1..Len(roots)
      /\ rootIdx > Len(roots)
  BY GraphType, LenProperties DEF Traversed, Travelling
<1>2. Reached = Visited
  BY <1>1 DEF Reached, Range
<1>3. Range(roots) \subseteq Visited
  <2>1. \A k \in DOMAIN roots : k < rootIdx
    BY <1>1
  <2>2. QED
    BY <1>2, <2>1 DEF Travelling, Range
<1>4. Closed(Visited) /\ Visited \in SUBSET graph
  BY <1>2 DEF Travelling, Closed
<1>5. QED
  BY <1>3, <1>4 DEF Connected, Reachable

LEMMA FirstRoot ==
  ASSUME PlanInv, Connected
  PROVE  1 \in DOMAIN roots /\ roots[1] \in graph
<1>1. roots \in Seq(1..Len(node)) /\ Range(roots) \subseteq graph /\ roots # << >>
  BY GraphType DEF Connected, Reachable
<1>2. Len(roots) \in Nat /\ Len(roots) # 0 /\ DOMAIN roots = 1..Len(roots)
  BY <1>1, LenProperties, EmptySeq
<1>3. QED
  BY <1>1, <1>2 DEF Range

(* dgraph_traverse_reset: nothing has been visited, and the first root is in the queue. *)
LEMMA ResetTravelling ==
  ASSUME PlanInv, Connected, NEW next, Reset(next), plans' = plans, order' = << >>
  PROVE  Travelling' /\ Connected'
<1>1. /\ node' = [n \in DOMAIN node |-> [node[n] EXCEPT !.visits = 0]]
      /\ trav' = <<roots[1]>> /\ rootIdx' = 2
  BY DEF Reset
<1>2. \A n \in DOMAIN node : node[n] \in NodeOf(Len(node))
  BY GraphType, ElementOfSeq
<1>3. DOMAIN node' = DOMAIN node
      /\ \A n \in DOMAIN node : /\ node'[n].out = node[n].out /\ node'[n].root = node[n].root
                                /\ node'[n].visits = 0
  BY <1>1, <1>2 DEF NodeOf
<1>4. graph' = graph /\ roots' = roots /\ Connected'
  BY <1>3, GraphSame
<1>5. Visited' = {}
  BY <1>3 DEF Visited
<1>6. trav' \in Seq(graph) /\ Range(trav') = {roots[1]}
  <2>1. roots[1] \in graph
    BY FirstRoot
  <2>2. DOMAIN <<roots[1]>> = {1}
    OBVIOUS
  <2>3. QED
    BY <1>1, <2>1, <2>2 DEF Range
<1>7. \A k \in DOMAIN roots : k < 2 => roots[k] \in Range(trav')
  <2>1. \A k \in DOMAIN roots : k < 2 => k = 1
    BY GraphType, LenProperties
  <2>2. QED
    BY <1>6, <2>1
<1>8. order' \in Seq(graph) /\ Range(order') = {}
  BY DEF Range
<1>9. Travelling'
  <2>1. (\A k \in DOMAIN roots : k < rootIdx => roots[k] \in Reached)'
    BY <1>1, <1>4, <1>7 DEF Reached
  <2>2. QED
    BY <1>1, <1>4, <1>5, <1>6, <1>8, <2>1 DEF Travelling
<1>10. QED
  BY <1>4, <1>9

LEMMA NextRootTravelling ==
  ASSUME PlanInv, Connected, Travelling, NextRoot
  PROVE  Travelling' /\ Connected'
<1>1. /\ trav = << >> /\ rootIdx <= Len(roots) /\ rootIdx' = rootIdx + 1
      /\ trav' = IF node[roots[rootIdx]].visits = 0 THEN <<roots[rootIdx]>> ELSE trav
      /\ UNCHANGED <<node, plans, phase, order>>
  BY DEF NextRoot, RootsLeft
<1>2. graph' = graph /\ roots' = roots /\ Connected'
  BY <1>1, GraphSame
<1>3. Visited' = Visited
  BY <1>1 DEF Visited
<1>4. rootIdx \in Nat \ {0} /\ Len(roots) \in Nat /\ DOMAIN roots = 1..Len(roots)
      /\ \A k \in DOMAIN roots : roots[k] \in graph
  BY GraphType, LenProperties DEF Travelling, Range
<1> DEFINE m == roots[rootIdx]
<1>5. rootIdx \in DOMAIN roots
  BY <1>1, <1>4
<1>6. m \in graph /\ m \in DOMAIN node /\ node[m].visits \in Nat
  <2>1. m \in graph /\ m \in DOMAIN node
    BY <1>4, <1>5, GraphType
  <2>2. node[m] \in NodeOf(Len(node))
    BY <2>1, GraphType, ElementOfSeq
  <2>3. QED
    BY <2>1, <2>2 DEF NodeOf
<1> HIDE DEF m
<1>7. trav' = IF node[m].visits = 0 THEN <<m>> ELSE << >>
  BY <1>1 DEF m
<1>8. trav' \in Seq(graph)
  BY <1>6, <1>7
<1>9. m \in Visited \cup Range(trav')
  <2>1. CASE node[m].visits = 0
    <3>1. trav' = <<m>> /\ DOMAIN <<m>> = {1}
      BY <1>7, <2>1
    <3>2. QED
      BY <3>1 DEF Range
  <2>2. CASE node[m].visits # 0
    BY <1>6, <2>2 DEF Visited
  <2>3. QED
    BY <2>1, <2>2
<1>10. Reached \subseteq Reached'
  BY <1>1, <1>3 DEF Reached, Range
<1>11. \A k \in DOMAIN roots : k < rootIdx + 1 => roots[k] \in Reached'
  <2>1. TAKE k \in DOMAIN roots
  <2>2. HAVE k < rootIdx + 1
  <2>3. k < rootIdx \/ k = rootIdx
    BY <1>4, <2>2
  <2>4. m \in Reached'
    BY <1>3, <1>9 DEF Reached
  <2>5. QED
    BY <1>10, <2>3, <2>4 DEF Travelling, m
<1>12. \A n \in Visited : \A b \in 0..1 : node[n].out[b] \in {NULL} \cup Reached'
  BY <1>10 DEF Travelling
<1>13. (phase = "order" => order \in Seq(graph) /\ Range(order) = Visited)'
  BY <1>1, <1>2, <1>3 DEF Travelling
<1>14. rootIdx' \in Nat \ {0}
  BY <1>1, <1>4
<1>15. Visited' \subseteq graph'
  BY <1>2, <1>3 DEF Travelling
<1>16. (\A k \in DOMAIN roots : k < rootIdx => roots[k] \in Reached)'
  BY <1>1, <1>2, <1>11
<1>17. (\A n \in Visited : \A b \in 0..1 : node[n].out[b] \in {NULL} \cup Reached)'
  BY <1>1, <1>3, <1>12
<1>18. QED
  BY <1>2, <1>8, <1>13, <1>14, <1>15, <1>16, <1>17 DEF Travelling

LEMMA RangeOfConcat ==
  ASSUME NEW T, NEW s \in Seq(T), NEW t \in Seq(T)
  PROVE  s \o t \in Seq(T) /\ Range(s \o t) = Range(s) \cup Range(t)
<1> DEFINE u == s \o t
           a == Len(s)
           b == Len(t)
<1>1. /\ u \in Seq(T) /\ a \in Nat /\ b \in Nat /\ Len(u) = a + b
      /\ \A i \in 1..(a + b) : u[i] = IF i <= a THEN s[i] ELSE t[i - a]
  BY ConcatProperties, LenProperties
<1>2. DOMAIN s = 1..a /\ DOMAIN t = 1..b /\ DOMAIN u = 1..(a + b)
  BY <1>1, LenProperties
<1> HIDE DEF u, a, b
<1>3. ASSUME NEW i \in 1..(a + b) PROVE u[i] \in Range(s) \cup Range(t)
  <2>1. CASE i <= a
    <3>1. i \in DOMAIN s /\ u[i] = s[i]
      BY <1>1, <1>2, <2>1
    <3>2. QED
      BY <3>1 DEF Range
  <2>2. CASE ~(i <= a)
    <3>1. i - a \in DOMAIN t /\ u[i] = t[i - a]
      BY <1>1, <1>2, <2>2
    <3>2. QED
      BY <3>1 DEF Range
  <2>3. QED
    BY <2>1, <2>2
<1>4. ASSUME NEW i \in 1..a PROVE s[i] \in Range(u)
  <2>1. i \in DOMAIN u /\ u[i] = s[i]
    BY <1>1, <1>2
  <2>2. QED
    BY <2>1 DEF Range
<1>5. ASSUME NEW i \in 1..b PROVE t[i] \in Range(u)
  <2>1. a + i \in 1..(a + b) /\ ~(a + i <= a) /\ (a + i) - a = i
    BY <1>1
  <2>2. a + i \in DOMAIN u /\ u[a + i] = t[i]
    BY <1>1, <1>2, <2>1
  <2>3. QED
    BY <2>2 DEF Range
<1>6. Range(u) = Range(s) \cup Range(t)
  BY <1>2, <1>3, <1>4, <1>5 DEF Range
<1>7. QED
  BY <1>1, <1>6 DEF u

LEMMA RangeOfTail ==
  ASSUME NEW T, NEW s \in Seq(T), s # << >>
  PROVE  Head(s) \in T /\ Tail(s) \in Seq(T) /\ Range(s) = {Head(s)} \cup Range(Tail(s))
<1> DEFINE u == Tail(s)
           l == Len(s)
<1>1. l \in Nat \ {0} /\ DOMAIN s = 1..l
  BY LenProperties, EmptySeq
<1>2. Head(s) \in T /\ Head(s) = s[1] /\ u \in Seq(T) /\ Len(u) = l - 1
      /\ \A i \in 1..(l - 1) : u[i] = s[i + 1]
  BY HeadTailProperties
<1>3. DOMAIN u = 1..(l - 1)
  BY <1>2, LenProperties
<1> HIDE DEF u, l
<1>4. ASSUME NEW i \in 1..l PROVE s[i] \in {Head(s)} \cup Range(u)
  <2>1. CASE i = 1
    BY <1>2, <2>1
  <2>2. CASE i # 1
    <3>1. i - 1 \in 1..(l - 1) /\ (i - 1) + 1 = i
      BY <1>1, <2>2
    <3>2. u[i - 1] = s[i]
      BY <1>2, <3>1
    <3>3. QED
      BY <1>3, <3>1, <3>2 DEF Range
  <2>3. QED
    BY <2>1, <2>2
<1>5. ASSUME NEW i \in 1..(l - 1) PROVE u[i] \in Range(s)
  <2>1. i + 1 \in 1..l /\ u[i] = s[i + 1]
    BY <1>1, <1>2
  <2>2. QED
    BY <1>1, <2>1 DEF Range
<1>6. Head(s) \in Range(s)
  BY <1>1, <1>2 DEF Range
<1>7. Range(s) = {Head(s)} \cup Range(u)
  BY <1>1, <1>3, <1>4, <1>5, <1>6 DEF Range
<1>8. QED
  BY <1>2, <1>7 DEF u

LEMMA VisitTravelling ==
  ASSUME PlanInv, Connected, Travelling, Visit, phase = "count" => order = << >>
  PROVE  Travelling' /\ Connected'
<1> DEFINE n  == Head(trav)
           fresh(m) == IF m \in {NULL, n} \/ node[m].visits > 0 THEN << >> ELSE <<m>>
           m0 == node[n].out[0]
           m1 == node[n].out[1]
<1>1. /\ trav # << >> /\ phase \in {"count", "order"}
      /\ node' = [node EXCEPT ![n].visits = @ + 1]
      /\ trav' = Tail(trav) \o fresh(m0) \o fresh(m1)
      /\ order' = IF phase = "order" THEN Append(order, n) ELSE order
      /\ UNCHANGED <<plans, phase, rootIdx>>
  BY DEF Visit, Traversing
<1>2. /\ n \in graph /\ Tail(trav) \in Seq(graph)
      /\ Range(trav) = {n} \cup Range(Tail(trav))
  BY <1>1, RangeOfTail DEF Travelling
<1>3. graph \subseteq DOMAIN node
  BY GraphType
<1>4. ASSUME NEW m \in DOMAIN node
      PROVE  /\ node'[m].out = node[m].out /\ node'[m].root = node[m].root
             /\ node[m].visits \in Nat
             /\ node'[m].visits = IF m = n THEN node[m].visits + 1 ELSE node[m].visits
  <2>1. node[m] \in NodeOf(Len(node))
    BY <1>4, GraphType, ElementOfSeq
  <2> HIDE DEF n
  <2>2. QED
    BY <1>1, <2>1 DEF NodeOf
<1>5. DOMAIN node' = DOMAIN node
  BY <1>1
<1>6. graph' = graph /\ roots' = roots /\ Connected'
  BY <1>1, <1>4, GraphSame
<1>7. m0 \in {NULL} \cup graph /\ m1 \in {NULL} \cup graph
  BY <1>2 DEF Connected, Closed
<1>8. \A m \in {NULL} \cup graph :
        /\ fresh(m) \in Seq(graph) /\ Range(fresh(m)) \subseteq {m}
        /\ m \in {NULL, n} \cup Visited \cup Range(fresh(m))
  <2>1. TAKE m \in {NULL} \cup graph
  <2>2. CASE m \in {NULL, n} \/ node[m].visits > 0
    <3>1. fresh(m) = << >>
      BY <2>2
    <3>2. << >> \in Seq(graph) /\ Range(<< >>) = {}
      BY DEF Range
    <3>3. m \in {NULL, n} \cup Visited
      BY <1>3, <2>2 DEF Visited
    <3> HIDE DEF fresh
    <3>4. QED
      BY <3>1, <3>2, <3>3
  <2>3. CASE ~(m \in {NULL, n} \/ node[m].visits > 0)
    <3>1. fresh(m) = <<m>> /\ m \in graph
      BY <2>3
    <3>2. <<m>> \in Seq(graph) /\ DOMAIN <<m>> = {1} /\ <<m>>[1] = m
      BY <3>1
    <3>3. Range(<<m>>) = {m}
      BY <3>2 DEF Range
    <3> HIDE DEF fresh
    <3>4. QED
      BY <3>1, <3>2, <3>3
  <2>4. QED
    BY <2>2, <2>3
<1> HIDE DEF fresh
<1>9. trav' \in Seq(graph)
      /\ Range(trav') = Range(Tail(trav)) \cup Range(fresh(m0)) \cup Range(fresh(m1))
  <2>1. fresh(m0) \in Seq(graph) /\ fresh(m1) \in Seq(graph)
    BY <1>7, <1>8
  <2>2. \A s, t \in Seq(graph) : s \o t \in Seq(graph) /\ Range(s \o t) = Range(s) \cup Range(t)
    BY RangeOfConcat
  <2> DEFINE tail == Tail(trav) \o fresh(m0)
  <2>3. tail \in Seq(graph) /\ Range(tail) = Range(Tail(trav)) \cup Range(fresh(m0))
    BY <1>2, <2>1, <2>2, Zenon
  <2> HIDE DEF m0, m1, tail
  <2>4. trav' = tail \o fresh(m1)
    BY <1>1 DEF tail
  <2>5. trav' \in Seq(graph) /\ Range(trav') = Range(tail) \cup Range(fresh(m1))
    BY <2>1, <2>2, <2>3, <2>4, Zenon
  <2>6. QED
    BY <2>3, <2>5
<1>10. Visited' = Visited \cup {n}
  BY <1>2, <1>3, <1>4, <1>5 DEF Visited
<1>11. Reached \subseteq Reached'
  BY <1>2, <1>9, <1>10 DEF Reached
<1>12. {m0, m1} \subseteq {NULL} \cup Reached'
  BY <1>7, <1>8, <1>9, <1>10 DEF Reached
<1>13. \A m \in Visited' : \A b \in 0..1 : node'[m].out[b] \in {NULL} \cup Reached'
  <2>1. TAKE m \in Visited', b \in 0..1
  <2>2. CASE m = n
    <3>1. node'[m].out = node[n].out
      BY <1>2, <1>3, <1>4, <2>2
    <3>2. b = 0 \/ b = 1
      OBVIOUS
    <3>3. QED
      BY <1>12, <3>1, <3>2
  <2>3. CASE m # n
    <3>1. m \in Visited /\ m \in DOMAIN node
      BY <1>10, <2>3 DEF Visited
    <3>2. node'[m].out = node[m].out
      BY <1>4, <3>1
    <3>3. QED
      BY <1>11, <3>1, <3>2 DEF Travelling
  <2>4. QED
    BY <2>2, <2>3
<1>14. (phase = "order" => order \in Seq(graph) /\ Range(order) = Visited)'
  <2>1. CASE phase = "order"
    <3>1. order \in Seq(graph) /\ Range(order) = Visited /\ order' = Append(order, n)
      BY <1>1, <2>1 DEF Travelling
    <3> HIDE DEF n
    <3>2. order' \in Seq(graph) /\ Range(order') = Range(order) \cup {n}
      BY <1>2, <3>1, RangeOfAppend
    <3>3. QED
      BY <1>6, <1>10, <3>1, <3>2
  <2>2. CASE phase # "order"
    BY <1>1, <2>2
  <2>3. QED
    BY <2>1, <2>2
<1>15. (\A k \in DOMAIN roots : k < rootIdx => roots[k] \in Reached)'
  BY <1>1, <1>6, <1>11 DEF Travelling
<1>16. Visited' \subseteq graph' /\ rootIdx' \in Nat \ {0}
  BY <1>1, <1>2, <1>6, <1>10 DEF Travelling
<1>17. QED
  BY <1>6, <1>9, <1>13, <1>14, <1>15, <1>16 DEF Travelling

LEMMA TravelNext ==
  ASSUME PlanInv, TraversalInv, [Next]_vars
  PROVE  TraversalInv'
<1>1. CASE Build
  <2>1. phase = "build" /\ phase' \in {"build", "failed", "activate"} /\ order' = order
    BY <1>1 DEF Build, BuildConst, Construct, FromTable, FromSubquery, FromConsumed, JoinTable,
       JoinSubquery, JoinConsumed, CartesianJoin, Where, Group, Having, Operation, Relink, Clear,
       Roots, BuildUnion, UnionConsumed, Order, Disable, ConsumeConst, Finish, MoreSources, At,
       Go, Call, Fail, wiring
  <2>2. QED
    BY <2>1 DEF TraversalInv
<1>2. CASE Activate
  <2>1. phase = "activate" /\ phase' = "pipes" /\ order' = order
    BY <1>2 DEF Activate
  <2>2. QED
    BY <2>1 DEF TraversalInv
<1>3. CASE MakePipes
  <2>1. phase = "pipes" /\ phase' = "count" /\ Reset("count") /\ plans' = plans /\ order' = order
    BY <1>3 DEF MakePipes, Reset
  <2>2. order' = << >>
    BY <2>1 DEF TraversalInv
  <2>3. Connected' <=> Connected
    <3>1. \A n \in DOMAIN node : node[n] \in NodeOf(Len(node))
      BY GraphType, ElementOfSeq
    <3>2. \A n \in DOMAIN node : node'[n].out = node[n].out /\ node'[n].root = node[n].root
      BY <2>1, <3>1 DEF Reset, NodeOf
    <3>3. QED
      BY <2>1, <3>2, GraphSame
  <2>4. Connected => Travelling'
    BY <2>1, <2>2, ResetTravelling
  <2>5. QED
    BY <2>1, <2>2, <2>3, <2>4 DEF TraversalInv
<1>4. CASE NextRoot
  <2>1. /\ phase \in {"count", "order"}
        /\ UNCHANGED <<node, plans, phase, order, inputCount>>
    BY <1>4 DEF NextRoot, Traversing
  <2>2. graph' = graph /\ (Connected' <=> Connected)
    BY <2>1, GraphSame
  <2>3. Connected => Travelling'
    BY <1>4, <2>1, NextRootTravelling DEF TraversalInv
  <2>4. QED
    BY <2>1, <2>2, <2>3 DEF TraversalInv
<1>5. CASE Visit
  <2>1. /\ phase \in {"count", "order"} /\ UNCHANGED <<plans, phase, inputCount>>
        /\ phase = "count" => order' = order
    BY <1>5 DEF Visit, Traversing
  <2>2. graph' = graph /\ (Connected' <=> Connected)
    <3>1. \A n \in DOMAIN node : node[n] \in NodeOf(Len(node))
      BY GraphType, ElementOfSeq
    <3>2. \A n \in DOMAIN node : node'[n].out = node[n].out /\ node'[n].root = node[n].root
      BY <1>5, <3>1 DEF Visit, NodeOf
    <3>3. QED
      BY <2>1, <3>2, GraphSame
  <2>3. Connected => Travelling'
    BY <1>5, <2>1, VisitTravelling DEF TraversalInv
  <2>4. QED
    BY <2>1, <2>2, <2>3 DEF TraversalInv
<1>6. CASE UpdatePipes
  <2>1. /\ phase = "count" /\ phase' = "order" /\ Reset("order") /\ Traversed
        /\ plans' = plans /\ order' = << >>
    BY <1>6 DEF UpdatePipes, Reset, TraversalInv
  <2>2. \A n \in DOMAIN node : node[n] \in NodeOf(Len(node))
    BY GraphType, ElementOfSeq
  <2>3. graph' = graph /\ (Connected' <=> Connected)
    <3>1. \A n \in DOMAIN node : node'[n].out = node[n].out /\ node'[n].root = node[n].root
      BY <2>1, <2>2 DEF Reset, NodeOf
    <3>2. QED
      BY <2>1, <3>1, GraphSame
  <2>4. Connected => Travelling'
    BY <2>1, ResetTravelling
  <2>5. ASSUME Connected, NEW n \in graph PROVE inputCount'[n] > 0
    <3>1. Visited = graph
      BY <2>1, <2>5, AllVisited DEF TraversalInv
    <3>2. DOMAIN main.graph = 1..Len(main.graph) /\ Len(main.graph) \in Nat
      BY GraphType, LenProperties
    <3>3. PICK k \in DOMAIN main.graph : main.graph[k] = n
      BY DEF graph, Range
    <3>4. \A j \in 1..k : node[main.graph[j]].visits > 0
      <4>1. TAKE j \in 1..k
      <4>2. j \in DOMAIN main.graph
        BY <3>2
      <4>3. main.graph[j] \in Visited
        BY <3>1, <4>2 DEF graph, Range
      <4>4. QED
        BY <4>3 DEF Visited
    <3>5. n \in DOMAIN node /\ node[n].visits > 0
      BY <3>1 DEF Visited
    <3>6. inputCount'[n] = node[n].visits
      BY <1>6, <3>3, <3>4, <3>5 DEF UpdatePipes
    <3>7. QED
      BY <3>5, <3>6
  <2>6. QED
    BY <2>1, <2>3, <2>4, <2>5 DEF TraversalInv
<1>7. CASE Ordered
  <2>1. /\ phase = "order" /\ phase' = "done" /\ Traversed
        /\ UNCHANGED <<node, plans, order, inputCount>>
    BY <1>7 DEF Ordered, wiring
  <2>2. graph' = graph /\ (Connected' <=> Connected)
    BY <2>1, GraphSame
  <2>3. Connected => Range(order) = graph
    <3>1. HAVE Connected
    <3>2. Travelling
      BY <2>1, <3>1 DEF TraversalInv
    <3>3. Visited = graph
      BY <2>1, <3>1, <3>2, AllVisited
    <3>4. QED
      BY <2>1, <3>2, <3>3 DEF Travelling
  <2>4. QED
    BY <2>1, <2>2, <2>3 DEF TraversalInv
<1>8. CASE UNCHANGED vars
  <2>1. UNCHANGED <<node, plans, phase, inputCount, trav, rootIdx, order>>
    BY <1>8 DEF vars
  <2>2. graph' = graph /\ roots' = roots /\ (Connected' <=> Connected)
    BY <2>1, GraphSame
  <2>3. Travelling => Travelling'
    BY <2>1, <2>2 DEF Travelling, Visited, Reached
  <2>4. QED
    BY <2>1, <2>2, <2>3 DEF TraversalInv
<1>9. QED
  BY <1>1, <1>2, <1>3, <1>4, <1>5, <1>6, <1>7, <1>8 DEF Next, Wire

(* The two passes of dgraph_traverse, in every state: what they have reached so far, and in
   the end every process of a graph that is connected. *)
THEOREM TraversalInvariant == Spec => []TraversalInv
<1>1. Init => TraversalInv
  BY DEF Init, TraversalInv
<1>2. PlanInv /\ TraversalInv /\ [Next]_vars => TraversalInv'
  BY TravelNext
<1>3. QED
  BY <1>1, <1>2, PlanInvariant, PTL DEF Spec

-----------------------------------------------------------------------------
(* What _build may do to the nodes when plan c is taken into the one that is being built
   (none is if c is that plan). *)

GraphOf(p) == Range(plans[p].graph)

(* Where an edge may lead: into the graph, to the process in front of which the plan is
   put, or to one of X. *)
Targets(t, X) == {NULL, t.plan.entry} \cup Range(t.plan.graph) \cup X

Linked(t, X) ==
  \A n \in Range(t.plan.graph) :
    ~t.node[n].freed /\ \A b \in 0..1 : t.node[n].out[b] \in Targets(t, X)

(* One node for another that differs only in what no edge and no reference depends on, and
   one that in addition may differ in what it refers to. *)
Alike(m, n) == m.plan = n.plan /\ m.freed = n.freed /\ m.out = n.out

Still(m, n) ==
  Alike(m, n) /\ m.passive = n.passive /\ m.waits = n.waits /\ m.unionEnds = n.unionEnds

(* Only nodes of the two plans change, and the graph gets no others. *)
Kin(t, c) ==
  /\ GraphOf(Here) \cup GraphOf(c) \subseteq 1..Len(node)
  /\ Len(node) \in Nat /\ Len(node) <= Len(t.node)
  /\ \A n \in 1..Len(node) :
       /\ t.node[n].plan = node[n].plan
       /\ \/ Still(t.node[n], node[n])
          \/ node[n].plan \in {Here, c} \/ n \in GraphOf(Here) \cup GraphOf(c)
  /\ \A n \in (Len(node) + 1)..Len(t.node) : t.node[n].plan = Here
  /\ Range(t.plan.graph) \subseteq
       GraphOf(Here) \cup GraphOf(c) \cup ((Len(node) + 1)..Len(t.node))

(* What the plan names was made for it. *)
Own(t) ==
  \A n \in {t.plan.current, t.plan.opTrue, t.plan.opFalse} \ {NULL} :
    n \in 1..Len(t.node) /\ t.node[n].plan = Here

Fit(t, c, X) ==
  Linked(t, X) /\ Kin(t, c) /\ Own(t) /\ t.plan.entry = self.entry

(* A node that may be changed. *)
Mine(t, c, n) == t.node[n].plan \in {Here, c} \/ n \in Range(t.plan.graph)

LEMMA FitChange ==
  ASSUME NEW K \in Nat, NEW s \in StateOf(K), NEW t \in StateOf(K), NEW c, NEW X, Fit(s, c, X),
         Len(t.node) = Len(s.node),
         \A n \in 1..Len(s.node) :
           t.node[n].plan = s.node[n].plan /\ (Still(t.node[n], s.node[n]) \/ Mine(s, c, n)),
         t.plan.graph = s.plan.graph, t.plan.entry = s.plan.entry, Own(t), Linked(t, X)
  PROVE  Fit(t, c, X)
<1>1. Len(s.node) \in Nat /\ Len(node) \in Nat /\ Len(node) <= Len(s.node)
  BY StateParts DEF Fit, Kin
<1>2. ASSUME NEW n \in 1..Len(node)
      PROVE  /\ t.node[n].plan = node[n].plan
             /\ \/ Still(t.node[n], node[n])
                \/ node[n].plan \in {Here, c} \/ n \in GraphOf(Here) \cup GraphOf(c)
  <2>1. n \in 1..Len(s.node) /\ n \notin (Len(node) + 1)..Len(s.node)
    BY <1>1
  <2>2. s.node[n].plan = node[n].plan
        /\ \/ Still(s.node[n], node[n])
           \/ node[n].plan \in {Here, c} \/ n \in GraphOf(Here) \cup GraphOf(c)
    BY DEF Fit, Kin
  <2>3. Mine(s, c, n) => node[n].plan \in {Here, c} \/ n \in GraphOf(Here) \cup GraphOf(c)
    BY <2>1, <2>2 DEF Mine, Fit, Kin
  <2>4. QED
    BY <2>1, <2>2, <2>3 DEF Still, Alike
<1>3. \A n \in (Len(node) + 1)..Len(t.node) : t.node[n].plan = Here
  <2>1. ASSUME NEW n \in (Len(node) + 1)..Len(t.node) PROVE t.node[n].plan = Here
    <3>1. n \in 1..Len(s.node) /\ n \in (Len(node) + 1)..Len(s.node)
      BY <1>1
    <3>2. QED
      BY <3>1 DEF Fit, Kin
  <2>2. QED
    BY <2>1
<1>4. Kin(t, c)
  BY <1>1, <1>2, <1>3 DEF Fit, Kin
<1>5. QED
  BY <1>4 DEF Fit

(* A node of this plan joins the graph, and it is what one of X was. *)
LEMMA AddFit ==
  ASSUME NEW K \in Nat, NEW s \in StateOf(K), NEW c, NEW X, NEW Y, Fit(s, c, X),
         NEW process \in NodeOf(K), Len(s.node) < K,
         X \subseteq Y \cup {Len(s.node) + 1}, process.plan = Here, ~process.freed,
         \A b \in 0..1 : process.out[b] \in Targets(s, Y) \cup {Len(s.node) + 1}
  PROVE  Fit(Add(s, process), c, Y)
<1> DEFINE t == Add(s, process)
           l == Len(s.node)
<1>1. /\ t \in StateOf(K) /\ Len(t.node) = l + 1
      /\ t.plan = [s.plan EXCEPT !.graph = Append(@, Newest(s) + 1)]
  BY AddType
<1>2. l \in Nat /\ Len(node) \in Nat /\ Len(node) <= l /\ DOMAIN s.node = 1..l /\ s.node \in Seq(NodeOf(K))
      /\ s.plan \in PlanOf(K)
  BY StateParts DEF Fit, Kin
<1>3. t.node[l + 1] = process /\ \A n \in 1..l : t.node[n] = s.node[n]
  BY <1>2 DEF Add
<1>4. /\ t.plan.entry = s.plan.entry /\ t.plan.current = s.plan.current
      /\ t.plan.opTrue = s.plan.opTrue /\ t.plan.opFalse = s.plan.opFalse
      /\ t.plan.graph = Append(s.plan.graph, l + 1)
  BY <1>1, <1>2 DEF PlanOf, Newest
<1>5. Range(t.plan.graph) = Range(s.plan.graph) \cup {l + 1}
      /\ Range(s.plan.graph) \subseteq 1..K
  <2>1. s.plan.graph \in Seq(1..K) /\ l + 1 \in 1..K
    BY SMTT(30), <1>2 DEF PlanOf
  <2>2. Range(s.plan.graph) \subseteq 1..K
    BY <2>1, ElementOfSeq DEF Range
  <2>3. QED
    BY <1>4, <2>1, <2>2, RangeOfAppend
<1>6. Range(s.plan.graph) \subseteq 1..l
  <2>1. /\ Range(s.plan.graph) \subseteq 1..Len(node) \cup ((Len(node) + 1)..l)
        /\ Len(node) <= l
    BY DEF Fit, Kin
  <2>2. QED
    BY <1>2, <2>1
<1> HIDE DEF t, l
<1>7. Linked(t, Y)
  <2>1. ASSUME NEW n \in Range(t.plan.graph), NEW b \in 0..1
        PROVE  ~t.node[n].freed /\ t.node[n].out[b] \in Targets(t, Y)
    <3>1. CASE n = l + 1
      BY <1>3, <1>4, <1>5, <3>1 DEF Targets, l
    <3>2. CASE n # l + 1
      <4>1. n \in Range(s.plan.graph) /\ t.node[n] = s.node[n]
        BY <1>3, <1>5, <1>6, <2>1, <3>2
      <4>2. ~s.node[n].freed /\ s.node[n].out[b] \in Targets(s, X)
        BY <4>1 DEF Fit, Linked
      <4>3. QED
        BY <1>4, <1>5, <4>1, <4>2 DEF Targets, l
    <3>3. QED
      BY <3>1, <3>2
  <2>2. QED
    BY <2>1 DEF Linked
<1>8. Kin(t, c)
  <2>1. ASSUME NEW n \in 1..Len(node)
        PROVE  /\ t.node[n].plan = node[n].plan
               /\ \/ Still(t.node[n], node[n])
                  \/ node[n].plan \in {Here, c} \/ n \in GraphOf(Here) \cup GraphOf(c)
    <3>1. n \in 1..l /\ t.node[n] = s.node[n]
      BY <1>2, <1>3
    <3>2. QED
      BY <3>1 DEF Fit, Kin
  <2>2. ASSUME NEW n \in (Len(node) + 1)..Len(t.node) PROVE t.node[n].plan = Here
    <3>1. CASE n = l + 1
      BY <1>3, <3>1
    <3>2. CASE n # l + 1
      <4>1. n \in 1..l /\ n \in (Len(node) + 1)..l
        BY <1>1, <1>2, <3>2 DEF t, l
      <4>2. QED
        BY <1>3, <4>1 DEF Fit, Kin, l
    <3>3. QED
      BY <3>1, <3>2
  <2>3. Len(t.node) = l + 1
    BY <1>1 DEF t, l
  <2>4. Range(t.plan.graph) \subseteq
          GraphOf(Here) \cup GraphOf(c) \cup ((Len(node) + 1)..(l + 1))
    <3>1. Range(s.plan.graph) \subseteq
            GraphOf(Here) \cup GraphOf(c) \cup ((Len(node) + 1)..l)
      BY DEF Fit, Kin, l
    <3>2. (Len(node) + 1)..l \subseteq (Len(node) + 1)..(l + 1)
          /\ l + 1 \in (Len(node) + 1)..(l + 1)
      BY <1>2
    <3>3. QED
      BY <1>5, <3>1, <3>2
  <2>5. Len(node) <= l + 1
    BY <1>2
  <2>6. GraphOf(Here) \cup GraphOf(c) \subseteq 1..Len(node) /\ Len(node) \in Nat
    BY DEF Fit, Kin
  <2>7. QED
    BY <2>1, <2>2, <2>3, <2>4, <2>5, <2>6 DEF Kin
<1>9. Own(t)
  <2>1. ASSUME NEW n \in {t.plan.current, t.plan.opTrue, t.plan.opFalse} \ {NULL}
        PROVE  n \in 1..Len(t.node) /\ t.node[n].plan = Here
    <3>1. n \in 1..l /\ s.node[n].plan = Here
      BY <1>4 DEF Fit, Own, l
    <3>2. l + 1 = Len(t.node) /\ n \in 1..(l + 1)
      BY <1>1, <1>2, <3>1 DEF t, l
    <3>3. QED
      BY <1>3, <3>1, <3>2
  <2>2. QED
    BY <2>1 DEF Own
<1>10. QED
  BY <1>4, <1>7, <1>8, <1>9 DEF Fit, t

LEMMA GraphFit ==
  ASSUME NEW K \in Nat, NEW s \in StateOf(K), NEW c, NEW X, Fit(s, c, X)
  PROVE  /\ Len(s.node) \in Nat /\ Len(node) \in Nat /\ Len(node) <= Len(s.node)
         /\ Range(s.plan.graph) \subseteq 1..Len(s.node)
<1>1. Len(s.node) \in Nat
  BY StateParts
<1>2. /\ Range(s.plan.graph) \subseteq 1..Len(node) \cup ((Len(node) + 1)..Len(s.node))
      /\ Len(node) <= Len(s.node) /\ Len(node) \in Nat
  BY DEF Fit, Kin
<1>3. QED
  BY <1>1, <1>2

(* State t is s with changes of the nodes alone. *)
Same(t, s) ==
  /\ t.plan = s.plan /\ Len(t.node) = Len(s.node)
  /\ \A n \in 1..Len(s.node) : t.node[n].plan = s.node[n].plan

Tuned(t, s, K, c, X) == t \in StateOf(K) /\ Fit(t, c, X) /\ Same(t, s)

(* An edge of a node that may be changed. *)
LEMMA LinkFit ==
  ASSUME NEW K \in Nat, NEW s \in StateOf(K), NEW c, NEW X, Fit(s, c, X),
         NEW from, from \in 1..Len(s.node) => Mine(s, c, from),
         NEW branch \in 0..1, NEW to \in 0..K, to \in Targets(s, X)
  PROVE  Tuned(Link(s, from, branch, to), s, K, c, X)
<1> DEFINE t == Link(s, from, branch, to)
<1>1. t \in StateOf(K) /\ Len(t.node) = Len(s.node) /\ t.plan = s.plan
  BY LinkType
<1>2. DOMAIN s.node = 1..Len(s.node) /\ s.node \in Seq(NodeOf(K))
  BY StateParts
<1>3. \A n \in 1..Len(s.node) :
        /\ n # from => t.node[n] = s.node[n]
        /\ t.node[n].plan = s.node[n].plan /\ t.node[n].freed = s.node[n].freed
        /\ \A b \in 0..1 : t.node[n].out[b] = s.node[n].out[b] \/ t.node[n].out[b] = to
  <2>1. ASSUME NEW n \in 1..Len(s.node)
        PROVE  /\ n # from => t.node[n] = s.node[n]
               /\ t.node[n].plan = s.node[n].plan /\ t.node[n].freed = s.node[n].freed
               /\ \A b \in 0..1 : t.node[n].out[b] = s.node[n].out[b] \/ t.node[n].out[b] = to
    <3>1. s.node[n] \in NodeOf(K)
      BY <1>2, ElementOfSeq
    <3>2. CASE n # from
      BY <1>2, <3>2 DEF Link
    <3>3. CASE n = from
      <4>1. t.node[n] = [s.node[n] EXCEPT !.out[branch] = to]
        BY <1>2, <3>3 DEF Link
      <4>2. QED
        BY <3>1, <3>3, <4>1 DEF NodeOf
    <3>4. QED
      BY <3>2, <3>3
  <2>2. QED
    BY <2>1
<1> HIDE DEF t
<1>4. Own(t)
  BY <1>1, <1>3 DEF Own, Fit
<1>5. Linked(t, X)
  <2>1. \A n \in Range(s.plan.graph) : n \in 1..Len(s.node)
    BY GraphFit
  <2>2. QED
    BY <1>1, <1>3, <2>1 DEF Linked, Fit, Targets
<1>6. \A n \in 1..Len(s.node) : Still(t.node[n], s.node[n]) \/ Mine(s, c, n)
  BY <1>3 DEF Still, Alike
<1>7. Fit(t, c, X)
  BY <1>1, <1>3, <1>4, <1>5, <1>6, FitChange
<1>8. QED
  BY <1>1, <1>3, <1>7 DEF t, Same, Tuned

(* Changes of nodes that leave the edges alone. *)
LEMMA NodesFit ==
  ASSUME NEW K \in Nat, NEW s \in StateOf(K), NEW c, NEW X, Fit(s, c, X),
         NEW f, [s EXCEPT !.node = f] \in StateOf(K), Len(f) = Len(s.node),
         \A n \in 1..Len(s.node) :
           Still(f[n], s.node[n]) \/ (Mine(s, c, n) /\ Alike(f[n], s.node[n]))
  PROVE  Fit([s EXCEPT !.node = f], c, X) /\ Same([s EXCEPT !.node = f], s)
<1> DEFINE t == [s EXCEPT !.node = f]
<1>1. t.node = f /\ t.plan = s.plan
  BY DEF StateOf
<1> HIDE DEF t
<1>2. \A n \in 1..Len(s.node) : Alike(t.node[n], s.node[n])
  BY <1>1 DEF Alike, Still
<1>3. Own(t)
  BY <1>1, <1>2 DEF Own, Fit, Alike
<1>4. Linked(t, X)
  BY <1>1, <1>2, GraphFit DEF Linked, Fit, Targets, Alike
<1>5. QED
  <2>1. Fit(t, c, X)
    BY <1>1, <1>2, <1>3, <1>4, FitChange DEF t, Alike
  <2>2. Same(t, s)
    BY <1>1, <1>2 DEF Same, Alike
  <2>3. QED
    BY <2>1, <2>2 DEF t

LEMMA NodeFit ==
  ASSUME NEW K \in Nat, NEW s \in StateOf(K), NEW c, NEW X, Fit(s, c, X),
         NEW m, NEW v, [s EXCEPT !.node[m] = v] \in StateOf(K),
         m \in 1..Len(s.node) =>
           Still(v, s.node[m]) \/ (Mine(s, c, m) /\ Alike(v, s.node[m]))
  PROVE  /\ Fit([s EXCEPT !.node[m] = v], c, X) /\ Same([s EXCEPT !.node[m] = v], s)
<1> DEFINE f == [s.node EXCEPT ![m] = v]
<1>1. [s EXCEPT !.node[m] = v] = [s EXCEPT !.node = f]
  BY DEF StateOf
<1>2. DOMAIN s.node = 1..Len(s.node) /\ s.node \in Seq(NodeOf(K))
  BY StateParts
<1>3. Len(f) = Len(s.node)
  <2>1. f \in Seq(NodeOf(K))
    BY <1>1 DEF StateOf
  <2>2. DOMAIN f = DOMAIN s.node
    OBVIOUS
  <2> HIDE DEF f
  <2>3. QED
    BY <1>2, <2>1, <2>2, LenProperties
<1>4. \A n \in 1..Len(s.node) :
        Still(f[n], s.node[n]) \/ (Mine(s, c, n) /\ Alike(f[n], s.node[n]))
  BY <1>2 DEF Still, Alike
<1> HIDE DEF f
<1>5. QED
  BY <1>1, <1>3, <1>4, NodesFit

LEMMA NodeFieldFit ==
  ASSUME NEW K \in Nat, NEW s \in StateOf(K), NEW c, NEW X, Fit(s, c, X), NEW m
  PROVE  /\ \A v \in Actions : Tuned([s EXCEPT !.node[m].action = v], s, K, c, X)
         /\ \A v \in BOOLEAN : Tuned([s EXCEPT !.node[m].secondary = v], s, K, c, X)
         /\ \A v \in BOOLEAN : Tuned([s EXCEPT !.node[m].dual = v], s, K, c, X)
         /\ \A v \in BOOLEAN : Tuned([s EXCEPT !.node[m].second = v], s, K, c, X)
         /\ \A v \in BOOLEAN : Tuned([s EXCEPT !.node[m].killed = v], s, K, c, X)
         /\ (m \in 1..Len(s.node) => Mine(s, c, m)) =>
              \A v \in BOOLEAN : Tuned([s EXCEPT !.node[m].passive = v], s, K, c, X)
         /\ (m \in 1..Len(s.node) => Mine(s, c, m)) =>
              \A v \in Seq(Nat) : Tuned([s EXCEPT !.node[m].unionEnds = v], s, K, c, X)
         /\ (m \in 1..Len(s.node) => Mine(s, c, m)) =>
              \A v \in SUBSET (1..K) : Tuned([s EXCEPT !.node[m].waits = v], s, K, c, X)
<1>1. m \in DOMAIN s.node => s.node[m] \in NodeOf(K)
  BY StateParts, ElementOfSeq
<1>2. DOMAIN s.node = 1..Len(s.node)
  BY StateParts
<1>3. ASSUME NEW v \in Actions
      PROVE  Tuned([s EXCEPT !.node[m].action = v], s, K, c, X)
  <2> DEFINE w == [s.node[m] EXCEPT !.action = v]
  <2>1. m \in 1..Len(s.node) => Still(w, s.node[m])
    BY <1>1, <1>2 DEF Still, Alike, NodeOf
  <2>2. [s EXCEPT !.node[m] = w] \in StateOf(K)
    BY NodeFieldFrom DEF From
  <2> HIDE DEF w
  <2>3. Tuned([s EXCEPT !.node[m] = w], s, K, c, X)
    BY <2>1, <2>2, NodeFit DEF Tuned
  <2>4. QED
    BY <2>3 DEF w
<1>4. ASSUME NEW v \in BOOLEAN
      PROVE  Tuned([s EXCEPT !.node[m].secondary = v], s, K, c, X)
  <2> DEFINE w == [s.node[m] EXCEPT !.secondary = v]
  <2>1. m \in 1..Len(s.node) => Still(w, s.node[m])
    BY <1>1, <1>2 DEF Still, Alike, NodeOf
  <2>2. [s EXCEPT !.node[m] = w] \in StateOf(K)
    BY NodeFieldFrom DEF From
  <2> HIDE DEF w
  <2>3. Tuned([s EXCEPT !.node[m] = w], s, K, c, X)
    BY <2>1, <2>2, NodeFit DEF Tuned
  <2>4. QED
    BY <2>3 DEF w
<1>5. ASSUME NEW v \in BOOLEAN
      PROVE  Tuned([s EXCEPT !.node[m].dual = v], s, K, c, X)
  <2> DEFINE w == [s.node[m] EXCEPT !.dual = v]
  <2>1. m \in 1..Len(s.node) => Still(w, s.node[m])
    BY <1>1, <1>2 DEF Still, Alike, NodeOf
  <2>2. [s EXCEPT !.node[m] = w] \in StateOf(K)
    BY NodeFieldFrom DEF From
  <2> HIDE DEF w
  <2>3. Tuned([s EXCEPT !.node[m] = w], s, K, c, X)
    BY <2>1, <2>2, NodeFit DEF Tuned
  <2>4. QED
    BY <2>3 DEF w
<1>6. ASSUME NEW v \in BOOLEAN
      PROVE  Tuned([s EXCEPT !.node[m].second = v], s, K, c, X)
  <2> DEFINE w == [s.node[m] EXCEPT !.second = v]
  <2>1. m \in 1..Len(s.node) => Still(w, s.node[m])
    BY <1>1, <1>2 DEF Still, Alike, NodeOf
  <2>2. [s EXCEPT !.node[m] = w] \in StateOf(K)
    BY NodeFieldFrom DEF From
  <2> HIDE DEF w
  <2>3. Tuned([s EXCEPT !.node[m] = w], s, K, c, X)
    BY <2>1, <2>2, NodeFit DEF Tuned
  <2>4. QED
    BY <2>3 DEF w
<1>7. ASSUME NEW v \in BOOLEAN
      PROVE  Tuned([s EXCEPT !.node[m].killed = v], s, K, c, X)
  <2> DEFINE w == [s.node[m] EXCEPT !.killed = v]
  <2>1. m \in 1..Len(s.node) => Still(w, s.node[m])
    BY <1>1, <1>2 DEF Still, Alike, NodeOf
  <2>2. [s EXCEPT !.node[m] = w] \in StateOf(K)
    BY NodeFieldFrom DEF From
  <2> HIDE DEF w
  <2>3. Tuned([s EXCEPT !.node[m] = w], s, K, c, X)
    BY <2>1, <2>2, NodeFit DEF Tuned
  <2>4. QED
    BY <2>3 DEF w
<1>8. ASSUME m \in 1..Len(s.node) => Mine(s, c, m), NEW v \in BOOLEAN
      PROVE  Tuned([s EXCEPT !.node[m].passive = v], s, K, c, X)
  <2> DEFINE w == [s.node[m] EXCEPT !.passive = v]
  <2>1. m \in 1..Len(s.node) => Alike(w, s.node[m])
    BY <1>1, <1>2 DEF Still, Alike, NodeOf
  <2>2. [s EXCEPT !.node[m] = w] \in StateOf(K)
    BY NodeFieldFrom DEF From
  <2> HIDE DEF w
  <2>3. Tuned([s EXCEPT !.node[m] = w], s, K, c, X)
    BY <1>8, <2>1, <2>2, NodeFit DEF Tuned
  <2>4. QED
    BY <2>3 DEF w
<1>9. ASSUME m \in 1..Len(s.node) => Mine(s, c, m), NEW v \in Seq(Nat)
      PROVE  Tuned([s EXCEPT !.node[m].unionEnds = v], s, K, c, X)
  <2> DEFINE w == [s.node[m] EXCEPT !.unionEnds = v]
  <2>1. m \in 1..Len(s.node) => Alike(w, s.node[m])
    BY <1>1, <1>2 DEF Still, Alike, NodeOf
  <2>2. [s EXCEPT !.node[m] = w] \in StateOf(K)
    BY NodeFieldFrom DEF From
  <2> HIDE DEF w
  <2>3. Tuned([s EXCEPT !.node[m] = w], s, K, c, X)
    BY <1>9, <2>1, <2>2, NodeFit DEF Tuned
  <2>4. QED
    BY <2>3 DEF w
<1>10. ASSUME m \in 1..Len(s.node) => Mine(s, c, m), NEW v \in SUBSET (1..K)
      PROVE  Tuned([s EXCEPT !.node[m].waits = v], s, K, c, X)
  <2> DEFINE w == [s.node[m] EXCEPT !.waits = v]
  <2>1. m \in 1..Len(s.node) => Alike(w, s.node[m])
    BY <1>1, <1>2 DEF Still, Alike, NodeOf
  <2>2. [s EXCEPT !.node[m] = w] \in StateOf(K)
    BY NodeFieldFrom DEF From
  <2> HIDE DEF w
  <2>3. Tuned([s EXCEPT !.node[m] = w], s, K, c, X)
    BY <1>10, <2>1, <2>2, NodeFit DEF Tuned
  <2>4. QED
    BY <2>3 DEF w
<1>11. QED
  BY <1>3, <1>4, <1>5, <1>6, <1>7, <1>8, <1>9, <1>10

(* Changes of the plan alone. *)
LEMMA PlanFit ==
  ASSUME NEW K \in Nat, NEW s \in StateOf(K), NEW t \in StateOf(K), NEW c, NEW X, Fit(s, c, X),
         t.node = s.node, t.plan.graph = s.plan.graph, t.plan.entry = s.plan.entry, Own(t)
  PROVE  Fit(t, c, X)
<1>1. Linked(t, X)
  BY DEF Linked, Fit, Targets
<1>2. \A n \in 1..Len(s.node) :
        t.node[n].plan = s.node[n].plan /\ Still(t.node[n], s.node[n])
  BY DEF Still, Alike
<1>3. QED
  BY <1>1, <1>2, FitChange

(* What leaves the names and the graph of the plan alone. *)
SameNames(P, Q) ==
  /\ P.graph = Q.graph /\ P.entry = Q.entry /\ P.current = Q.current
  /\ P.opTrue = Q.opTrue /\ P.opFalse = Q.opFalse /\ P.constPlans = Q.constPlans

LEMMA NamesFit ==
  ASSUME NEW K \in Nat, NEW s \in StateOf(K), NEW t \in StateOf(K), NEW c, NEW X, Fit(s, c, X),
         t.node = s.node, SameNames(t.plan, s.plan)
  PROVE  Fit(t, c, X)
<1>1. Own(t)
  BY DEF Own, Fit, SameNames
<1>2. QED
  BY <1>1, PlanFit DEF SameNames

LEMMA StageFit ==
  ASSUME NEW K \in Nat, NEW s \in StateOf(K), NEW c, NEW X, Fit(s, c, X), NEW n \in Nat
  PROVE  /\ Stage(s, n) \in StateOf(K) /\ Fit(Stage(s, n), c, X)
         /\ Stage(s, n).node = s.node /\ SameNames(Stage(s, n).plan, s.plan)
<1>1. Stage(s, n) \in StateOf(K)
  BY StageFrom DEF From
<1>2. Stage(s, n).node = s.node /\ SameNames(Stage(s, n).plan, s.plan)
  BY DEF Stage, StateOf, PlanOf, SameNames
<1>3. QED
  BY <1>1, <1>2, NamesFit

LEMMA FurtherFit ==
  ASSUME NEW K \in Nat, NEW s \in StateOf(K), NEW c, NEW X, Fit(s, c, X)
  PROVE  /\ Further(s) \in StateOf(K) /\ Fit(Further(s), c, X)
         /\ Further(s).node = s.node /\ SameNames(Further(s).plan, s.plan)
<1>1. Further(s) \in StateOf(K)
  BY FurtherFrom DEF From
<1>2. Further(s).node = s.node /\ SameNames(Further(s).plan, s.plan)
  BY DEF Further, StateOf, PlanOf, SameNames
<1>3. QED
  BY <1>1, <1>2, NamesFit

LEMMA ClearingFit ==
  ASSUME NEW K \in Nat, NEW s \in StateOf(K), NEW c, NEW X, Fit(s, c, X),
         NEW next \in {"union", "disable", "finish"}
  PROVE  /\ Clearing(s, next) \in StateOf(K) /\ Fit(Clearing(s, next), c, X)
         /\ Clearing(s, next).node = s.node /\ SameNames(Clearing(s, next).plan, s.plan)
         /\ Clearing(s, next).plan.i = 1
<1>1. Clearing(s, next) \in StateOf(K)
  BY ClearingFrom DEF From
<1>2. /\ Clearing(s, next).node = s.node /\ SameNames(Clearing(s, next).plan, s.plan)
      /\ Clearing(s, next).plan.i = 1
  BY DEF Clearing, StateOf, PlanOf, SameNames
<1>3. QED
  BY <1>1, <1>2, NamesFit

(* A node of the plan becomes the current one, and the last one leads to it. *)
LEMMA AdvanceFit ==
  ASSUME NEW K \in Nat, NEW s \in StateOf(K), NEW c, NEW X, Fit(s, c, X), NEW to \in 0..K,
         to \in Targets(s, X), to \in 1..Len(s.node), s.node[to].plan = Here
  PROVE  /\ Advance(s, to) \in StateOf(K) /\ Fit(Advance(s, to), c, X)
         /\ Len(Advance(s, to).node) = Len(s.node)
         /\ Advance(s, to).plan.graph = s.plan.graph
         /\ Advance(s, to).plan.entry = s.plan.entry
         /\ Advance(s, to).plan.opTrue = s.plan.opTrue
         /\ Advance(s, to).plan.opFalse = s.plan.opFalse
         /\ Advance(s, to).plan.constPlans = s.plan.constPlans
         /\ Advance(s, to).plan.current = to
<1> DEFINE t == Link(s, s.plan.current, 0, to)
           u == [t EXCEPT !.plan.current = to]
<1>1. t \in StateOf(K) /\ t.plan = s.plan /\ Len(t.node) = Len(s.node)
  BY LinkType
<1>2. Tuned(t, s, K, c, X)
  <2>1. ASSUME s.plan.current \in 1..Len(s.node) PROVE Mine(s, c, s.plan.current)
    BY <2>1 DEF Fit, Own, Mine, NULL
  <2>2. QED
    BY <2>1, LinkFit
<1>3. t.node[to].plan = Here /\ Fit(t, c, X)
  BY <1>2 DEF Tuned, Same
<1> HIDE DEF t
<1>4. u \in StateOf(K)
  BY <1>1, PlanFields DEF From
<1>5. /\ u.node = t.node /\ u.plan.graph = t.plan.graph /\ u.plan.entry = t.plan.entry
      /\ u.plan.opTrue = t.plan.opTrue /\ u.plan.opFalse = t.plan.opFalse
      /\ u.plan.constPlans = t.plan.constPlans /\ u.plan.current = to
  BY <1>1 DEF StateOf, PlanOf
<1> HIDE DEF u
<1>6. Own(u)
  BY <1>1, <1>3, <1>5 DEF Own, Fit
<1>7. Fit(u, c, X)
  BY <1>1, <1>3, <1>4, <1>5, <1>6, PlanFit
<1>8. u = Advance(s, to)
  BY DEF Advance, u, t
<1>9. QED
  BY <1>1, <1>4, <1>5, <1>7, <1>8

(* The loops that take an edge past passive nodes. *)
LEMMA BypassFit ==
  ASSUME NEW K \in Nat, NEW s \in StateOf(K), NEW c, Fit(s, c, {}),
         NEW n \in Range(s.plan.graph),
         \E b \in 0..1 : ToPassive(s, n, b),
         s.plan.entry # NULL => ~s.node[s.plan.entry].passive
  PROVE  Tuned(Bypass(s, n), s, K, c, {})
<1> DEFINE b == IF ToPassive(s, n, 0) THEN 0 ELSE 1
           m == s.node[n].out[b]
           t == Onward(s.node[m], b)
<1>1. s.plan \in PlanOf(K) /\ Range(s.plan.graph) \subseteq 1..K
  <2>1. s.plan \in PlanOf(K) /\ s.plan.graph \in Seq(1..K)
    BY StateParts DEF PlanOf
  <2>2. QED
    BY <2>1, ElementOfSeq DEF Range
<1>2. b \in 0..1 /\ ToPassive(s, n, b)
  OBVIOUS
<1> HIDE DEF b
<1>3. m # NULL /\ s.node[m].passive /\ m \in Targets(s, {})
  BY <1>2 DEF ToPassive, Fit, Linked
<1>4. m \in Range(s.plan.graph)
  BY <1>3 DEF Targets
<1>5. t \in Targets(s, {})
  <2>1. \A e \in 0..1 : s.node[m].out[e] \in Targets(s, {})
    BY <1>4 DEF Fit, Linked
  <2>2. t = s.node[m].out[0] \/ t = s.node[m].out[1]
    BY DEF Onward
  <2>3. 0 \in 0..1 /\ 1 \in 0..1
    OBVIOUS
  <2>4. QED
    BY ONLY <2>1, <2>2, <2>3
<1>6. t \in 0..K
  BY <1>1, <1>5 DEF Targets, PlanOf, NULL
<1> HIDE DEF t
<1>7. Tuned(Link(s, n, b, t), s, K, c, {})
  BY <1>1, <1>2, <1>5, <1>6, LinkFit DEF Mine
<1>8. QED
  BY <1>7 DEF Bypass, b, t

-----------------------------------------------------------------------------
(* The clauses: what they add to the graph. *)

Grown(t, s) ==
  /\ t.plan.opTrue = s.plan.opTrue /\ t.plan.opFalse = s.plan.opFalse
  /\ t.plan.entry = s.plan.entry /\ t.plan.constPlans = s.plan.constPlans
  /\ Range(s.plan.graph) \subseteq Range(t.plan.graph)

Fits(t, s, K, c) == t \in StateOf(K) /\ Fit(t, c, {}) /\ Grown(t, s)

(* What State::add_process leaves: the node, at the end of the graph. *)
Added(t, s, process) ==
  /\ Len(t.node) = Len(s.node) + 1
  /\ Range(t.plan.graph) = Range(s.plan.graph) \cup {Len(s.node) + 1}
  /\ t.node[Len(s.node) + 1] = process
  /\ \A n \in 1..Len(s.node) : t.node[n] = s.node[n]

LEMMA AddGrown ==
  ASSUME NEW K \in Nat, NEW s \in StateOf(K), NEW process \in NodeOf(K), Len(s.node) < K
  PROVE  /\ Add(s, process) \in StateOf(K) /\ Grown(Add(s, process), s)
         /\ Len(s.node) + 1 \in 1..K
         /\ Add(s, process).plan.current = s.plan.current
         /\ Added(Add(s, process), s, process)
<1> DEFINE t == Add(s, process)
           l == Len(s.node)
<1>1. /\ t \in StateOf(K) /\ Len(t.node) = l + 1
      /\ t.plan = [s.plan EXCEPT !.graph = Append(@, Newest(s) + 1)]
  BY AddType
<1>2. l \in Nat /\ DOMAIN s.node = 1..l /\ s.node \in Seq(NodeOf(K)) /\ s.plan \in PlanOf(K)
  BY StateParts
<1>3. t.node[l + 1] = process /\ \A n \in 1..l : t.node[n] = s.node[n]
  BY <1>2 DEF Add
<1>4. /\ t.plan.entry = s.plan.entry /\ t.plan.current = s.plan.current
      /\ t.plan.opTrue = s.plan.opTrue /\ t.plan.opFalse = s.plan.opFalse
      /\ t.plan.constPlans = s.plan.constPlans /\ t.plan.graph = Append(s.plan.graph, l + 1)
  BY <1>1, <1>2 DEF PlanOf, Newest
<1> HIDE DEF t
<1>5. s.plan.graph \in Seq(1..K) /\ l + 1 \in 1..K
  BY <1>2 DEF PlanOf
<1>6. Range(t.plan.graph) = Range(s.plan.graph) \cup {l + 1}
  <2> DEFINE g == s.plan.graph
             S == 1..K
             e == l + 1
  <2>1. g \in Seq(S) /\ e \in S /\ t.plan.graph = Append(g, e)
    BY <1>4, <1>5
  <2> HIDE DEF g, S, e
  <2>2. Range(Append(g, e)) = Range(g) \cup {e}
    BY ONLY <2>1, RangeOfAppend
  <2>3. Range(t.plan.graph) = Range(g) \cup {e}
    BY ONLY <2>1, <2>2
  <2>4. QED
    BY <2>3 DEF g, e
<1>7. Range(s.plan.graph) \subseteq Range(t.plan.graph)
  BY ONLY <1>6
<1>8. Grown(t, s)
  BY <1>4, <1>7 DEF Grown
<1>9. Added(t, s, process)
  BY <1>1, <1>3, <1>6 DEF Added
<1>10. QED
  BY <1>1, <1>4, <1>5, <1>8, <1>9 DEF t

(* A process is added and follows the clauses so far. *)
LEMMA ThenFit ==
  ASSUME NEW K \in Nat, NEW s \in StateOf(K), NEW c, NEW X, Fit(s, c, X),
         X \subseteq {Len(s.node) + 1}, Len(s.node) < K,
         NEW process \in NodeOf(K), process.plan = Here, ~process.freed,
         \A b \in 0..1 : process.out[b] = NULL
  PROVE  LET t == Stage(Advance(Add(s, process), Newest(s) + 1), Newest(s) + 1)
         IN  Fits(t, s, K, c) /\ t.plan.current = Len(s.node) + 1
<1> DEFINE n == Len(s.node) + 1
           a == Add(s, process)
           d == Advance(a, n)
<1>1. /\ a \in StateOf(K) /\ Grown(a, s) /\ Len(a.node) = n /\ n \in 1..K
      /\ Range(a.plan.graph) = Range(s.plan.graph) \cup {n} /\ a.node[n] = process
  <2>1. /\ a \in StateOf(K) /\ Grown(a, s) /\ Added(a, s, process)
        /\ Len(s.node) + 1 \in 1..K
    BY AddGrown
  <2> HIDE DEF a
  <2>2. QED
    BY <2>1 DEF Added
<1>2. Fit(a, c, {})
  <2> DEFINE Y == {}
  <2>1. \A b \in 0..1 : process.out[b] \in Targets(s, Y) \cup {Len(s.node) + 1}
    BY DEF Targets
  <2>2. X \subseteq Y \cup {Len(s.node) + 1}
    OBVIOUS
  <2> HIDE DEF Y
  <2>3. Fit(Add(s, process), c, Y)
    BY <2>1, <2>2, AddFit
  <2>4. QED
    BY <2>3 DEF Y
<1> HIDE DEF n, a
<1>3. n \in 0..K /\ n \in Targets(a, {}) /\ n \in 1..Len(a.node) /\ a.node[n].plan = Here
  BY <1>1 DEF Targets
<1>4. /\ d \in StateOf(K) /\ Fit(d, c, {})
      /\ d.plan.graph = a.plan.graph /\ d.plan.entry = a.plan.entry
      /\ d.plan.opTrue = a.plan.opTrue /\ d.plan.opFalse = a.plan.opFalse
      /\ d.plan.constPlans = a.plan.constPlans /\ d.plan.current = n
  BY <1>1, <1>2, <1>3, AdvanceFit
<1> HIDE DEF d
<1>5. /\ Stage(d, n) \in StateOf(K) /\ Fit(Stage(d, n), c, {})
      /\ SameNames(Stage(d, n).plan, d.plan)
  BY <1>1, <1>4, StageFit
<1>6. Newest(s) + 1 = n
  BY DEF n, Newest
<1>7. Fits(Stage(d, n), s, K, c) /\ Stage(d, n).plan.current = n
  BY <1>1, <1>4, <1>5 DEF Fits, Grown, SameNames
<1>8. QED
  BY <1>6, <1>7 DEF d, a, n

(* A condition: its process may lead back to op_false, which is in the graph. *)
LEMMA LogicFit ==
  ASSUME NEW K \in Nat, NEW s \in StateOf(K), NEW c, Fit(s, c, {}), Len(s.node) + 2 <= K,
         Here \in Nat, NEW action \in Actions, NEW conditions, NEW fromHash \in BOOLEAN,
         NEW waits \in SUBSET (1..K), s.plan.opFalse \in Targets(s, {})
  PROVE  Fits(Logic(s, action, conditions, fromHash, waits), s, K, c)
<1> DEFINE logic == Newest(s) + 1
           after == logic + 1
           edges == [b \in 0..1 |-> IF b = 0 THEN s.plan.opFalse ELSE after]
           quiet == fromHash /\ conditions = 1
           p0    == Process(Here, action)
           p1    == [p0 EXCEPT !.passive = quiet]
           p2    == [p1 EXCEPT !.waits = waits]
           p3    == [p2 EXCEPT !.out = edges]
           first   == Add(s, p3)
           added == Add(first, Passive(Here))
           kept  == IF quiet THEN added ELSE Stage(added, logic)
           t     == Link(kept, s.plan.current, LogicBranch(fromHash), logic)
           u     == [t EXCEPT !.plan.current = after]
<1>1. /\ Len(s.node) \in Nat /\ logic = Len(s.node) + 1 /\ after = Len(s.node) + 2
      /\ logic \in 1..K /\ after \in 1..K /\ Len(s.node) < K
  BY StateParts DEF Newest
<1>2. p3 \in NodeOf(K) /\ p3.plan = Here /\ ~p3.freed /\ p3.out = edges
  <2>1. p0 \in NodeOf(K) /\ p0.plan = Here /\ ~p0.freed
    BY ProcessType DEF Process
  <2>2. quiet \in BOOLEAN
    OBVIOUS
  <2> HIDE DEF p0, quiet
  <2>3. p1 \in NodeOf(K) /\ p1.plan = Here /\ ~p1.freed
    <3>1. p1 \in NodeOf(K)
      BY <2>1, <2>2, NodeFields
    <3>2. QED
      BY <2>1, <3>1 DEF NodeOf
  <2> HIDE DEF p1
  <2>4. p2 \in NodeOf(K) /\ p2.plan = Here /\ ~p2.freed
    <3>1. p2 \in NodeOf(K)
      BY <2>3, NodeFields
    <3>2. QED
      BY <2>3, <3>1 DEF NodeOf
  <2> HIDE DEF p2
  <2>5. s.plan.opFalse \in 0..K /\ after \in 0..K
    BY <1>1, StateParts DEF PlanOf
  <2>6. edges \in [0..1 -> 0..K]
    <3> HIDE DEF after
    <3>1. QED
      BY <2>5, OutType
  <2> HIDE DEF edges
  <2>7. p3 \in NodeOf(K)
    BY <2>4, <2>6, NodeFields
  <2>8. QED
    BY <2>4, <2>7 DEF NodeOf
<1>3. \A b \in 0..1 : p3.out[b] \in Targets(s, {after}) \cup {Len(s.node) + 1}
  BY <1>2 DEF Targets
<1> HIDE DEF p3, logic, after, quiet, edges
<1>4. /\ first \in StateOf(K) /\ Grown(first, s) /\ Len(first.node) = logic
      /\ Len(first.node) < K /\ Len(first.node) + 1 = after
      /\ Range(first.plan.graph) = Range(s.plan.graph) \cup {logic}
      /\ first.plan.current = s.plan.current /\ first.node[logic] = p3
  <2>1. /\ first \in StateOf(K) /\ Grown(first, s) /\ Added(first, s, p3)
        /\ first.plan.current = s.plan.current
    BY <1>1, <1>2, AddGrown
  <2> HIDE DEF first
  <2>2. QED
    BY <1>1, <2>1 DEF Added
<1>5. Fit(first, c, {after})
  <2> DEFINE Y == {after}
             N == {}
  <2>1. N \subseteq Y \cup {Len(s.node) + 1} /\ Fit(s, c, N)
    OBVIOUS
  <2>2. p3 \in NodeOf(K) /\ p3.plan = Here /\ ~p3.freed /\ Len(s.node) < K
    BY <1>1, <1>2
  <2>3. \A b \in 0..1 : p3.out[b] \in Targets(s, Y) \cup {Len(s.node) + 1}
    BY <1>3
  <2> HIDE DEF Y, N
  <2>4. Fit(Add(s, p3), c, Y)
    BY <2>1, <2>2, <2>3, AddFit
  <2>5. QED
    BY <2>4 DEF Y
<1> HIDE DEF first
<1>6. Passive(Here) \in NodeOf(K) /\ Passive(Here).plan = Here /\ ~Passive(Here).freed
      /\ \A b \in 0..1 : Passive(Here).out[b] = NULL
  BY PassiveType DEF Passive, Process
<1>7. /\ added \in StateOf(K) /\ Grown(added, first) /\ Len(added.node) = after
      /\ Range(added.plan.graph) = Range(first.plan.graph) \cup {after}
      /\ added.plan.current = first.plan.current
      /\ added.node[after] = Passive(Here) /\ added.node[logic] = p3
  <2>1. after = Len(first.node) + 1 /\ logic \in 1..Len(first.node)
    BY <1>1, <1>4
  <2>2. Len(first.node) < K /\ first \in StateOf(K) /\ Passive(Here) \in NodeOf(K)
    BY <1>4, <1>6
  <2>3. /\ added \in StateOf(K) /\ Grown(added, first) /\ Added(added, first, Passive(Here))
        /\ added.plan.current = first.plan.current
    BY <2>2, AddGrown
  <2> HIDE DEF added
  <2>4. QED
    BY <1>4, <2>1, <2>3 DEF Added
<1>8. Fit(added, c, {})
  <2>1. after = Len(first.node) + 1
    BY <1>4
  <2>2. {after} \subseteq {} \cup {Len(first.node) + 1}
        /\ \A b \in 0..1 : Passive(Here).out[b] \in Targets(first, {}) \cup {Len(first.node) + 1}
    BY <1>6, <2>1 DEF Targets
  <2>3. QED
    BY <1>4, <1>5, <1>6, <2>2, AddFit
<1> HIDE DEF added
<1>9. kept \in StateOf(K) /\ Fit(kept, c, {}) /\ kept.node = added.node
      /\ SameNames(kept.plan, added.plan)
  <2>1. logic \in Nat
    BY <1>1
  <2>2. QED
    BY <1>7, <1>8, <2>1, StageFit DEF SameNames
<1> HIDE DEF kept
<1>10. Tuned(t, kept, K, c, {})
  <2>1. LogicBranch(fromHash) \in 0..1 /\ logic \in 0..K
    BY <1>1 DEF LogicBranch
  <2>2. logic \in Targets(kept, {})
    BY <1>4, <1>7, <1>9 DEF Targets, SameNames
  <2>3. s.plan.current = kept.plan.current
    BY <1>4, <1>7, <1>9 DEF SameNames
  <2>4. ASSUME s.plan.current \in 1..Len(kept.node) PROVE Mine(kept, c, s.plan.current)
    BY <1>9, <2>3, <2>4 DEF Fit, Own, Mine, NULL
  <2>5. QED
    BY <1>9, <2>1, <2>2, <2>4, LinkFit
<1> HIDE DEF t
<1>11. t \in StateOf(K) /\ Fit(t, c, {}) /\ t.plan = kept.plan
       /\ after \in 1..Len(t.node) /\ t.node[after].plan = Here
  <2>1. /\ t \in StateOf(K) /\ Fit(t, c, {}) /\ t.plan = kept.plan
        /\ \A n \in 1..Len(kept.node) : t.node[n].plan = kept.node[n].plan
        /\ Len(t.node) = Len(kept.node)
    BY <1>10 DEF Tuned, Same
  <2>2. Len(kept.node) = after /\ kept.node[after].plan = Here /\ after \in 1..Len(kept.node)
    BY <1>1, <1>6, <1>7, <1>9
  <2>3. QED
    BY <2>1, <2>2
<1>12. u \in StateOf(K)
  <2>1. after \in 0..K
    BY <1>1
  <2>2. QED
    BY <1>11, <2>1, PlanFields DEF From
<1>13. /\ u.node = t.node /\ u.plan.graph = t.plan.graph /\ u.plan.entry = t.plan.entry
       /\ u.plan.opTrue = t.plan.opTrue /\ u.plan.opFalse = t.plan.opFalse
       /\ u.plan.constPlans = t.plan.constPlans /\ u.plan.current = after
  BY <1>11 DEF StateOf, PlanOf
<1> HIDE DEF u
<1>14. Own(u)
  BY <1>11, <1>13 DEF Own, Fit
<1>15. Fits(u, s, K, c)
  <2>1. Fit(u, c, {})
    BY <1>11, <1>12, <1>13, <1>14, PlanFit
  <2>2. Grown(u, s)
    BY <1>4, <1>7, <1>9, <1>11, <1>13 DEF Grown, SameNames
  <2>3. QED
    BY <1>12, <2>1, <2>2 DEF Fits
<1>16. u = Logic(s, action, conditions, fromHash, waits)
  BY DEF u, t, kept, added, first, p3, edges, quiet, after, logic, Logic
<1>17. QED
  BY <1>15, <1>16

(* The hash join: the process right leads to it, and the rest of its condition follows. *)
LEMMA HashJoinFit ==
  ASSUME NEW K \in Nat, NEW s \in StateOf(K), NEW c, Fit(s, c, {}), Len(s.node) + 3 <= K,
         Here \in Nat, source \in Sources, s.plan.opFalse \in Targets(s, {}),
         NEW right, right \in 1..Len(s.node) => Mine(s, c, right)
  PROVE  Fits(HashJoin(s, right), s, K, c)
<1> DEFINE join   == Newest(s) + 1
           linked == Link(s, right, 0, join)
           p0     == Process(Here, "hash_join")
           p1     == [p0 EXCEPT !.second = TRUE]
           p2     == [p1 EXCEPT !.left = source.left]
           joined == Stage(Advance(Add(linked, p2), join), join)
           action == IF source.left THEN "left_join_logic" ELSE "logic"
           t      == Logic(joined, action, source.conditions, TRUE, {})
<1>1. Len(s.node) \in Nat /\ join \in 0..K /\ join = Len(s.node) + 1 /\ Len(s.node) < K
  BY StateParts DEF Newest
<1>2. p2 \in NodeOf(K) /\ p2.plan = Here /\ ~p2.freed /\ \A b \in 0..1 : p2.out[b] = NULL
  <2>1. /\ p0 \in NodeOf(K) /\ p0.plan = Here /\ ~p0.freed
        /\ \A b \in 0..1 : p0.out[b] = NULL
    BY ProcessType DEF Actions, Process
  <2> HIDE DEF p0
  <2>2. p1 \in NodeOf(K)
    BY <2>1, NodeFields
  <2>3. p1.plan = Here /\ ~p1.freed /\ p1.out = p0.out
    BY <2>1 DEF NodeOf
  <2> HIDE DEF p1
  <2>4. source.left \in BOOLEAN
    BY DEF Sources
  <2>5. p2 \in NodeOf(K)
    BY <2>2, <2>4, NodeFields
  <2>6. p2.plan = Here /\ ~p2.freed /\ p2.out = p1.out
    BY <2>2, <2>3 DEF NodeOf
  <2>7. QED
    BY <2>1, <2>3, <2>5, <2>6
<1> HIDE DEF p2
<1> DEFINE X == {join}
<1>3. Tuned(linked, s, K, c, X)
  <2>1. Fit(s, c, X)
    BY DEF Fit, Linked, Targets
  <2>2. join \in Targets(s, X)
    BY DEF Targets
  <2> HIDE DEF X, join
  <2>3. QED
    BY <1>1, <2>1, <2>2, LinkFit
<1> HIDE DEF linked
<1>4. /\ linked \in StateOf(K) /\ Fit(linked, c, X) /\ linked.plan = s.plan
      /\ Len(linked.node) = Len(s.node) /\ X \subseteq {Len(linked.node) + 1}
      /\ join = Newest(linked) + 1 /\ Len(linked.node) < K
  BY <1>1, <1>3 DEF Tuned, Same, Newest
<1> HIDE DEF X, join
<1>5. Fits(joined, linked, K, c)
  BY <1>2, <1>4, ThenFit
<1>6. Len(joined.node) + 2 <= K
  <2>1. From(joined, linked, K, 1)
    BY <1>2, <1>4, ThenFrom
  <2>2. Len(joined.node) = Len(linked.node) + 1
    BY <2>1 DEF From
  <2> HIDE DEF joined
  <2>3. QED
    BY <1>1, <1>4, <2>2
<1> HIDE DEF joined
<1>7. joined.plan.opFalse \in Targets(joined, {})
  BY <1>4, <1>5 DEF Fits, Grown, Targets
<1>8. Fits(t, joined, K, c)
  <2>1. action \in Actions /\ TRUE \in BOOLEAN /\ {} \in SUBSET (1..K)
    BY DEF Actions
  <2> HIDE DEF action
  <2>2. QED
    BY <1>5, <1>6, <1>7, <2>1, LogicFit DEF Fits
<1> HIDE DEF t
<1>9. /\ Further(t) \in StateOf(K) /\ Fit(Further(t), c, {})
      /\ SameNames(Further(t).plan, t.plan)
  BY <1>8, FurtherFit DEF Fits
<1>10. Fits(Further(t), s, K, c)
  BY <1>4, <1>5, <1>8, <1>9 DEF Fits, Grown, SameNames
<1>11. QED
  BY <1>10 DEF t, action, joined, p2, linked, join, HashJoin

-----------------------------------------------------------------------------
(* What is taken into the graph, or out of it. *)

(* The graph of plan c joins the one of this plan. *)
Joined(s, c) == [s EXCEPT !.plan.graph = @ \o plans[c].graph]

LEMMA JoinedFit ==
  ASSUME NEW K \in Nat, NEW s \in StateOf(K), NEW c, Fit(s, c, {}), s.node = node,
         plans[c].graph \in Seq(1..K),
         \A n \in GraphOf(c) :
           ~node[n].freed /\ \A b \in 0..1 : node[n].out[b] \in Targets(s, GraphOf(c))
  PROVE  /\ Fits(Joined(s, c), s, K, c) /\ Joined(s, c).node = s.node
         /\ Joined(s, c).plan.current = s.plan.current
<1> DEFINE t == Joined(s, c)
<1>1. s.plan \in PlanOf(K) /\ s.plan.graph \in Seq(1..K)
  BY StateParts DEF PlanOf
<1>2. s.plan.graph \o plans[c].graph \in Seq(1..K)
      /\ Range(s.plan.graph \o plans[c].graph) = Range(s.plan.graph) \cup GraphOf(c)
  BY <1>1, RangeOfConcat DEF GraphOf
<1>3. t \in StateOf(K)
  BY <1>2, PlanFields DEF From, Joined
<1>4. /\ t.node = s.node /\ t.plan.graph = s.plan.graph \o plans[c].graph
      /\ t.plan.entry = s.plan.entry /\ t.plan.current = s.plan.current
      /\ t.plan.opTrue = s.plan.opTrue /\ t.plan.opFalse = s.plan.opFalse
      /\ t.plan.constPlans = s.plan.constPlans
  BY <1>1 DEF Joined, StateOf, PlanOf
<1> HIDE DEF t
<1>5. Own(t)
  BY <1>4 DEF Own, Fit
<1>6. Linked(t, {})
  BY <1>2, <1>4 DEF Linked, Fit, Targets
<1>7. Kin(t, c)
  BY <1>2, <1>4 DEF Fit, Kin
<1>8. QED
  BY <1>2, <1>3, <1>4, <1>5, <1>6, <1>7 DEF Fits, Fit, Grown, t

(* No edge of the graph leads to a passive node: these can be taken out and freed. *)
LEMMA FreePassiveFit ==
  ASSUME NEW K \in Nat, NEW s \in StateOf(K), NEW c, Fit(s, c, {}),
         \A n \in Range(s.plan.graph) : \A b \in 0..1 : ~ToPassive(s, n, b)
  PROVE  LET t == FreePassive(s)
         IN  t \in StateOf(K) /\ Fit(t, c, {}) /\ t.plan.constPlans = s.plan.constPlans
<1> DEFINE gone == {n \in Range(s.plan.graph) : s.node[n].passive}
           f    == [n \in DOMAIN s.node |-> [s.node[n] EXCEPT !.freed = @ \/ n \in gone]]
           kept == Kept(s.plan.graph, Range(s.plan.graph) \ gone)
           t    == FreePassive(s)
<1>1. t \in StateOf(K) /\ Len(t.node) = Len(s.node)
  BY FreePassiveFrom, StateParts DEF From
<1>2. s.plan \in PlanOf(K) /\ s.plan.graph \in Seq(1..K) /\ s.node \in Seq(NodeOf(K))
      /\ DOMAIN s.node = 1..Len(s.node)
  BY StateParts DEF PlanOf
<1>3. Range(kept) = Range(s.plan.graph) \ gone
  BY <1>2, KeptProperties
<1>4. /\ t.node = f /\ t.plan.graph = kept
      /\ t.plan.entry = s.plan.entry /\ t.plan.current = s.plan.current
      /\ t.plan.opTrue = s.plan.opTrue /\ t.plan.opFalse = s.plan.opFalse
      /\ t.plan.constPlans = s.plan.constPlans
  BY <1>2 DEF FreePassive, StateOf, PlanOf
<1> HIDE DEF t, kept
<1>5. \A n \in 1..Len(s.node) :
        /\ t.node[n].plan = s.node[n].plan /\ t.node[n].out = s.node[n].out
        /\ n \notin gone => Still(t.node[n], s.node[n])
  <2>1. ASSUME NEW n \in 1..Len(s.node)
        PROVE  /\ t.node[n].plan = s.node[n].plan /\ t.node[n].out = s.node[n].out
               /\ n \notin gone => Still(t.node[n], s.node[n])
    <3>1. s.node[n] \in NodeOf(K)
      BY <1>2, ElementOfSeq
    <3>2. t.node[n] = [s.node[n] EXCEPT !.freed = @ \/ n \in gone]
      BY <1>2, <1>4
    <3> HIDE DEF gone
    <3>3. QED
      BY <3>1, <3>2 DEF NodeOf, Still, Alike
  <2>2. QED
    BY <2>1
<1>6. Range(t.plan.graph) \subseteq Range(s.plan.graph)
  BY <1>3, <1>4
<1>7. Own(t)
  BY <1>1, <1>4, <1>5 DEF Own, Fit
<1>8. Linked(t, {})
  <2>1. ASSUME NEW n \in Range(t.plan.graph), NEW b \in 0..1
        PROVE  ~t.node[n].freed /\ t.node[n].out[b] \in Targets(t, {})
    <3>1. n \in 1..Len(s.node) /\ n \in Range(s.plan.graph) /\ n \notin gone
      BY <1>3, <1>4, GraphFit
    <3>2. ~t.node[n].freed /\ t.node[n].out = s.node[n].out
      BY <1>5, <3>1 DEF Still, Alike, Fit, Linked
    <3>3. s.node[n].out[b] \in Targets(s, {})
      BY <3>1 DEF Fit, Linked
    <3>4. s.node[n].out[b] = NULL \/ s.node[n].out[b] \notin gone
      BY <3>1 DEF ToPassive
    <3>5. QED
      BY <1>3, <1>4, <3>2, <3>3, <3>4 DEF Targets
  <2>2. QED
    BY <2>1 DEF Linked
<1>9. Kin(t, c)
  <2>1. GraphOf(Here) \cup GraphOf(c) \subseteq 1..Len(node)
        /\ Len(node) \in Nat /\ Len(node) <= Len(t.node)
    BY <1>1 DEF Fit, Kin
  <2>2. ASSUME NEW n \in 1..Len(node)
        PROVE  /\ t.node[n].plan = node[n].plan
               /\ \/ Still(t.node[n], node[n])
                  \/ node[n].plan \in {Here, c} \/ n \in GraphOf(Here) \cup GraphOf(c)
    <3>1. n \in 1..Len(s.node) /\ n \notin (Len(node) + 1)..Len(s.node)
      BY GraphFit
    <3>2. /\ s.node[n].plan = node[n].plan
          /\ \/ Still(s.node[n], node[n])
             \/ node[n].plan \in {Here, c} \/ n \in GraphOf(Here) \cup GraphOf(c)
      BY DEF Fit, Kin
    <3>3. n \in gone => n \in GraphOf(Here) \cup GraphOf(c)
      BY <3>1 DEF Fit, Kin
    <3>4. QED
      BY <1>5, <3>1, <3>2, <3>3 DEF Still, Alike
  <2>3. ASSUME NEW n \in (Len(node) + 1)..Len(t.node) PROVE t.node[n].plan = Here
    <3>1. n \in 1..Len(s.node) /\ n \in (Len(node) + 1)..Len(s.node)
      BY <1>1, GraphFit
    <3>2. QED
      BY <1>5, <3>1 DEF Fit, Kin
  <2>4. QED
    BY <1>1, <1>6, <2>1, <2>2, <2>3 DEF Fit, Kin
<1>10. QED
  BY <1>1, <1>4, <1>7, <1>8, <1>9 DEF Fit, t

LEMMA GetRootsFit ==
  ASSUME NEW K \in Nat, NEW s \in StateOf(K), NEW c, NEW X, Fit(s, c, X)
  PROVE  Tuned(GetRoots(s), s, K, c, X)
<1> DEFINE G       == Range(s.plan.graph)
           entered == {s.node[n].out[b] : n \in G, b \in 0..1}
           f       == [n \in DOMAIN s.node |-> [s.node[n] EXCEPT !.root = @ \/ (n \in G /\ n \notin entered)]]
<1>1. GetRoots(s) \in StateOf(K) /\ Len(GetRoots(s).node) = Len(s.node)
  BY GetRootsFrom, StateParts DEF From
<1>2. CASE RootsOf(s) # {}
  BY <1>1, <1>2 DEF GetRoots, Tuned, Same
<1>3. CASE RootsOf(s) = {}
  <2>1. GetRoots(s) = [s EXCEPT !.node = f]
    BY <1>3 DEF GetRoots
  <2>2. Len(f) = Len(s.node)
    BY <1>1, <2>1 DEF StateOf
  <2>3. ASSUME NEW n \in 1..Len(s.node) PROVE Still(f[n], s.node[n])
    <3>1. n \in DOMAIN s.node /\ s.node[n] \in NodeOf(K)
      BY StateParts, ElementOfSeq
    <3>2. f[n] = [s.node[n] EXCEPT !.root = @ \/ (n \in G /\ n \notin entered)]
      BY <3>1
    <3> HIDE DEF G, entered, f
    <3>3. QED
      BY <3>1, <3>2 DEF NodeOf, Still, Alike
  <2> HIDE DEF f
  <2>4. QED
    BY <1>1, <2>1, <2>2, <2>3, NodesFit DEF Tuned
<1>4. QED
  BY <1>2, <1>3

LEMMA DisableStrandedFit ==
  ASSUME NEW K \in Nat, NEW s \in StateOf(K), NEW c, NEW X, Fit(s, c, X)
  PROVE  Tuned(DisableStranded(s), s, K, c, X)
<1> DEFINE stranded == {n \in RootsOf(s) \ {s.plan.opTrue, s.plan.opFalse} :
                          s.node[n].out = [b \in 0..1 |-> NULL]}
           some == stranded # {}
           f == [n \in DOMAIN s.node |->
                   IF n \in stranded THEN [s.node[n] EXCEPT !.passive = TRUE]
                   ELSE IF n = s.plan.opFalse THEN [s.node[n] EXCEPT !.dead = some]
                   ELSE s.node[n]]
<1>1. DisableStranded(s) \in StateOf(K) /\ Len(DisableStranded(s).node) = Len(s.node)
  BY DisableStrandedFrom, StateParts DEF From
<1>2. DisableStranded(s) = [s EXCEPT !.node = f]
  BY DEF DisableStranded
<1>3. Len(f) = Len(s.node)
  BY <1>1, <1>2 DEF StateOf
<1>4. ASSUME NEW n \in 1..Len(s.node)
      PROVE  Still(f[n], s.node[n]) \/ (Mine(s, c, n) /\ Alike(f[n], s.node[n]))
  <2>1. n \in DOMAIN s.node /\ s.node[n] \in NodeOf(K)
    BY StateParts, ElementOfSeq
  <2>2. n \in stranded => Mine(s, c, n)
    BY DEF RootsOf, Mine
  <2>3. f[n] = IF n \in stranded THEN [s.node[n] EXCEPT !.passive = TRUE]
               ELSE IF n = s.plan.opFalse THEN [s.node[n] EXCEPT !.dead = some]
               ELSE s.node[n]
    BY <2>1
  <2> HIDE DEF f, some, stranded
  <2>4. /\ Alike([s.node[n] EXCEPT !.passive = TRUE], s.node[n])
        /\ Still([s.node[n] EXCEPT !.dead = some], s.node[n])
    BY <2>1 DEF NodeOf, Still, Alike
  <2>5. QED
    BY <2>2, <2>3, <2>4 DEF Still, Alike
<1> HIDE DEF f
<1>5. QED
  BY <1>1, <1>2, <1>3, <1>4, NodesFit DEF Tuned

LEMMA MarkRootsConstFit ==
  ASSUME NEW K \in Nat, NEW s \in StateOf(K), NEW c, NEW X, Fit(s, c, X)
  PROVE  Tuned(MarkRootsConst(s), s, K, c, X)
<1> DEFINE R == {n \in RootsOf(s) : s.node[n].plan = Here /\ s.node[n].action # "read"}
           fifo(n) == IF s.node[n].rootFifo = -1 THEN 0 ELSE s.node[n].rootFifo
           f == [n \in DOMAIN s.node |->
                   IF n \in R THEN [s.node[n] EXCEPT !.const = TRUE, !.rootFifo = fifo(n)]
                   ELSE s.node[n]]
<1>1. MarkRootsConst(s) \in StateOf(K) /\ Len(MarkRootsConst(s).node) = Len(s.node)
  BY MarkRootsConstFrom, StateParts DEF From
<1>2. MarkRootsConst(s) = [s EXCEPT !.node = f]
  BY DEF MarkRootsConst
<1>3. Len(f) = Len(s.node)
  BY <1>1, <1>2 DEF StateOf
<1>4. ASSUME NEW n \in 1..Len(s.node) PROVE Still(f[n], s.node[n])
  <2>1. n \in DOMAIN s.node /\ s.node[n] \in NodeOf(K)
    BY StateParts, ElementOfSeq
  <2>2. f[n] = IF n \in R THEN [s.node[n] EXCEPT !.const = TRUE, !.rootFifo = fifo(n)]
               ELSE s.node[n]
    BY <2>1
  <2> HIDE DEF f, R, fifo
  <2>3. Still([s.node[n] EXCEPT !.const = TRUE, !.rootFifo = fifo(n)], s.node[n])
    BY <2>1 DEF NodeOf, Still, Alike
  <2>4. QED
    BY <2>2, <2>3 DEF Still, Alike
<1> HIDE DEF f
<1>5. QED
  BY <1>1, <1>2, <1>3, <1>4, NodesFit DEF Tuned

-----------------------------------------------------------------------------
(* The operations. *)

LEMMA TunedTrans ==
  ASSUME NEW K \in Nat, NEW s, NEW t, NEW u, NEW c, NEW X, Tuned(t, s, K, c, X),
         Tuned(u, t, K, c, X)
  PROVE  Tuned(u, s, K, c, X)
BY DEF Tuned, Same

LEMMA OwnMine ==
  ASSUME NEW K \in Nat, NEW s \in StateOf(K), NEW c, NEW X, Fit(s, c, X),
         NEW m \in {s.plan.current, s.plan.opTrue, s.plan.opFalse}, m \in 1..Len(s.node)
  PROVE  Mine(s, c, m)
BY DEF Fit, Own, Mine, NULL

LEMMA DeleteTableFit ==
  ASSUME NEW K \in Nat, NEW s \in StateOf(K), NEW c, NEW X, Fit(s, c, X)
  PROVE  Tuned(DeleteTable(s), s, K, c, X)
<1> DEFINE t == [s EXCEPT !.node[s.plan.opFalse].action = "delete"]
           u == [t EXCEPT !.node[s.plan.opTrue].passive = TRUE]
<1>1. Tuned(t, s, K, c, X)
  <2>1. "delete" \in Actions
    BY DEF Actions, Operations
  <2>2. QED
    BY <2>1, NodeFieldFit
<1> HIDE DEF t
<1>2. t \in StateOf(K) /\ Fit(t, c, X) /\ t.plan = s.plan
  BY <1>1 DEF Tuned, Same
<1>3. Tuned(u, t, K, c, X)
  BY <1>2, OwnMine, NodeFieldFit
<1> HIDE DEF u
<1>4. Tuned(u, s, K, c, X)
  BY <1>1, <1>3, TunedTrans
<1>5. QED
  BY <1>4 DEF DeleteTable, u, t

LEMMA UpdateTableFit ==
  ASSUME NEW K \in Nat, NEW s \in StateOf(K), NEW c, NEW X, Fit(s, c, X)
  PROVE  Tuned(UpdateTable(s), s, K, c, X)
<1> DEFINE n  == s.plan.opTrue
           t1 == [s EXCEPT !.node[n].action = "update"]
           t2 == [t1 EXCEPT !.node[n].second = TRUE]
           t3 == [t2 EXCEPT !.node[s.plan.opFalse].passive = TRUE]
           u  == [t3 EXCEPT !.node[n].dual = TRUE]
           v1 == [t3 EXCEPT !.node[s.plan.stages[1]].secondary = TRUE]
           v2 == [v1 EXCEPT !.node[n].killed = TRUE]
<1>1. Tuned(t1, s, K, c, X)
  <2>1. "update" \in Actions
    BY DEF Actions, Operations
  <2>2. QED
    BY <2>1, NodeFieldFit
<1> HIDE DEF n, t1
<1>2. Tuned(t2, t1, K, c, X)
  <2>1. t1 \in StateOf(K) /\ Fit(t1, c, X)
    BY <1>1 DEF Tuned
  <2>2. QED
    BY <2>1, NodeFieldFit
<1> HIDE DEF t2
<1>3. t2 \in StateOf(K) /\ Fit(t2, c, X) /\ t2.plan = s.plan
  BY <1>1, <1>2 DEF Tuned, Same
<1>4. Tuned(t3, t2, K, c, X)
  BY <1>3, OwnMine, NodeFieldFit
<1> HIDE DEF t3
<1>5. t3 \in StateOf(K) /\ Fit(t3, c, X)
  BY <1>4 DEF Tuned
<1>6. Tuned(u, t3, K, c, X)
  BY <1>5, NodeFieldFit
<1>7. Tuned(v1, t3, K, c, X)
  BY <1>5, NodeFieldFit
<1> HIDE DEF u, v1
<1>8. Tuned(v2, v1, K, c, X)
  <2>1. v1 \in StateOf(K) /\ Fit(v1, c, X)
    BY <1>7 DEF Tuned
  <2>2. QED
    BY <2>1, NodeFieldFit
<1> HIDE DEF v2
<1>9. Tuned(t3, s, K, c, X)
  BY <1>1, <1>2, <1>4, TunedTrans
<1>10. Tuned(u, s, K, c, X) /\ Tuned(v2, s, K, c, X)
  BY <1>6, <1>7, <1>8, <1>9, TunedTrans
<1>11. UpdateTable(s) = IF s.plan.query.where THEN u ELSE v2
  BY DEF UpdateTable, n, t1, t2, t3, u, v1, v2
<1>12. QED
  BY <1>10, <1>11

LEMMA ApplyOtherFit ==
  ASSUME NEW K \in Nat, NEW s \in StateOf(K), NEW c, Fit(s, c, {}), s.plan.query \in QueryType
  PROVE  Fits(ApplyOther(s), s, K, c)
<1> DEFINE t1 == [s EXCEPT !.node[s.plan.opTrue].action = s.plan.query.op]
           t2 == [t1 EXCEPT !.node[s.plan.opFalse].passive = TRUE]
           X  == {}
<1>1. Tuned(t1, s, K, c, X)
  <2>1. s.plan.query.op \in Actions /\ Fit(s, c, X)
    BY DEF Actions, QueryType
  <2> HIDE DEF X
  <2>2. QED
    BY <2>1, NodeFieldFit
<1> HIDE DEF t1, X
<1>2. t1 \in StateOf(K) /\ Fit(t1, c, X) /\ t1.plan = s.plan
  BY <1>1 DEF Tuned, Same
<1>3. Tuned(t2, t1, K, c, X)
  BY <1>2, OwnMine, NodeFieldFit
<1> HIDE DEF t2
<1>4. t2 \in StateOf(K) /\ Fit(t2, c, X) /\ t2.plan = s.plan
  BY <1>2, <1>3 DEF Tuned, Same
<1>5. s.plan.opTrue \in Nat
  BY StateParts DEF PlanOf
<1>6. /\ Stage(t2, s.plan.opTrue) \in StateOf(K) /\ Fit(Stage(t2, s.plan.opTrue), c, X)
      /\ SameNames(Stage(t2, s.plan.opTrue).plan, t2.plan)
  BY <1>4, <1>5, StageFit
<1>7. QED
  BY <1>4, <1>6 DEF Fits, Grown, SameNames, ApplyOther, t1, t2, X

(* The filter joins the graph, and both conditions lead to it. *)
LEMMA RewriteJoinFit ==
  ASSUME NEW K \in Nat, NEW s \in StateOf(K), NEW c, Fit(s, c, {}), Len(s.node) < K,
         Here \in Nat
  PROVE  LET t == RewriteJoin(s)
         IN  /\ t \in StateOf(K) /\ Fit(t, c, {})
             /\ t.plan.constPlans = s.plan.constPlans /\ t.plan.entry = s.plan.entry
<1> DEFINE update == s.plan.query.op = "update"
           filter == Newest(s) + 1
           p0     == Process(Here, IF update THEN "update_filter" ELSE "delete_filter")
           p1     == [p0 EXCEPT !.dual = TRUE]
           p2     == [p1 EXCEPT !.second = TRUE]
           added  == Add(s, p2)
           half   == Link(added, s.plan.opFalse, 0, filter)
           linked == Link(half, s.plan.opTrue, 0, filter)
           t1     == [linked EXCEPT !.node[s.plan.opFalse].passive = TRUE]
           t2     == [t1 EXCEPT !.node[s.plan.opTrue].passive = TRUE]
           r      == [t2 EXCEPT !.plan.opTrue = IF update THEN filter ELSE @]
           X      == {}
<1>1. filter = Len(s.node) + 1
  BY DEF Newest
<1>2. p2 \in NodeOf(K) /\ p2.plan = Here /\ ~p2.freed /\ \A b \in 0..1 : p2.out[b] = NULL
  <2>1. (IF update THEN "update_filter" ELSE "delete_filter") \in Actions
    BY DEF Actions
  <2>2. /\ p0 \in NodeOf(K) /\ p0.plan = Here /\ ~p0.freed
        /\ \A b \in 0..1 : p0.out[b] = NULL
    BY <2>1, ProcessType DEF Process
  <2> HIDE DEF p0
  <2>3. p1 \in NodeOf(K)
    BY <2>2, NodeFields
  <2>4. p1.plan = Here /\ ~p1.freed /\ p1.out = p0.out
    BY <2>2 DEF NodeOf
  <2> HIDE DEF p1
  <2>5. p2 \in NodeOf(K)
    BY <2>3, NodeFields
  <2>6. p2.plan = Here /\ ~p2.freed /\ p2.out = p1.out
    BY <2>3, <2>4 DEF NodeOf
  <2>7. QED
    BY <2>2, <2>4, <2>5, <2>6
<1> HIDE DEF p2, filter
<1>3. /\ added \in StateOf(K) /\ Grown(added, s) /\ Len(added.node) = filter /\ filter \in 1..K
      /\ filter \in Range(added.plan.graph) /\ added.node[filter] = p2
      /\ added.plan.current = s.plan.current
  <2>1. /\ added \in StateOf(K) /\ Grown(added, s) /\ Added(added, s, p2)
        /\ Len(s.node) + 1 \in 1..K /\ added.plan.current = s.plan.current
    <3>1. s \in StateOf(K) /\ p2 \in NodeOf(K) /\ Len(s.node) < K
      BY <1>2
    <3>2. QED
      BY ONLY <3>1, AddGrown, K \in Nat
  <2> HIDE DEF added
  <2>2. QED
    BY <1>1, <2>1 DEF Added
<1>4. Fit(added, c, X)
  <2>1. \A b \in 0..1 : p2.out[b] \in Targets(s, X) \cup {Len(s.node) + 1}
    BY <1>2 DEF Targets
  <2>2. X \subseteq X \cup {Len(s.node) + 1} /\ Fit(s, c, X)
    OBVIOUS
  <2> HIDE DEF X
  <2>3. QED
    BY <1>2, <2>1, <2>2, AddFit
<1> HIDE DEF added, X
<1>5. filter \in Targets(added, X) /\ filter \in 0..K
  BY <1>3 DEF Targets
<1>6. s.plan.opFalse = added.plan.opFalse /\ s.plan.opTrue = added.plan.opTrue
  BY <1>3 DEF Grown
<1>7. Tuned(half, added, K, c, X)
  BY <1>3, <1>4, <1>5, <1>6, OwnMine, LinkFit
<1> HIDE DEF half
<1>8. half \in StateOf(K) /\ Fit(half, c, X) /\ half.plan = added.plan
  BY <1>7 DEF Tuned, Same
<1>9. Tuned(linked, half, K, c, X)
  <2>1. filter \in Targets(half, X)
    BY <1>5, <1>8 DEF Targets
  <2>2. QED
    BY <1>5, <1>6, <1>8, <2>1, OwnMine, LinkFit
<1> HIDE DEF linked
<1>10. linked \in StateOf(K) /\ Fit(linked, c, X) /\ linked.plan = added.plan
  BY <1>8, <1>9 DEF Tuned, Same
<1>11. Tuned(t1, linked, K, c, X)
  BY <1>6, <1>10, OwnMine, NodeFieldFit
<1> HIDE DEF t1
<1>12. t1 \in StateOf(K) /\ Fit(t1, c, X) /\ t1.plan = added.plan
  BY <1>10, <1>11 DEF Tuned, Same
<1>13. Tuned(t2, t1, K, c, X)
  BY <1>6, <1>12, OwnMine, NodeFieldFit
<1> HIDE DEF t2
<1>14. Tuned(t2, added, K, c, X)
  BY <1>7, <1>9, <1>11, <1>13, TunedTrans
<1>15. /\ t2 \in StateOf(K) /\ Fit(t2, c, X) /\ t2.plan = added.plan
       /\ filter \in 1..Len(t2.node) /\ t2.node[filter].plan = Here
  BY <1>2, <1>3, <1>14 DEF Tuned, Same
<1>16. r \in StateOf(K)
  <2>1. CASE update
    BY <1>3, <1>15, <2>1, PlanFields DEF From
  <2>2. CASE ~update
    BY <1>15, <2>2 DEF StateOf, PlanOf
  <2>3. QED
    BY <2>1, <2>2
<1>17. /\ r.node = t2.node /\ r.plan.graph = t2.plan.graph /\ r.plan.entry = t2.plan.entry
       /\ r.plan.opTrue \in {t2.plan.opTrue, filter} /\ r.plan.opFalse = t2.plan.opFalse
       /\ r.plan.current = t2.plan.current /\ r.plan.constPlans = t2.plan.constPlans
  BY <1>15 DEF StateOf, PlanOf
<1> HIDE DEF r
<1>18. Own(r)
  BY <1>15, <1>17 DEF Own, Fit
<1>19. Fit(r, c, X)
  BY <1>15, <1>16, <1>17, <1>18, PlanFit
<1>20. r.plan.constPlans = s.plan.constPlans /\ r.plan.entry = s.plan.entry
  BY <1>3, <1>15, <1>17 DEF Grown
<1>21. r = RewriteJoin(s)
  BY DEF RewriteJoin, r, t2, t1, linked, half, added, p2, filter
<1>22. QED
  BY <1>16, <1>19, <1>20, <1>21 DEF X

LEMMA ApplyProcessFit ==
  ASSUME NEW K \in Nat, NEW s \in StateOf(K), NEW c, Fit(s, c, {}), Len(s.node) < K,
         Here \in Nat, s.plan.query \in QueryType
  PROVE  LET t == ApplyProcess(s)
         IN  /\ t \in StateOf(K) /\ Fit(t, c, {})
             /\ t.plan.constPlans = s.plan.constPlans /\ t.plan.entry = s.plan.entry
<1>1. CASE Filters(s)
  <2>1. ApplyProcess(s) = RewriteJoin(s)
    BY <1>1 DEF ApplyProcess, Filters
  <2>2. QED
    BY <2>1, RewriteJoinFit
<1>2. CASE ~Filters(s)
  <2>1. ApplyProcess(s) \in {UpdateTable(s), DeleteTable(s), ApplyOther(s)}
    BY <1>2 DEF ApplyProcess, Filters
  <2>2. CASE ApplyProcess(s) \in {UpdateTable(s), DeleteTable(s)}
    <3> DEFINE X == {}
    <3>1. Fit(s, c, X)
      OBVIOUS
    <3> HIDE DEF X
    <3>2. Tuned(ApplyProcess(s), s, K, c, X)
      BY <2>2, <3>1, UpdateTableFit, DeleteTableFit
    <3>3. QED
      BY <3>2 DEF Tuned, Same, X
  <2>3. CASE ApplyProcess(s) = ApplyOther(s)
    BY <2>3, ApplyOtherFit DEF Fits, Grown
  <2>4. QED
    BY <2>1, <2>2, <2>3
<1>3. QED
  BY <1>1, <1>2

LEMMA AwaitFit ==
  ASSUME NEW K \in Nat, NEW s \in StateOf(K), NEW c, NEW X, Fit(s, c, X), ValuesBuilt(s, K)
  PROVE  Tuned(Await(s), s, K, c, X)
<1> DEFINE m == s.plan.opTrue
           v == s.node[m].waits \cup WaitList(s, "op")
<1>1. CASE m \in DOMAIN s.node
  <2>1. s.node[m] \in NodeOf(K)
    BY <1>1, StateParts, ElementOfSeq
  <2>2. v \in SUBSET (1..K)
    BY <2>1, WaitListType DEF NodeOf
  <2>3. m \in 1..Len(s.node) => Mine(s, c, m)
    BY OwnMine
  <2>4. Tuned([s EXCEPT !.node[m].waits = v], s, K, c, X)
    <3> HIDE DEF v, m
    <3>1. QED
      BY <2>2, <2>3, NodeFieldFit
  <2>5. QED
    BY <2>4 DEF Await
<1>2. CASE m \notin DOMAIN s.node
  <2>1. [s.node EXCEPT ![m].waits = v] = s.node
    BY <1>2, StateParts
  <2>2. Await(s) = [s EXCEPT !.node = s.node]
    BY <1>2, <2>1 DEF Await
  <2>3. s.node \in Seq(NodeOf(K)) /\ s \in [node : Seq(NodeOf(K)), plan : PlanOf(K)]
    BY StateParts DEF StateOf
  <2>4. [s EXCEPT !.node = s.node] = s
    BY <2>3
  <2>5. QED
    BY <2>2, <2>4 DEF Tuned, Same
<1>3. QED
  BY <1>1, <1>2

LEMMA EnterFit ==
  ASSUME NEW K \in Nat, NEW s \in StateOf(K), NEW c, NEW X, Fit(s, c, X)
  PROVE  Tuned(Enter(s), s, K, c, X)
<1>1. s.plan.entry \in 0..K /\ s.plan.entry \in Targets(s, X)
  BY StateParts DEF PlanOf, Targets
<1>2. CASE s.plan.entry = NULL
  BY <1>2 DEF Enter, Tuned, Same
<1>3. CASE s.plan.entry # NULL
  BY <1>1, <1>3, OwnMine, LinkFit DEF Enter
<1>4. QED
  BY <1>2, <1>3

-----------------------------------------------------------------------------
(* Which graph a process is in. *)

(* The values that have still to be taken into the graph of plan P, and all that it has
   still to take. *)
ValuesOf(P) ==
  {P.constPlans[k] : k \in {j \in DOMAIN P.constPlans : P.step = "finish" => j >= P.i}}
PendingOf(P) == ValuesOf(P) \cup (IF P.step \in CallSteps THEN {P.child} ELSE {})

Open    == Range(stack)
Pending(p) == PendingOf(plans[p])
Live    == {1} \cup Open \cup UNION {Pending(p) : p \in Open}

(* No plan is taken twice. *)
Tree ==
  /\ \A p, q \in Open : p # q => Pending(p) \cap Pending(q) = {}
  /\ \A p \in Open :
       /\ \A j, k \in DOMAIN plans[p].constPlans :
            plans[p].constPlans[j] = plans[p].constPlans[k] => j = k
       /\ plans[p].step \in CallSteps => plans[p].child \notin Range(plans[p].constPlans)

Disjoint == \A p, q \in Live : p # q => GraphOf(p) \cap GraphOf(q) = {}

(* A process that was made for another plan than the one whose graph it is in was taken from
   that one, which is gone. *)
Homed ==
  /\ \A n \in DOMAIN node : node[n].plan \in DOMAIN plans
  /\ \A p \in Live : \A n \in GraphOf(p) :
       n \in DOMAIN node /\ (node[n].plan \in Live => node[n].plan = p)

Within(p) ==
  \A n \in GraphOf(p) :
    ~node[n].freed /\ \A b \in 0..1 : node[n].out[b] \in {NULL, plans[p].entry} \cup GraphOf(p)

Owned(p) ==
  \A n \in {plans[p].current, plans[p].opTrue, plans[p].opFalse} \ {NULL} :
    n \in DOMAIN node /\ node[n].plan = p

(* A subquery is put in front of a process of a plan that waits for it. *)
Entered(p) ==
  plans[p].entry # NULL =>
    \E q \in Open : /\ q < p /\ plans[p].entry \in GraphOf(q)
                    /\ node[plans[p].entry].plan = q /\ ~node[plans[p].entry].passive

Handed(p) ==
  /\ plans[p].step \in {"from subquery", "join subquery"} =>
       LET read == plans[plans[p].child].entry IN read \in GraphOf(p) /\ node[read].plan = p
  /\ plans[p].step = "union member" => plans[plans[p].child].entry = NULL
  /\ \A k \in DOMAIN plans[p].constPlans : plans[plans[p].constPlans[k]].entry = NULL

(* Until the passive processes are taken out, the graph has both ends of the conditions. *)
ClauseSteps == {"from", "from subquery", "join subquery", "group", "having", "operation"}
LaidIn(P) == P.step \in ClauseSteps => {P.opTrue, P.opFalse} \subseteq Range(P.graph)

(* The processes before i lead past the passive ones. *)
PassedIn(nodes, P) ==
  P.step = "clear" =>
    \A k \in DOMAIN P.graph : k < P.i =>
      \A b \in 0..1 : ~ToPassive([node |-> nodes], P.graph[k], b)

(* The plans under the one that is being built wait for one that they have called. *)
Outer == \A p \in Open : p # Here => plans[p].step \in CallSteps \cup {"consts"}

EdgesInv ==
  /\ Tree /\ Disjoint /\ Homed /\ Outer /\ plans[1].entry = NULL
  /\ \A p \in Live : Within(p)
  /\ \A p \in DOMAIN plans : Owned(p)
  /\ \A p \in Open : Entered(p) /\ Handed(p) /\ LaidIn(plans[p]) /\ PassedIn(node, plans[p])

-----------------------------------------------------------------------------
(* Where the plan that is being built stands among the others. *)

LEMMA PendingType ==
  ASSUME PlanInv, NEW p \in Open
  PROVE  p \in DOMAIN plans /\ Pending(p) \subseteq (p + 1)..Len(plans)
<1>1. p \in DOMAIN plans /\ plans \in Seq(PlanOf(Len(node)))
  <2>1. plans \in Seq(PlanOf(Len(node))) /\ stack \in Seq(1..Len(plans))
    BY DEF PlanInv, Waiting
  <2>2. DOMAIN plans = 1..Len(plans)
    BY <2>1, LenProperties
  <2>3. QED
    BY <2>1, <2>2, ElementOfSeq DEF Open, Range
<1>2. PlanOK(p)
  BY <1>1 DEF PlanInv
<1>3. QED
  BY <1>1, <1>2 DEF Pending, PendingOf, ValuesOf, PlanOK

LEMMA Place ==
  ASSUME PlanInv, EdgesInv, phase = "build", NEW c \in {Here} \cup Pending(Here)
  PROVE  /\ Len(plans) \in Nat /\ DOMAIN plans = 1..Len(plans) /\ 1 \in DOMAIN plans
         /\ Here \in Open /\ Here \in Live /\ c \in Live /\ c \in DOMAIN plans
         /\ Live \subseteq DOMAIN plans
         /\ \A p \in Open : p <= Here
         /\ Here \notin Pending(Here)
         /\ c # Here => c \notin Open /\ c # 1 /\ \A p \in Open \ {Here} : c \notin Pending(p)
<1>1. /\ Len(plans) \in Nat /\ DOMAIN plans = 1..Len(plans) /\ Here \in Open
      /\ Here \in 1..Len(plans) /\ 1 \in DOMAIN plans
  BY Building DEF Open, PlanInv
<1>2. \A p \in Open : p \in 1..Len(plans) /\ Pending(p) \subseteq (p + 1)..Len(plans)
  BY <1>1, PendingType
<1>3. \A p \in Open : p <= Here
  <2>1. stack \in Seq(1..Len(plans)) /\ Descends(stack) /\ stack # << >>
    BY Building DEF PlanInv, Waiting
  <2>2. ASSUME NEW k \in DOMAIN stack PROVE stack[k] <= Here
    <3>1. k \in Nat /\ 1 <= k /\ 1 \in DOMAIN stack
      BY <2>1, LenProperties
    <3>2. stack[k] \in Nat /\ Here \in Nat
      BY <1>1, <2>1, ElementOfSeq
    <3>3. k = 1 \/ stack[k] < stack[1]
      BY <2>1, <3>1 DEF Descends
    <3>4. QED
      BY <3>2, <3>3 DEF Here
  <2>3. QED
    BY <2>2 DEF Open, Range
<1>4. \A p \in Open : p \in Nat
  BY <1>2
<1>5. \A m \in Pending(Here) : m \in DOMAIN plans /\ m > Here /\ m > 1
  BY <1>1, <1>2
<1>6. Live \subseteq DOMAIN plans /\ Here \in Live /\ c \in Live
  <2>1. ASSUME NEW m \in Live PROVE m \in DOMAIN plans
    BY <1>1, <1>2 DEF Live
  <2>2. QED
    BY <1>1, <2>1 DEF Live
<1>7. Here \notin Pending(Here) /\ c \in DOMAIN plans
  BY <1>1, <1>5
<1>8. c # Here => c \notin Open /\ c # 1 /\ \A p \in Open \ {Here} : c \notin Pending(p)
  <2>1. c # Here => c > Here /\ c > 1 /\ c \in Pending(Here)
    BY <1>5
  <2>2. \A p \in Open \ {Here} : Pending(p) \cap Pending(Here) = {}
    BY <1>1 DEF EdgesInv, Tree
  <2>3. c # Here => c \notin Open
    BY <1>1, <1>3, <1>4, <2>1
  <2>4. QED
    BY <1>1, <2>1, <2>2, <2>3
<1>9. QED
  BY <1>1, <1>3, <1>6, <1>7, <1>8

(* What the step does to the plans that it does not touch. *)
LEMMA Apart ==
  ASSUME PlanInv, EdgesInv, phase = "build", NEW c \in {Here} \cup Pending(Here),
         NEW s, Kin(s, c), NEW p \in Live \ {Here, c}, NEW n \in GraphOf(p)
  PROVE  n \in 1..Len(node) /\ Still(s.node[n], node[n])
         /\ n \notin GraphOf(Here) \cup GraphOf(c)
<1>1. Here \in Live /\ c \in Live
  BY Place
<1>2. n \in DOMAIN node /\ node[n].plan \notin {Here, c}
  BY <1>1 DEF EdgesInv, Homed
<1>3. n \notin GraphOf(Here) \cup GraphOf(c)
  BY <1>1 DEF EdgesInv, Disjoint
<1>4. DOMAIN node = 1..Len(node)
  BY DEF PlanInv
<1>5. QED
  BY <1>2, <1>3, <1>4 DEF Kin

LEMMA StateFit ==
  ASSUME PlanInv, EdgesInv, phase = "build", NEW d \in Nat,
         NEW c \in {Here} \cup Pending(Here), NEW X
  PROVE  State \in StateOf(Len(node) + d) /\ Fit(State, c, X)
<1>1. State \in StateOf(Len(node) + d) /\ State.node = node /\ State.plan = self
  BY Room
<1>2. /\ Here \in Open /\ Here \in Live /\ c \in Live /\ Here \in DOMAIN plans
      /\ Live \subseteq DOMAIN plans
  BY Place
<1>3. /\ node \in Seq(NodeOf(Len(node))) /\ DOMAIN node = 1..Len(node) /\ Len(node) \in Nat
      /\ plans \in Seq(PlanOf(Len(node)))
  BY DEF PlanInv
<1>4. \A p \in Live : GraphOf(p) \subseteq 1..Len(node)
  BY <1>3 DEF EdgesInv, Homed
<1>5. self = plans[Here] /\ Range(State.plan.graph) = GraphOf(Here)
  BY <1>1 DEF self, Here, GraphOf
<1>6. Linked(State, X)
  BY <1>1, <1>2, <1>5 DEF EdgesInv, Within, Linked, Targets, GraphOf
<1>7. Kin(State, c)
  <2>1. GraphOf(Here) \cup GraphOf(c) \subseteq 1..Len(node)
    BY <1>2, <1>4
  <2>2. (Len(node) + 1)..Len(node) = {}
    BY <1>3
  <2>3. QED
    BY <1>1, <1>3, <1>5, <2>1, <2>2 DEF Kin, Still, Alike
<1>8. Own(State)
  <2>1. Owned(Here)
    BY <1>2 DEF EdgesInv
  <2>2. QED
    BY <1>1, <1>3, <1>5, <2>1 DEF Owned, Own
<1>9. QED
  BY <1>1, <1>6, <1>7, <1>8 DEF Fit

-----------------------------------------------------------------------------
(* A step in which no plan is called: plan c, if it is another one, is gone, and if this plan
   returns it is no longer open. *)
LEMMA StepEdges ==
  ASSUME PlanInv, EdgesInv, phase = "build", NEW K \in Nat, NEW s \in StateOf(K),
         NEW c \in {Here} \cup Pending(Here), Fit(s, c, {}),
         NEW P, SameNames(P, s.plan), P.constPlans = self.constPlans,
         node' = s.node, plans' = [plans EXCEPT ![Here] = P],
         \/ /\ stack' = stack /\ P.step \notin CallSteps
            /\ ValuesOf(P) \subseteq Pending(Here) \ {c} /\ LaidIn(P) /\ PassedIn(s.node, P)
         \/ Range(stack') = Open \ {Here} /\ c = Here
  PROVE  EdgesInv'
<1>1. /\ DOMAIN plans = 1..Len(plans) /\ 1 \in DOMAIN plans
      /\ Here \in Open /\ Here \in Live /\ c \in Live /\ c \in DOMAIN plans
      /\ Live \subseteq DOMAIN plans
      /\ \A p \in Open : p <= Here
      /\ Here \notin Pending(Here)
      /\ c # Here => c \notin Open /\ c # 1 /\ \A p \in Open \ {Here} : c \notin Pending(p)
  BY Place
<1>2. /\ DOMAIN plans' = DOMAIN plans /\ plans'[Here] = P
      /\ \A p \in DOMAIN plans : p # Here => plans'[p] = plans[p]
  BY <1>1
<1>3. /\ Open' \subseteq Open /\ Open \ {Here} \subseteq Open'
      /\ Here \in Open' =>
           /\ stack' = stack /\ P.step \notin CallSteps
           /\ ValuesOf(P) \subseteq Pending(Here) \ {c} /\ LaidIn(P) /\ PassedIn(s.node, P)
  BY DEF Open
<1>4. /\ Open \subseteq DOMAIN plans
      /\ \A p \in Open' \ {Here} : Pending(p)' = Pending(p)
  <2>1. Open \subseteq DOMAIN plans
    BY <1>1 DEF Live
  <2>2. QED
    BY <1>2, <1>3, <2>1 DEF Pending
<1>5. Here \in Open' => PendingOf(P) \subseteq Pending(Here) \ {c}
  BY <1>3 DEF PendingOf
<1>6. ASSUME NEW p \in Open'
      PROVE  PendingOf(plans'[p]) \subseteq Pending(p)
             /\ (c # Here => c \notin PendingOf(plans'[p]))
  <2>1. CASE p = Here
    BY <1>2, <1>5, <2>1
  <2>2. CASE p # Here
    <3>1. PendingOf(plans'[p]) = Pending(p) /\ p \in Open
      BY <1>2, <1>3, <1>4, <2>2 DEF Pending
    <3>2. QED
      BY <1>1, <2>2, <3>1
  <2>3. QED
    BY <2>1, <2>2
<1>7. Live' \subseteq Live /\ (c # Here => c \notin Live')
  <2>1. Live' = {1} \cup Open' \cup UNION {PendingOf(plans'[p]) : p \in Open'}
    BY DEF Live, Pending
  <2>2. QED
    BY <1>1, <1>3, <1>6, <2>1 DEF Live
<1>8. /\ Range(plans'[Here].graph) = Range(s.plan.graph)
      /\ \A p \in DOMAIN plans : p # Here => Range(plans'[p].graph) = GraphOf(p)
  BY <1>2 DEF GraphOf, SameNames
<1>9. /\ \A p \in Live' : p # Here => p \in Live \ {Here, c}
      /\ Kin(s, c) /\ Linked(s, {}) /\ Own(s)
  BY <1>7 DEF Fit
<1>10. /\ node \in Seq(NodeOf(Len(node))) /\ DOMAIN node = 1..Len(node) /\ Len(node) \in Nat
       /\ DOMAIN s.node = 1..Len(s.node) /\ Len(s.node) \in Nat /\ Len(node) <= Len(s.node)
       /\ self = plans[Here]
  BY <1>9, StateParts DEF PlanInv, Kin, self, Here
<1>11. \A p \in Live' : p # Here => \A n \in GraphOf(p) :
         n \in 1..Len(node) /\ Still(s.node[n], node[n]) /\ n \notin GraphOf(Here) \cup GraphOf(c)
  BY <1>9, Apart
<1>12. Tree'
  <2>1. ASSUME NEW p \in Open', NEW q \in Open', p # q
        PROVE  PendingOf(plans'[p]) \cap PendingOf(plans'[q]) = {}
    <3>1. p \in Open /\ q \in Open
      BY <1>3
    <3>2. Pending(p) \cap Pending(q) = {}
      BY <2>1, <3>1 DEF EdgesInv, Tree
    <3>3. QED
      BY <1>6, <3>2
  <2>2. ASSUME NEW p \in Open'
        PROVE  /\ \A j, k \in DOMAIN plans'[p].constPlans :
                    plans'[p].constPlans[j] = plans'[p].constPlans[k] => j = k
               /\ plans'[p].step \in CallSteps => plans'[p].child \notin Range(plans'[p].constPlans)
    <3>1. p \in Open /\ p \in DOMAIN plans
      BY <1>3, <1>4
    <3>2. CASE p = Here
      BY <1>2, <1>3, <1>10, <3>1, <3>2 DEF EdgesInv, Tree
    <3>3. CASE p # Here
      BY <1>2, <3>1, <3>3 DEF EdgesInv, Tree
    <3>4. QED
      BY <3>2, <3>3
  <2>3. QED
    BY <2>1, <2>2 DEF Tree, Pending
<1>13. Disjoint'
  <2>1. ASSUME NEW p \in Live', p # Here
        PROVE  GraphOf(p) \cap Range(s.plan.graph) = {}
    <3>1. \A n \in GraphOf(p) : n \in 1..Len(node) /\ n \notin GraphOf(Here) \cup GraphOf(c)
      BY <1>11, <2>1
    <3>2. \A n \in 1..Len(node) : n \notin (Len(node) + 1)..Len(s.node)
      BY <1>10
    <3>3. QED
      BY <1>9, <3>1, <3>2 DEF Kin
  <2>2. ASSUME NEW p \in Live', NEW q \in Live', p # q
        PROVE  Range(plans'[p].graph) \cap Range(plans'[q].graph) = {}
    <3>1. p \in Live /\ q \in Live /\ p \in DOMAIN plans /\ q \in DOMAIN plans
      BY <1>1, <1>7
    <3>2. CASE p # Here /\ q # Here
      BY <1>8, <2>2, <3>1, <3>2 DEF EdgesInv, Disjoint
    <3>3. CASE p = Here \/ q = Here
      BY <1>8, <2>1, <2>2, <3>1, <3>3
    <3>4. QED
      BY <3>2, <3>3
  <2>3. QED
    BY <2>2 DEF Disjoint, GraphOf
<1>14. Homed'
  <2>1. ASSUME NEW n \in DOMAIN s.node PROVE s.node[n].plan \in DOMAIN plans
    <3>1. CASE n \in 1..Len(node)
      BY <1>9, <1>10, <3>1 DEF Kin, EdgesInv, Homed
    <3>2. CASE n \notin 1..Len(node)
      BY <1>1, <1>9, <1>10, <2>1, <3>2 DEF Kin
    <3>3. QED
      BY <3>1, <3>2
  <2>2. ASSUME NEW p \in Live', NEW n \in Range(plans'[p].graph)
        PROVE  n \in DOMAIN s.node /\ (s.node[n].plan \in Live' => s.node[n].plan = p)
    <3>1. p \in Live /\ p \in DOMAIN plans
      BY <1>1, <1>7
    <3>2. CASE p # Here
      <4>1. n \in GraphOf(p)
        BY <1>8, <2>2, <3>1, <3>2
      <4>2. n \in 1..Len(node) /\ s.node[n].plan = node[n].plan
        BY <1>11, <2>2, <3>2, <4>1 DEF Still, Alike
      <4>3. QED
        BY <1>7, <1>10, <3>1, <4>1, <4>2 DEF EdgesInv, Homed
    <3>3. CASE p = Here
      <4>1. n \in GraphOf(Here) \cup GraphOf(c) \cup ((Len(node) + 1)..Len(s.node))
        BY <1>8, <1>9, <2>2, <3>3 DEF Kin
      <4>2. CASE n \in (Len(node) + 1)..Len(s.node)
        BY <1>9, <1>10, <3>3, <4>2 DEF Kin
      <4>3. CASE n \in GraphOf(Here)
        BY <1>1, <1>7, <1>9, <1>10, <3>3, <4>3 DEF Kin, EdgesInv, Homed
      <4>4. CASE n \in GraphOf(c)
        BY <1>1, <1>7, <1>9, <1>10, <3>3, <4>4 DEF Kin, EdgesInv, Homed
      <4>5. QED
        BY <4>1, <4>2, <4>3, <4>4
    <3>4. QED
      BY <3>2, <3>3
  <2>3. QED
    BY <1>2, <2>1, <2>2 DEF Homed, GraphOf
<1>15. plans'[1].entry = NULL /\ \A p \in DOMAIN plans : plans'[p].entry = plans[p].entry
  BY <1>1, <1>2, <1>10 DEF EdgesInv, SameNames, Fit
<1>16. ASSUME NEW p \in Live' PROVE Within(p)'
  <2>1. p \in Live /\ p \in DOMAIN plans
    BY <1>1, <1>7
  <2>2. ASSUME NEW n \in Range(plans'[p].graph), NEW b \in 0..1
        PROVE  /\ ~s.node[n].freed
               /\ s.node[n].out[b] \in {NULL, plans'[p].entry} \cup Range(plans'[p].graph)
    <3>1. CASE p = Here
      BY <1>2, <1>8, <1>9, <2>2, <3>1 DEF Linked, Targets, SameNames
    <3>2. CASE p # Here
      <4>1. n \in GraphOf(p) /\ Still(s.node[n], node[n])
        BY <1>8, <1>11, <2>1, <2>2, <3>2
      <4>2. ~node[n].freed /\ node[n].out[b] \in {NULL, plans[p].entry} \cup GraphOf(p)
        BY <2>1, <4>1 DEF EdgesInv, Within
      <4>3. QED
        BY <1>8, <1>15, <2>1, <3>2, <4>1, <4>2 DEF Still, Alike
    <3>3. QED
      BY <3>1, <3>2
  <2>3. QED
    BY <2>2 DEF Within, GraphOf
<1>17. ASSUME NEW p \in DOMAIN plans PROVE Owned(p)'
  <2>1. CASE p = Here
    BY <1>2, <1>9, <1>10, <2>1 DEF Owned, Own, SameNames
  <2>2. CASE p # Here
    <3>1. plans'[p] = plans[p] /\ Owned(p)
      BY <1>2, <2>2 DEF EdgesInv
    <3>2. \A n \in DOMAIN node : n \in DOMAIN s.node /\ s.node[n].plan = node[n].plan
      BY <1>9, <1>10 DEF Kin
    <3>3. QED
      BY <3>1, <3>2 DEF Owned
  <2>3. QED
    BY <2>1, <2>2
<1>18. ASSUME NEW p \in Open' PROVE Entered(p)'
  <2>1. p \in Open /\ p \in DOMAIN plans
    BY <1>3, <1>4
  <2>2. CASE plans[p].entry = NULL
    BY <1>15, <2>1, <2>2 DEF Entered
  <2>3. CASE plans[p].entry # NULL
    <3>1. PICK q \in Open : /\ q < p /\ plans[p].entry \in GraphOf(q)
                            /\ node[plans[p].entry].plan = q /\ ~node[plans[p].entry].passive
      BY <2>1, <2>3 DEF EdgesInv, Entered
    <3>2. q # Here /\ q # c /\ q \in Open'
      <4>1. p <= Here /\ p \in Nat /\ q \in Nat /\ Here \in Nat
        BY <1>1, <1>4, <2>1
      <4>2. QED
        BY <1>1, <1>3, <3>1, <4>1
    <3>3. q \in Live \ {Here, c} /\ q \in DOMAIN plans
      BY <1>4, <3>2 DEF Live
    <3>4. Still(s.node[plans[p].entry], node[plans[p].entry])
      BY <1>9, <3>1, <3>3, Apart
    <3>5. Range(plans'[q].graph) = GraphOf(q)
      BY <1>8, <3>2, <3>3
    <3>6. QED
      BY <1>15, <2>1, <3>1, <3>2, <3>4, <3>5 DEF Entered, Still, Alike, GraphOf
  <2>4. QED
    BY <2>2, <2>3
<1>19. ASSUME NEW p \in Open' PROVE Handed(p)'
  <2>1. p \in Open /\ p \in DOMAIN plans /\ Handed(p)
    BY <1>3, <1>4 DEF EdgesInv
  <2>2. /\ Pending(p) \subseteq DOMAIN plans
        /\ \A k \in DOMAIN plans[p].constPlans : plans[p].constPlans[k] \in DOMAIN plans
    <3>1. Pending(p) \subseteq DOMAIN plans
      BY <1>1, <2>1 DEF Live
    <3>2. PlanOK(p) /\ p \in Nat /\ Len(plans) \in Nat
      BY <1>1, <2>1 DEF PlanInv
    <3>3. ASSUME NEW k \in DOMAIN plans[p].constPlans
          PROVE  plans[p].constPlans[k] \in DOMAIN plans
      <4>1. plans[p].constPlans[k] \in (p + 1)..Len(plans)
        BY <3>2 DEF PlanOK
      <4>2. QED
        BY <1>1, <3>2, <4>1
    <3>4. QED
      BY <3>1, <3>3
  <2>3. plans'[p].constPlans = plans[p].constPlans
    BY <1>2, <1>10, <2>1
  <2>4. \A k \in DOMAIN plans'[p].constPlans : plans'[plans'[p].constPlans[k]].entry = NULL
    <3>1. \A k \in DOMAIN plans[p].constPlans : plans[plans[p].constPlans[k]].entry = NULL
      BY <2>1 DEF Handed
    <3>2. QED
      BY <1>15, <2>2, <2>3, <3>1
  <2>5. CASE p = Here
    <3>1. plans'[p].step \notin CallSteps
      BY <1>2, <1>3, <2>5
    <3>2. QED
      BY <2>4, <3>1 DEF Handed, CallSteps
  <2>6. CASE p # Here
    <3>1. plans'[p] = plans[p]
      BY <1>2, <2>1, <2>6
    <3>2. plans[p].step \in CallSteps => plans'[plans[p].child].entry = plans[plans[p].child].entry
      BY <1>15, <2>2 DEF Pending, PendingOf
    <3>3. Range(plans'[p].graph) = GraphOf(p)
      BY <1>8, <2>1, <2>6
    <3>4. \A n \in GraphOf(p) : s.node[n].plan = node[n].plan
      <4>1. GraphOf(p) \subseteq DOMAIN node
        BY <2>1 DEF EdgesInv, Homed, Live
      <4>2. QED
        BY <1>9, <1>10, <4>1 DEF Kin
    <3>5. QED
      BY <2>1, <2>4, <3>1, <3>2, <3>3, <3>4 DEF Handed, CallSteps, GraphOf
  <2>7. QED
    BY <2>5, <2>6
<1>20. ASSUME NEW p \in Open' PROVE LaidIn(plans'[p]) /\ PassedIn(s.node, plans'[p])
  <2>1. CASE p = Here
    BY <1>2, <1>3, <2>1
  <2>2. CASE p # Here
    <3>1. p \in Open /\ plans'[p] = plans[p]
      BY <1>2, <1>3, <1>4, <2>2
    <3>2. LaidIn(plans[p]) /\ plans[p].step \in CallSteps \cup {"consts"}
      BY <2>2, <3>1 DEF EdgesInv, Outer
    <3>3. QED
      BY <3>1, <3>2 DEF PassedIn, CallSteps
  <2>3. QED
    BY <2>1, <2>2
<1>21. Outer'
  <2>1. ASSUME NEW p \in Open', p # stack'[1]
        PROVE  plans'[p].step \in CallSteps \cup {"consts"}
    <3>1. p # Here
      BY <1>3, <2>1 DEF Here
    <3>2. QED
      BY <1>2, <1>3, <1>4, <3>1 DEF EdgesInv, Outer
  <2>2. QED
    BY <2>1 DEF Outer, Here
<1>22. QED
  BY <1>2, <1>12, <1>13, <1>14, <1>15, <1>16, <1>17, <1>18, <1>19, <1>20, <1>21 DEF EdgesInv

LEMMA AppendCases ==
  ASSUME NEW seq \in Seq(Nat), NEW e \in Nat, NEW k \in DOMAIN Append(seq, e)
  PROVE  \/ k \in DOMAIN seq /\ Append(seq, e)[k] = seq[k]
         \/ k = Len(seq) + 1 /\ Append(seq, e)[k] = e
<1>1. /\ Len(Append(seq, e)) = Len(seq) + 1 /\ Append(seq, e)[Len(seq) + 1] = e
      /\ \A j \in 1..Len(seq) : Append(seq, e)[j] = seq[j]
      /\ Append(seq, e) \in Seq(Nat)
  BY AppendProperties
<1>2. /\ DOMAIN seq = 1..Len(seq) /\ Len(seq) \in Nat
      /\ DOMAIN Append(seq, e) = 1..Len(Append(seq, e))
  BY <1>1, LenProperties
<1>3. k \in 1..Len(seq) \/ k = Len(seq) + 1
  BY <1>1, <1>2
<1>4. QED
  BY <1>1, <1>2, <1>3

(* What the caller has to have done: a value is noted, and a subquery has a process that
   reads it. *)
Noted(s, step) ==
  s.plan.constPlans = IF step = "consts" THEN Append(self.constPlans, Len(plans) + 1)
                      ELSE self.constPlans

Ready(s, step, entry) ==
  /\ step \in {"from subquery", "join subquery"} =>
       /\ entry \in Range(s.plan.graph) /\ s.node[entry].plan = Here /\ ~s.node[entry].passive
       /\ {s.plan.opTrue, s.plan.opFalse} \subseteq Range(s.plan.graph)
  /\ step \in {"consts", "union member"} => entry = NULL

(* A step in which a plan is called: it is a new one, and has no process yet. *)
LEMMA CallEdges ==
  ASSUME PlanInv, EdgesInv, phase = "build", self.step # "finish",
         NEW K \in Nat, NEW s \in StateOf(K), Fit(s, Here, {}),
         NEW step \in {"consts"} \cup CallSteps, NEW q, NEW entry, NEW isUnion,
         Call(s, step, q, entry, isUnion),
         Noted(s, step), Ready(s, step, entry)
  PROVE  EdgesInv'
<1> DEFINE r   == Len(plans) + 1
           P   == [s.plan EXCEPT !.step = step, !.child = r]
           C   == NewPlan(q, entry, isUnion)
           old == [plans EXCEPT ![Here] = P]
<1>1. /\ DOMAIN plans = 1..Len(plans) /\ 1 \in DOMAIN plans /\ Len(plans) \in Nat
      /\ Here \in Open /\ Here \in Live /\ Here \in DOMAIN plans
      /\ Live \subseteq DOMAIN plans
      /\ \A p \in Open : p <= Here
      /\ self = plans[Here] /\ Open \subseteq DOMAIN plans
  <2>1. Here \in {Here} \cup Pending(Here)
    OBVIOUS
  <2>2. /\ DOMAIN plans = 1..Len(plans) /\ 1 \in DOMAIN plans /\ Len(plans) \in Nat
        /\ Here \in Open /\ Here \in Live /\ Here \in DOMAIN plans
        /\ Live \subseteq DOMAIN plans
        /\ \A p \in Open : p <= Here
    BY <2>1, Place
  <2>3. QED
    BY <2>2 DEF self, Here, Live
<1>2. /\ P.step = step /\ P.child = r /\ P.constPlans = s.plan.constPlans
      /\ SameNames(P, s.plan)
  <2>1. s.plan \in PlanOf(K)
    BY StateParts
  <2>2. QED
    BY <2>1 DEF PlanOf, SameNames
<1>3. /\ C.step = "consts" /\ C.constPlans = << >> /\ C.graph = << >> /\ C.entry = entry
      /\ C.current = NULL /\ C.opTrue = NULL /\ C.opFalse = NULL
  BY DEF NewPlan
<1>4. DOMAIN << >> = {}
  OBVIOUS
<1>5. node' = s.node
  BY DEF Call
<1>6. plans' = Append(old, C) /\ stack' = <<r>> \o stack
  BY DEF Call
<1> HIDE DEF P, C
<1>7. /\ DOMAIN plans' = 1..r /\ plans'[r] = C /\ plans'[Here] = P
      /\ \A p \in DOMAIN plans : p # Here => plans'[p] = plans[p]
  <2>1. old \in Seq({P} \cup PlanOf(Len(node))) /\ Len(old) = Len(plans)
    <3>1. plans \in Seq(PlanOf(Len(node)))
      BY DEF PlanInv
    <3>2. DOMAIN old = DOMAIN plans /\ old = [p \in DOMAIN old |-> old[p]]
      OBVIOUS
    <3>3. \A p \in DOMAIN plans : old[p] \in {P} \cup PlanOf(Len(node))
      BY <3>1, ElementOfSeq
    <3>4. plans \in Seq({P} \cup PlanOf(Len(node)))
      BY <3>1
    <3> HIDE DEF old
    <3>5. QED
      BY <3>2, <3>3, <3>4, MapType
  <2>2. \A p \in DOMAIN plans : old[p] = IF p = Here THEN P ELSE plans[p]
    BY <1>1
  <2> HIDE DEF old
  <2>3. DOMAIN plans' = 1..r /\ plans'[r] = C
        /\ \A p \in 1..Len(plans) : plans'[p] = old[p]
    BY <1>1, <1>6, <2>1
  <2>4. QED
    BY <1>1, <2>2, <2>3
<1> HIDE DEF old
<1>8. Open' = {r} \cup Open /\ stack'[1] = r
  <2>1. stack \in Seq(1..Len(plans)) /\ Descends(stack)
    BY DEF PlanInv, Waiting
  <2>2. QED
    BY <1>1, <1>6, <2>1, Push DEF Open
<1>9. r \notin DOMAIN plans /\ r \notin Live /\ r \notin Open /\ r \in Nat
      /\ r # NULL /\ DOMAIN plans' = DOMAIN plans \cup {r}
  BY <1>1, <1>7 DEF NULL
<1> HIDE DEF r
<1>10. PendingOf(C) = {}
  <2>1. DOMAIN C.constPlans = {}
    BY ONLY <1>4, <1>3
  <2>2. C.step \notin CallSteps
    BY <1>3 DEF CallSteps
  <2>3. QED
    BY <2>1, <2>2 DEF PendingOf, ValuesOf
<1>11. /\ PendingOf(P) = {r} \cup Range(self.constPlans)
       /\ Range(self.constPlans) \subseteq Pending(Here)
       /\ step \in CallSteps => P.constPlans = self.constPlans /\ P.child = r
  <2>1. self.constPlans \in Seq(Nat)
    BY Building DEF PlanOf
  <2>2. Range(self.constPlans) \subseteq Pending(Here)
    BY <1>1 DEF Pending, PendingOf, ValuesOf, Range
  <2>3. P.constPlans = IF step = "consts" THEN Append(self.constPlans, r) ELSE self.constPlans
    BY <1>2 DEF r, Noted
  <2>4. Range(Append(self.constPlans, r)) = Range(self.constPlans) \cup {r}
    BY <1>9, <2>1, RangeOfAppend
  <2>5. step # "finish" /\ (step \in CallSteps <=> step # "consts")
    BY DEF CallSteps
  <2>6. ValuesOf(P) = Range(P.constPlans)
    BY <1>2, <2>5 DEF ValuesOf, Range
  <2>7. QED
    BY <1>2, <2>2, <2>3, <2>4, <2>5, <2>6 DEF PendingOf
<1>12. step = "consts" => P.constPlans = Append(self.constPlans, r)
  BY <1>2 DEF r, Noted
<1>13. ASSUME NEW p \in Open PROVE PendingOf(plans'[p]) \subseteq Pending(p) \cup {r}
                                   /\ (p # Here => PendingOf(plans'[p]) = Pending(p))
  <2>1. CASE p = Here
    BY <1>7, <1>11, <2>1
  <2>2. CASE p # Here
    <3>1. plans'[p] = plans[p]
      BY <1>1, <1>7, <2>2
    <3>2. QED
      BY <2>2, <3>1 DEF Pending
  <2>3. QED
    BY <2>1, <2>2
<1>14. \A p \in Open : r \notin Pending(p)
  BY <1>9 DEF Live
<1>15. Live' \subseteq Live \cup {r}
  <2>1. Live' = {1} \cup Open' \cup UNION {PendingOf(plans'[p]) : p \in Open'}
    BY DEF Live, Pending
  <2>2. QED
    BY <1>7, <1>8, <1>10, <1>13, <2>1 DEF Live
<1>16. /\ Range(plans'[Here].graph) = Range(s.plan.graph) /\ Range(plans'[r].graph) = {}
       /\ \A p \in DOMAIN plans : p # Here => Range(plans'[p].graph) = GraphOf(p)
  BY <1>2, <1>3, <1>7 DEF GraphOf, SameNames, Range
<1>17. Kin(s, Here) /\ Linked(s, {}) /\ Own(s)
  BY DEF Fit
<1>18. /\ node \in Seq(NodeOf(Len(node))) /\ DOMAIN node = 1..Len(node) /\ Len(node) \in Nat
       /\ DOMAIN s.node = 1..Len(s.node) /\ Len(s.node) \in Nat /\ Len(node) <= Len(s.node)
  BY <1>17, StateParts DEF PlanInv, Kin
<1>19. \A p \in Live : p # Here => \A n \in GraphOf(p) :
         n \in 1..Len(node) /\ Still(s.node[n], node[n]) /\ n \notin GraphOf(Here)
  BY <1>17, Apart
<1>20. Tree'
  <2>1. ASSUME NEW p \in Open', NEW o \in Open', p # o
        PROVE  PendingOf(plans'[p]) \cap PendingOf(plans'[o]) = {}
    <3>1. CASE p = r \/ o = r
      BY <1>7, <1>10, <3>1
    <3>2. CASE p \in Open /\ o \in Open
      <4>1. Pending(p) \cap Pending(o) = {} /\ r \notin Pending(p) /\ r \notin Pending(o)
        BY <1>14, <2>1, <3>2 DEF EdgesInv, Tree
      <4>2. QED
        BY <1>13, <2>1, <3>2, <4>1
    <3>3. QED
      BY <1>8, <3>1, <3>2
  <2>2. ASSUME NEW p \in Open'
        PROVE  /\ \A j, k \in DOMAIN plans'[p].constPlans :
                    plans'[p].constPlans[j] = plans'[p].constPlans[k] => j = k
               /\ plans'[p].step \in CallSteps => plans'[p].child \notin Range(plans'[p].constPlans)
    <3>1. CASE p = r
      <4>1. DOMAIN C.constPlans = {}
        BY ONLY <1>4, <1>3
      <4>2. C.step \notin CallSteps
        BY <1>3 DEF CallSteps
      <4>3. QED
        BY <1>7, <3>1, <4>1, <4>2
    <3>2. CASE p = Here
      <4>1. \A j, k \in DOMAIN self.constPlans : self.constPlans[j] = self.constPlans[k] => j = k
        BY <1>1 DEF EdgesInv, Tree
      <4>2. r \notin Range(self.constPlans)
        <5>1. r \notin Pending(Here)
          BY <1>1, <1>14
        <5>2. QED
          BY <1>11, <5>1
      <4>3. CASE step \in CallSteps
        BY <1>2, <1>7, <1>11, <3>2, <4>1, <4>2, <4>3
      <4>4. CASE step = "consts"
        <5> DEFINE noted == Append(self.constPlans, r)
        <5>1. self.constPlans \in Seq(Nat)
          BY Building DEF PlanOf
        <5>2. ASSUME NEW j \in DOMAIN noted, NEW k \in DOMAIN noted, noted[j] = noted[k]
              PROVE  j = k
          BY <1>9, <4>1, <4>2, <5>1, <5>2, AppendCases DEF Range
        <5>3. plans'[p].constPlans = noted /\ plans'[p].step = "consts"
          BY <1>2, <1>7, <1>12, <3>2, <4>4
        <5> HIDE DEF noted
        <5>4. QED
          BY <5>2, <5>3 DEF CallSteps
      <4>5. QED
        BY <4>3, <4>4
    <3>3. CASE p \in Open /\ p # Here
      BY <1>1, <1>7, <3>3 DEF EdgesInv, Tree
    <3>4. QED
      BY <1>8, <3>1, <3>2, <3>3
  <2>3. QED
    BY <2>1, <2>2 DEF Tree, Pending
<1>21. Disjoint'
  <2>1. ASSUME NEW p \in Live, p # Here
        PROVE  GraphOf(p) \cap Range(s.plan.graph) = {}
    <3>1. \A n \in GraphOf(p) : n \in 1..Len(node) /\ n \notin GraphOf(Here)
      BY <1>19, <2>1
    <3>2. \A n \in 1..Len(node) : n \notin (Len(node) + 1)..Len(s.node)
      BY <1>18
    <3>3. QED
      BY <1>17, <3>1, <3>2 DEF Kin
  <2>2. ASSUME NEW p \in Live', NEW o \in Live', p # o
        PROVE  Range(plans'[p].graph) \cap Range(plans'[o].graph) = {}
    <3>1. CASE p = r \/ o = r
      BY <1>16, <3>1
    <3>2. CASE p # r /\ o # r
      <4>1. p \in Live /\ o \in Live /\ p \in DOMAIN plans /\ o \in DOMAIN plans
        BY <1>1, <1>15, <3>2
      <4>2. CASE p # Here /\ o # Here
        BY <1>16, <2>2, <4>1, <4>2 DEF EdgesInv, Disjoint
      <4>3. CASE p = Here \/ o = Here
        BY <1>16, <2>1, <2>2, <4>1, <4>3
      <4>4. QED
        BY <4>2, <4>3
    <3>3. QED
      BY <3>1, <3>2
  <2>3. QED
    BY <2>2 DEF Disjoint, GraphOf
<1>22. Homed'
  <2>1. ASSUME NEW n \in DOMAIN s.node PROVE s.node[n].plan \in DOMAIN plans
    <3>1. CASE n \in 1..Len(node)
      BY <1>17, <1>18, <3>1 DEF Kin, EdgesInv, Homed
    <3>2. CASE n \notin 1..Len(node)
      BY <1>1, <1>17, <1>18, <2>1, <3>2 DEF Kin
    <3>3. QED
      BY <3>1, <3>2
  <2>2. ASSUME NEW p \in Live', NEW n \in Range(plans'[p].graph)
        PROVE  n \in DOMAIN s.node /\ (s.node[n].plan \in Live' => s.node[n].plan = p)
    <3>1. p \in Live /\ p \in DOMAIN plans
      BY <1>1, <1>15, <1>16, <2>2
    <3>2. n \in DOMAIN s.node => (s.node[n].plan \in Live' => s.node[n].plan \in Live)
      BY <1>9, <1>15, <2>1
    <3>3. CASE p # Here
      <4>1. n \in GraphOf(p)
        BY <1>16, <2>2, <3>1, <3>3
      <4>2. n \in 1..Len(node) /\ s.node[n].plan = node[n].plan
        BY <1>19, <3>1, <3>3, <4>1 DEF Still, Alike
      <4>3. QED
        BY <1>18, <3>1, <3>2, <4>1, <4>2 DEF EdgesInv, Homed
    <3>4. CASE p = Here
      <4>1. n \in GraphOf(Here) \cup ((Len(node) + 1)..Len(s.node))
        BY <1>16, <1>17, <2>2, <3>4 DEF Kin
      <4>2. CASE n \in (Len(node) + 1)..Len(s.node)
        BY <1>17, <1>18, <3>4, <4>2 DEF Kin
      <4>3. CASE n \in GraphOf(Here)
        BY <1>1, <1>17, <1>18, <3>2, <3>4, <4>3 DEF Kin, EdgesInv, Homed
      <4>4. QED
        BY <4>1, <4>2, <4>3
    <3>5. QED
      BY <3>3, <3>4
  <2>3. QED
    BY <1>5, <1>9, <2>1, <2>2 DEF Homed, GraphOf
<1>23. plans'[1].entry = NULL /\ \A p \in DOMAIN plans : plans'[p].entry = plans[p].entry
  BY <1>1, <1>2, <1>7 DEF EdgesInv, SameNames, Fit
<1>24. ASSUME NEW p \in Live' PROVE Within(p)'
  <2>1. ASSUME NEW n \in Range(plans'[p].graph), NEW b \in 0..1
        PROVE  /\ ~s.node[n].freed
               /\ s.node[n].out[b] \in {NULL, plans'[p].entry} \cup Range(plans'[p].graph)
    <3>1. p \in Live /\ p \in DOMAIN plans
      BY <1>1, <1>15, <1>16, <2>1
    <3>2. CASE p = Here
      BY <1>2, <1>7, <1>16, <1>17, <2>1, <3>2 DEF Linked, Targets, SameNames
    <3>3. CASE p # Here
      <4>1. n \in GraphOf(p) /\ Still(s.node[n], node[n])
        BY <1>16, <1>19, <2>1, <3>1, <3>3
      <4>2. ~node[n].freed /\ node[n].out[b] \in {NULL, plans[p].entry} \cup GraphOf(p)
        BY <3>1, <4>1 DEF EdgesInv, Within
      <4>3. QED
        BY <1>16, <1>23, <3>1, <3>3, <4>1, <4>2 DEF Still, Alike
    <3>4. QED
      BY <3>2, <3>3
  <2>2. QED
    BY <1>5, <2>1 DEF Within, GraphOf
<1>25. ASSUME NEW p \in DOMAIN plans' PROVE Owned(p)'
  <2>1. CASE p = r
    BY <1>3, <1>7, <2>1 DEF Owned
  <2>2. CASE p = Here
    BY <1>2, <1>5, <1>7, <1>17, <1>18, <2>2 DEF Owned, Own, SameNames
  <2>3. CASE p # r /\ p # Here
    <3>1. plans'[p] = plans[p] /\ Owned(p)
      BY <1>7, <1>9, <2>3 DEF EdgesInv
    <3>2. \A n \in DOMAIN node : n \in DOMAIN s.node /\ s.node[n].plan = node[n].plan
      BY <1>17, <1>18 DEF Kin
    <3>3. QED
      BY <1>5, <3>1, <3>2 DEF Owned
  <2>4. QED
    BY <2>1, <2>2, <2>3
<1>26. ASSUME NEW p \in Open' PROVE Entered(p)'
  <2>1. CASE p = r
    <3>1. CASE entry = NULL
      BY <1>3, <1>7, <2>1, <3>1 DEF Entered
    <3>2. CASE entry # NULL
      <4>1. step \in {"from subquery", "join subquery"}
        BY <3>2 DEF CallSteps, Ready
      <4>2. Here < r
        BY <1>1 DEF r
      <4>3. QED
        BY <1>1, <1>3, <1>5, <1>7, <1>8, <1>16, <2>1, <4>1, <4>2 DEF Entered, GraphOf, Ready
    <3>3. QED
      BY <3>1, <3>2
  <2>2. CASE p \in Open
    <3>1. plans'[p].entry = plans[p].entry
      BY <1>1, <1>23, <2>2
    <3>2. CASE plans[p].entry = NULL
      BY <3>1, <3>2 DEF Entered
    <3>3. CASE plans[p].entry # NULL
      <4>1. PICK o \in Open : /\ o < p /\ plans[p].entry \in GraphOf(o)
                              /\ node[plans[p].entry].plan = o /\ ~node[plans[p].entry].passive
        BY <2>2, <3>3 DEF EdgesInv, Entered
      <4>2. o # Here
        <5>1. p <= Here /\ p \in Nat /\ o \in Nat /\ Here \in Nat
          BY <1>1, <2>2
        <5>2. QED
          BY <4>1, <5>1
      <4>3. o \in Live /\ o \in DOMAIN plans
        BY <1>1 DEF Live
      <4>4. Still(s.node[plans[p].entry], node[plans[p].entry])
        BY <1>19, <4>1, <4>2, <4>3
      <4>5. Range(plans'[o].graph) = GraphOf(o)
        BY <1>16, <4>2, <4>3
      <4>6. o \in Open'
        BY <1>8
      <4>7. QED
        BY <1>5, <3>1, <4>1, <4>4, <4>5, <4>6 DEF Entered, Still, Alike, GraphOf
    <3>4. QED
      BY <3>2, <3>3
  <2>3. QED
    BY <1>8, <2>1, <2>2
<1>27. ASSUME NEW p \in Open' PROVE Handed(p)'
  <2>1. CASE p = r
    <3>1. DOMAIN C.constPlans = {}
      BY ONLY <1>4, <1>3
    <3>2. C.step \notin CallSteps
      BY <1>3 DEF CallSteps
    <3>3. QED
      BY <1>7, <2>1, <3>1, <3>2 DEF Handed, CallSteps
  <2>2. ASSUME p \in Open
        PROVE  /\ p \in DOMAIN plans /\ Handed(p) /\ Pending(p) \subseteq DOMAIN plans
               /\ \A k \in DOMAIN plans[p].constPlans :
                    plans[p].constPlans[k] \in DOMAIN plans
    <3>1. p \in DOMAIN plans /\ Handed(p)
      BY <1>1, <2>2 DEF EdgesInv
    <3>2. Pending(p) \subseteq DOMAIN plans
      BY <1>1, <2>2 DEF Live
    <3>3. PlanOK(p) /\ p \in Nat
      BY <1>1, <3>1 DEF PlanInv
    <3>4. ASSUME NEW k \in DOMAIN plans[p].constPlans
          PROVE  plans[p].constPlans[k] \in DOMAIN plans
      <4>1. plans[p].constPlans[k] \in (p + 1)..Len(plans)
        BY <3>3 DEF PlanOK
      <4>2. QED
        BY <1>1, <3>3, <4>1
    <3>5. QED
      BY <3>1, <3>2, <3>4
  <2>3. CASE p = Here
    <3>1. plans'[p] = P /\ Range(plans'[p].graph) = Range(s.plan.graph)
      BY <1>7, <1>16, <2>3
    <3>2. \A k \in DOMAIN self.constPlans : plans'[self.constPlans[k]].entry = NULL
      BY <1>1, <1>23, <2>2, <2>3 DEF Handed
    <3>3. plans'[r].entry = entry
      BY <1>3, <1>7
    <3>4. CASE step \in CallSteps
      BY <1>2, <1>5, <1>11, <2>3, <3>1, <3>2, <3>3, <3>4 DEF Handed, GraphOf, Ready
    <3>5. CASE step = "consts"
      <4>1. self.constPlans \in Seq(Nat) /\ entry = NULL
        BY <3>5, Building DEF PlanOf, Ready
      <4>2. ASSUME NEW k \in DOMAIN Append(self.constPlans, r)
            PROVE  plans'[Append(self.constPlans, r)[k]].entry = NULL
        <5>1. \/ k \in DOMAIN self.constPlans /\ Append(self.constPlans, r)[k] = self.constPlans[k]
              \/ Append(self.constPlans, r)[k] = r
          BY <1>9, <4>1, AppendCases
        <5>2. QED
          BY <3>2, <3>3, <4>1, <5>1
      <4>3. QED
        BY <1>2, <1>12, <3>1, <3>5, <4>2 DEF Handed
    <3>6. QED
      BY <3>4, <3>5
  <2>4. CASE p \in Open /\ p # Here
    <3>1. plans'[p] = plans[p] /\ p \in Live
      BY <1>1, <1>7, <2>4 DEF Live
    <3>2. plans[p].step \in CallSteps => plans'[plans[p].child].entry = plans[plans[p].child].entry
      BY <1>23, <2>2, <2>4 DEF Pending, PendingOf
    <3>3. \A k \in DOMAIN plans[p].constPlans : plans'[plans[p].constPlans[k]].entry = NULL
      BY <1>23, <2>2, <2>4 DEF Handed
    <3>4. Range(plans'[p].graph) = GraphOf(p)
      BY <1>16, <2>2, <2>4
    <3>5. \A n \in GraphOf(p) : s.node[n].plan = node[n].plan
      BY <1>19, <2>4, <3>1 DEF Still, Alike
    <3>6. QED
      BY <1>5, <2>2, <2>4, <3>1, <3>2, <3>3, <3>4, <3>5 DEF Handed, CallSteps, GraphOf
  <2>5. QED
    BY <1>8, <2>1, <2>3, <2>4
<1>28. ASSUME NEW p \in Open' PROVE LaidIn(plans'[p]) /\ PassedIn(s.node, plans'[p])
  <2>1. CASE p = r
    BY <1>3, <1>7, <2>1 DEF LaidIn, PassedIn, ClauseSteps
  <2>2. CASE p = Here
    BY ZenonT(60), <1>2, <1>7, <2>2 DEF LaidIn, PassedIn, ClauseSteps, CallSteps, SameNames, Ready
  <2>3. CASE p \in Open /\ p # Here
    <3>1. plans'[p] = plans[p] /\ LaidIn(plans[p]) /\ plans[p].step \in CallSteps \cup {"consts"}
      BY <1>1, <1>7, <2>3 DEF EdgesInv, Outer
    <3>2. QED
      BY <3>1 DEF PassedIn, CallSteps
  <2>4. QED
    BY <1>8, <2>1, <2>2, <2>3
<1>29. Outer'
  <2>1. ASSUME NEW p \in Open', p # stack'[1]
        PROVE  plans'[p].step \in CallSteps \cup {"consts"}
    <3>1. p \in Open
      BY <1>8, <2>1
    <3>2. QED
      BY <1>1, <1>2, <1>7, <3>1 DEF EdgesInv, Outer
  <2>2. QED
    BY <2>1 DEF Outer, Here
<1>30. QED
  BY <1>5, <1>20, <1>21, <1>22, <1>23, <1>24, <1>25, <1>26, <1>27, <1>28, <1>29 DEF EdgesInv

-----------------------------------------------------------------------------
(* Each step of _build keeps what has been said of the graphs. *)

LEMMA Start ==
  ASSUME PlanInv, EdgesInv, phase = "build", NEW K, K = Len(node) + 4
  PROVE  /\ K \in Nat /\ State \in StateOf(K) /\ Fit(State, Here, {})
         /\ State.node = node /\ State.plan = self /\ Here \in Nat /\ self = plans[Here]
         /\ Len(node) \in Nat /\ Len(node) < K /\ Len(node) + 1 < K /\ Len(node) + 2 <= K
         /\ Len(node) + 3 <= K /\ Len(node) + 4 <= K
         /\ self.query \in QueryType /\ self \in PlanOf(K)
         /\ self.step \in ClauseSteps =>
              self.opTrue \in Range(self.graph) /\ self.opFalse \in Range(self.graph)
<1>1. 3 \in Nat /\ Here \in {Here} \cup Pending(Here)
  OBVIOUS
<1>2. /\ State \in StateOf(K) /\ Len(node) \in Nat /\ K \in Nat
      /\ State.node = node /\ State.plan = self /\ Here \in Nat
  BY <1>1, Room
<1> DEFINE X == {}
<1>3. Fit(State, Here, X)
  <2> HIDE DEF X
  <2>1. QED
    BY <1>1, StateFit
<1>4. Len(node) < K /\ Len(node) + 1 < K /\ Len(node) + 2 <= K /\ Len(node) + 3 <= K /\ Len(node) + 4 <= K
  BY <1>2
<1>5. self.query \in QueryType
  BY Building
<1>6. self \in PlanOf(K)
  BY <1>2, StateParts
<1>7. LaidIn(self) /\ self = plans[Here]
  BY Building DEF EdgesInv, Open, self, Here
<1>8. QED
  BY <1>2, <1>3, <1>4, <1>5, <1>6, <1>7 DEF LaidIn

(* This plan, and the one that it has called, are none of the values that it uses. *)
LEMMA OthersThanValues ==
  ASSUME PlanInv, EdgesInv, phase = "build", self.step # "finish"
  PROVE  /\ Range(self.constPlans) \subseteq Pending(Here)
         /\ Here \notin Range(self.constPlans)
         /\ self.step \in CallSteps =>
              self.child \in Pending(Here) /\ self.child \notin Range(self.constPlans)
<1>1. self = plans[Here] /\ Here \in Open
  BY Building DEF Open, self, Here
<1>2. Range(self.constPlans) \subseteq Pending(Here)
  BY <1>1 DEF Pending, PendingOf, ValuesOf, Range
<1>3. Here \in {Here} \cup Pending(Here)
  OBVIOUS
<1>4. Here \notin Pending(Here)
  BY <1>3, Place
<1>5. self.step \in CallSteps =>
        self.child \in Pending(Here) /\ self.child \notin Range(self.constPlans)
  BY <1>1 DEF EdgesInv, Tree, Pending, PendingOf
<1>6. QED
  BY <1>2, <1>4, <1>5

LEMMA GoEdges ==
  ASSUME PlanInv, EdgesInv, NEW now \in Steps \ {"finish"}, At(now),
         NEW K \in Nat, NEW s \in StateOf(K), NEW c \in {Here} \cup Pending(Here),
         c \notin Range(self.constPlans), Fit(s, c, {}), s.plan.constPlans = self.constPlans,
         NEW step \in GoSteps, Go(s, step),
         step \in ClauseSteps => {s.plan.opTrue, s.plan.opFalse} \subseteq Range(s.plan.graph),
         step = "clear" => \A k \in DOMAIN s.plan.graph : k < s.plan.i =>
                             \A b \in 0..1 : ~ToPassive(s, s.plan.graph[k], b)
  PROVE  EdgesInv'
<1> DEFINE P == [s.plan EXCEPT !.step = step]
<1>1. /\ SameNames(P, s.plan) /\ P.constPlans = self.constPlans /\ P.step = step /\ P.i = s.plan.i
  <2>1. s.plan \in PlanOf(K)
    BY StateParts
  <2>2. QED
    BY <2>1 DEF PlanOf, SameNames
<1>2. node' = s.node /\ plans' = [plans EXCEPT ![Here] = P] /\ stack' = stack
  BY DEF Go
<1> HIDE DEF P
<1>3. phase = "build" /\ self.step # "finish"
  BY DEF At
<1>4. P.step \notin CallSteps
  BY <1>1 DEF GoSteps, CallSteps
<1>5. ValuesOf(P) \subseteq Pending(Here) \ {c}
  <2>1. ValuesOf(P) \subseteq Range(self.constPlans)
    BY <1>1 DEF ValuesOf, Range
  <2>2. QED
    BY <1>3, <2>1, OthersThanValues
<1>6. LaidIn(P)
  BY <1>1 DEF LaidIn, SameNames
<1>7. PassedIn(s.node, P)
  BY <1>1 DEF PassedIn, SameNames, ToPassive
<1>8. QED
  BY <1>1, <1>2, <1>3, <1>4, <1>5, <1>6, <1>7, StepEdges

(* A clause adds to the graph, which the ends of the conditions stay in. *)
LEMMA ClauseEdges ==
  ASSUME PlanInv, EdgesInv, NEW now \in ClauseSteps, At(now),
         NEW K \in Nat, NEW s \in StateOf(K), NEW c \in {Here} \cup Pending(Here),
         c \notin Range(self.constPlans), Fits(s, State, K, c),
         NEW step \in ClauseSteps \cap GoSteps, Go(s, step)
  PROVE  EdgesInv'
<1>1. phase = "build" /\ self.step \in ClauseSteps /\ State.plan = self
  BY DEF At, State
<1>2. /\ s.plan.constPlans = self.constPlans
      /\ {s.plan.opTrue, s.plan.opFalse} \subseteq Range(s.plan.graph)
  <2> DEFINE K3 == Len(node) + 4
  <2>1. self.opTrue \in Range(self.graph) /\ self.opFalse \in Range(self.graph)
    BY <1>1, Start
  <2>2. QED
    BY <1>1, <2>1 DEF Fits, Grown
<1>3. now \in Steps \ {"finish"} /\ step # "clear"
  BY DEF ClauseSteps, Steps, CallSteps, GoSteps
<1>4. QED
  BY <1>2, <1>3, GoEdges DEF Fits

LEMMA SameEdges ==
  ASSUME EdgesInv, UNCHANGED <<node, plans, stack>>
  PROVE  EdgesInv'
<1>1. Open' = Open /\ Live' = Live /\ Here' = Here
  BY DEF Open, Live, Pending, Here
<1>2. Tree' /\ Disjoint' /\ Homed' /\ Outer'
  BY <1>1 DEF EdgesInv, Tree, Disjoint, Homed, Outer, Pending, GraphOf
<1>3. \A p \in Live : Within(p)'
  BY DEF EdgesInv, Within, GraphOf
<1>4. \A p \in DOMAIN plans : Owned(p)'
  BY DEF EdgesInv, Owned
<1>5. \A p \in Open : Entered(p)' /\ Handed(p)'
  BY <1>1 DEF EdgesInv, Entered, Handed, GraphOf
<1>6. QED
  BY <1>1, <1>2, <1>3, <1>4, <1>5 DEF EdgesInv

(* A value is noted. *)
ValueNoted == [Further(State) EXCEPT !.plan.constPlans = Append(@, Len(plans) + 1)]

LEMMA BuildConstFits ==
  ASSUME PlanInv, EdgesInv, At("consts"), NEW K, K = Len(node) + 4
  PROVE  LET s == ValueNoted
         IN  /\ s \in StateOf(K) /\ Fit(s, Here, {}) /\ s.node = node
             /\ s.plan.graph = self.graph /\ s.plan.query = self.query
             /\ s.plan.isUnion = self.isUnion /\ s.plan.entry = self.entry
             /\ s.plan.next = self.next
             /\ Noted(s, "consts") /\ Ready(s, "consts", NULL)
<1> DEFINE f == Further(State)
           s == [f EXCEPT !.plan.constPlans = Append(@, Len(plans) + 1)]
<1>1. phase = "build"
  BY DEF At
<1>2. K \in Nat /\ State \in StateOf(K) /\ Fit(State, Here, {}) /\ State.plan = self
      /\ State.node = node
  BY <1>1, Start
<1>3. f \in StateOf(K) /\ Fit(f, Here, {}) /\ SameNames(f.plan, self) /\ f.node = node
  BY <1>2, FurtherFit
<1>4. f.plan.query = self.query /\ f.plan.isUnion = self.isUnion /\ f.plan.next = self.next
  BY <1>2 DEF Further, StateOf, PlanOf
<1> HIDE DEF f
<1>5. f.plan \in PlanOf(K) /\ f.plan.constPlans \in Seq(Nat) /\ f.plan.constPlans = self.constPlans
  BY <1>2, <1>3, StateParts DEF PlanOf, SameNames
<1>6. Len(plans) + 1 \in Nat
  BY <1>1, Building
<1>7. Append(f.plan.constPlans, Len(plans) + 1) \in Seq(Nat)
  BY <1>5, <1>6, AppendProperties
<1>8. /\ s \in StateOf(K) /\ s.node = f.node /\ s.plan.graph = f.plan.graph
      /\ s.plan.entry = f.plan.entry /\ s.plan.current = f.plan.current
      /\ s.plan.opTrue = f.plan.opTrue /\ s.plan.opFalse = f.plan.opFalse
      /\ s.plan.constPlans = Append(f.plan.constPlans, Len(plans) + 1)
  BY ZenonT(60), <1>3, <1>5, <1>7 DEF StateOf, PlanOf
<1>9. /\ s.plan.query = f.plan.query /\ s.plan.isUnion = f.plan.isUnion
       /\ s.plan.next = f.plan.next
  BY <1>3 DEF StateOf, PlanOf
<1>10. ValueNoted = s
  BY DEF ValueNoted, s, f
<1> HIDE DEF s
<1>11. Own(s)
  BY <1>3, <1>8 DEF Own, Fit
<1>12. Fit(s, Here, {})
  BY <1>2, <1>3, <1>8, <1>11, PlanFit
<1>13. Noted(s, "consts") /\ Ready(s, "consts", NULL)
  BY <1>5, <1>8 DEF Noted, Ready
<1>14. QED
  BY <1>3, <1>4, <1>8, <1>9, <1>10, <1>12, <1>13 DEF SameNames

LEMMA BuildConstEdges ==
  ASSUME PlanInv, EdgesInv, BuildConst
  PROVE  EdgesInv'
<1> DEFINE K == Len(node) + 4
           q == self.query.consts[self.i].query
<1>1. /\ phase = "build" /\ At("consts") /\ self.step = "consts"
      /\ Call(ValueNoted, "consts", q, NULL, FALSE)
  BY DEF BuildConst, At, ValueNoted
<1>2. K \in Nat
  BY <1>1, Start
<1>3. /\ ValueNoted \in StateOf(K) /\ Fit(ValueNoted, Here, {})
      /\ Noted(ValueNoted, "consts") /\ Ready(ValueNoted, "consts", NULL)
  BY <1>1, BuildConstFits
<1> HIDE DEF K, q
<1>4. QED
  BY <1>1, <1>2, <1>3, CallEdges

(* A process that leads nowhere is added. *)
LEMMA NewFit ==
  ASSUME NEW K \in Nat, NEW s \in StateOf(K), NEW c, Fit(s, c, {}), Len(s.node) < K,
         NEW process \in NodeOf(K), process.plan = Here, ~process.freed,
         \A b \in 0..1 : process.out[b] = NULL
  PROVE  Fits(Add(s, process), s, K, c) /\ Added(Add(s, process), s, process)
<1> DEFINE X == {}
<1>1. \A b \in 0..1 : process.out[b] \in Targets(s, X) \cup {Len(s.node) + 1}
  BY DEF Targets
<1>2. X \subseteq X \cup {Len(s.node) + 1} /\ Fit(s, c, X)
  OBVIOUS
<1> HIDE DEF X
<1>3. Fit(Add(s, process), c, X)
  BY <1>1, <1>2, AddFit
<1>4. QED
  BY <1>3, AddGrown DEF X, Fits

LEMMA ReadSubqueryEdges ==
  ASSUME PlanInv, EdgesInv, At("from"), NEW process, \A K \in Nat : process \in NodeOf(K),
         process.plan = Here, ~process.freed, ~process.passive,
         \A b \in 0..1 : process.out[b] = NULL,
         NEW step \in {"from subquery", "join subquery"}, NEW q,
         Call(Add(State, process), step, q, Len(node) + 1, FALSE)
  PROVE  EdgesInv'
<1> DEFINE K == Len(node) + 4
           s == Add(State, process)
<1>1. phase = "build" /\ self.step = "from"
  BY DEF At
<1>2. /\ K \in Nat /\ State \in StateOf(K) /\ Fit(State, Here, {}) /\ State.plan = self
      /\ State.node = node /\ Len(State.node) < K
      /\ self.opTrue \in Range(self.graph) /\ self.opFalse \in Range(self.graph)
  BY <1>1, Start DEF ClauseSteps
<1> HIDE DEF K
<1>3. process \in NodeOf(K)
  BY <1>2
<1>4. Fits(s, State, K, Here) /\ Added(s, State, process)
  <2>1. /\ process.plan = Here /\ ~process.freed /\ \A b \in 0..1 : process.out[b] = NULL
        /\ State \in StateOf(K) /\ Fit(State, Here, {}) /\ Len(State.node) < K
    BY <1>2
  <2>2. QED
    BY ONLY <1>2, <1>3, <2>1, NewFit
<1>5. s \in StateOf(K) /\ Fit(s, Here, {}) /\ Grown(s, State)
  BY <1>4 DEF Fits
<1>6. Call(s, step, q, Len(node) + 1, FALSE)
  OBVIOUS
<1> HIDE DEF s
<1>7. Noted(s, step)
  BY <1>2, <1>5 DEF Noted, Grown
<1>8. Ready(s, step, Len(node) + 1)
  BY <1>2, <1>4, <1>5 DEF Ready, Grown, Added
<1>9. step \in {"consts"} \cup CallSteps /\ self.step # "finish"
  BY <1>1 DEF CallSteps
<1>10. QED
  BY <1>1, <1>2, <1>5, <1>6, <1>7, <1>8, <1>9, CallEdges

LEMMA SubqueryEdges ==
  ASSUME PlanInv, EdgesInv, FromSubquery \/ JoinSubquery
  PROVE  EdgesInv'
<1>1. At("from") /\ phase = "build" /\ Here \in Nat
  BY Building DEF FromSubquery, JoinSubquery, MoreSources, At
<1> DEFINE read  == Process(Here, "read")
           other == [read EXCEPT !.secondary = TRUE]
<1>2. /\ \A K \in Nat : read \in NodeOf(K)
      /\ read.plan = Here /\ ~read.freed /\ ~read.passive /\ \A b \in 0..1 : read.out[b] = NULL
  BY <1>1, ProcessType DEF Process, Actions
<1>3. 0 \in Nat
  OBVIOUS
<1> HIDE DEF read
<1>4. /\ \A K \in Nat : other \in NodeOf(K)
      /\ other.plan = Here /\ ~other.freed /\ ~other.passive
      /\ \A b \in 0..1 : other.out[b] = NULL
  <2>1. \A K \in Nat : other \in NodeOf(K)
    BY <1>2, NodeFields
  <2>2. read \in NodeOf(0)
    BY <1>2, <1>3
  <2>3. other.plan = Here /\ ~other.freed /\ ~other.passive /\ other.out = read.out
    BY <1>2, <2>2 DEF NodeOf
  <2>4. QED
    BY <1>2, <2>1, <2>3
<1> HIDE DEF other
<1>5. CASE FromSubquery
  <2>1. Call(Add(State, read), "from subquery", source.query, Len(node) + 1, FALSE)
    BY <1>5 DEF FromSubquery, read
  <2>2. QED
    BY <1>1, <1>2, <2>1, ReadSubqueryEdges
<1>6. CASE JoinSubquery
  <2>1. Call(Add(State, other), "join subquery", source.query, Len(node) + 1, FALSE)
    BY <1>6 DEF JoinSubquery, other, read
  <2>2. QED
    BY <1>1, <1>4, <2>1, ReadSubqueryEdges
<1>7. QED
  BY <1>5, <1>6

LEMMA BuildUnionEdges ==
  ASSUME PlanInv, EdgesInv, BuildUnion
  PROVE  EdgesInv'
<1> DEFINE K == Len(node) + 4
           s == Further(State)
           q == self.query.unions[self.i]
<1>1. phase = "build" /\ self.step = "union" /\ Call(s, "union member", q, NULL, TRUE)
  BY DEF BuildUnion, At
<1>2. K \in Nat /\ State \in StateOf(K) /\ Fit(State, Here, {}) /\ State.plan = self
  BY <1>1, Start
<1> HIDE DEF K, q
<1>3. s \in StateOf(K) /\ Fit(s, Here, {}) /\ SameNames(s.plan, self)
  BY <1>2, FurtherFit
<1> HIDE DEF s
<1>4. Noted(s, "union member") /\ Ready(s, "union member", NULL)
  BY <1>3 DEF Noted, Ready, SameNames
<1>5. "union member" \in {"consts"} \cup CallSteps
  BY DEF CallSteps
<1>6. QED
  BY <1>1, <1>2, <1>3, <1>4, <1>5, CallEdges

(* The three processes that every plan begins with. *)
Skeleton ==
  LET p == Process(Here, "no_op") IN Add(Add(Add(State, Passive(Here)), p), p)

Constructed ==
  [Skeleton EXCEPT !.plan.current = Len(node) + 1, !.plan.opTrue = Len(node) + 2,
                   !.plan.opFalse = Len(node) + 3, !.plan.i = 1]

LEMMA ConstructFits ==
  ASSUME PlanInv, EdgesInv, At("consts"), NEW K, K = Len(node) + 4
  PROVE  LET s == Constructed
             n == Len(node) + 1
         IN  /\ Skeleton \in StateOf(K) /\ Grown(Skeleton, State)
             /\ s \in StateOf(K) /\ Fit(s, Here, {}) /\ s.plan.constPlans = self.constPlans
             /\ s.node = Skeleton.node /\ s.plan.graph = Skeleton.plan.graph
             /\ s.plan.query = Skeleton.plan.query /\ s.plan.isUnion = Skeleton.plan.isUnion
             /\ s.plan.entry = Skeleton.plan.entry /\ s.plan.next = Skeleton.plan.next
             /\ s.plan.i = 1 /\ s.plan.current = n /\ s.plan.opTrue = n + 1
             /\ s.plan.opFalse = n + 2 /\ {n, n + 1, n + 2} \subseteq Range(s.plan.graph)
             /\ ~s.node[n + 1].passive
<1> DEFINE n  == Len(node) + 1
           p  == Process(Here, "no_op")
           a1 == Add(State, Passive(Here))
           a2 == Add(a1, p)
           a3 == Add(a2, p)
           s1 == [a3 EXCEPT !.plan.current = n]
           s2 == [s1 EXCEPT !.plan.opTrue = n + 1]
           s3 == [s2 EXCEPT !.plan.opFalse = n + 2]
           s4 == [s3 EXCEPT !.plan.i = 1]
<1>1. phase = "build"
  BY DEF At
<1>2. /\ K \in Nat /\ State \in StateOf(K) /\ Fit(State, Here, {}) /\ State.plan = self
      /\ State.node = node /\ Len(node) < K /\ Len(node) + 1 < K /\ Len(node) + 2 < K
      /\ Len(node) \in Nat /\ Here \in Nat
  BY <1>1, Start
<1>3. n \in 1..K /\ n + 1 \in 1..K /\ n + 2 \in 1..K
  BY <1>2
<1>4. /\ p \in NodeOf(K) /\ p.plan = Here /\ ~p.freed /\ ~p.passive /\ \A b \in 0..1 : p.out[b] = NULL
      /\ Passive(Here) \in NodeOf(K) /\ Passive(Here).plan = Here /\ ~Passive(Here).freed
      /\ \A b \in 0..1 : Passive(Here).out[b] = NULL
  BY <1>2, ProcessType, PassiveType DEF Process, Passive, Actions
<1> HIDE DEF p
<1>5. Len(State.node) < K /\ Len(State.node) = Len(node)
  BY <1>2
<1>7. /\ a1 \in StateOf(K) /\ Fit(a1, Here, {}) /\ Grown(a1, State) /\ Len(a1.node) = Len(node) + 1
      /\ a1.node[n] = Passive(Here) /\ n \in Range(a1.plan.graph)
  <2>1. Fits(a1, State, K, Here) /\ Added(a1, State, Passive(Here))
    BY ONLY <1>2, <1>4, <1>5, NewFit
  <2> HIDE DEF a1
  <2>2. QED
    BY <1>5, <2>1 DEF Fits, Added
<1> HIDE DEF a1
<1>8. /\ a2 \in StateOf(K) /\ Fit(a2, Here, {}) /\ Grown(a2, a1) /\ Len(a2.node) = Len(a1.node) + 1
      /\ a2.node[Len(a1.node) + 1] = p
      /\ Range(a2.plan.graph) = Range(a1.plan.graph) \cup {Len(a1.node) + 1}
      /\ \A m \in 1..Len(a1.node) : a2.node[m] = a1.node[m]
  <2>1. Len(a1.node) < K
    BY <1>2, <1>7
  <2>2. Fits(a2, a1, K, Here) /\ Added(a2, a1, p)
    BY ONLY <1>2, <1>4, <1>7, <2>1, NewFit
  <2> HIDE DEF a2
  <2>3. QED
    BY <2>2 DEF Fits, Added
<1> HIDE DEF a2
<1>9. /\ a3 \in StateOf(K) /\ Fit(a3, Here, {}) /\ Grown(a3, a2) /\ Len(a3.node) = Len(a2.node) + 1
      /\ a3.node[Len(a2.node) + 1] = p
      /\ Range(a3.plan.graph) = Range(a2.plan.graph) \cup {Len(a2.node) + 1}
      /\ \A m \in 1..Len(a2.node) : a3.node[m] = a2.node[m]
  <2>1. Len(a2.node) < K
    BY <1>2, <1>7, <1>8
  <2>2. Fits(a3, a2, K, Here) /\ Added(a3, a2, p)
    BY ONLY <1>2, <1>4, <1>8, <2>1, NewFit
  <2> HIDE DEF a3
  <2>3. QED
    BY <2>2 DEF Fits, Added
<1> HIDE DEF a3
<1>10. /\ Len(a1.node) = n /\ Len(a2.node) = n + 1 /\ Len(a3.node) = n + 2
       /\ a3.node[n].plan = Here /\ a3.node[n + 1].plan = Here /\ a3.node[n + 2].plan = Here
       /\ {n, n + 1, n + 2} \subseteq Range(a3.plan.graph) /\ ~a3.node[n + 1].passive
  <2>1. Len(a1.node) = n /\ Len(a2.node) = n + 1 /\ Len(a3.node) = n + 2
    BY <1>2, <1>7, <1>8, <1>9
  <2>2. n \in 1..n /\ n \in 1..(n + 1) /\ n + 1 \in 1..(n + 1)
    BY <1>2
  <2>3. a3.node[n] = Passive(Here) /\ a3.node[n + 1] = p /\ a3.node[n + 2] = p
    <3>1. n + 2 = Len(a2.node) + 1 /\ n + 1 = Len(a1.node) + 1
      BY <1>2, <2>1
    <3>2. QED
      BY <1>7, <1>8, <1>9, <2>1, <2>2, <3>1
  <2>4. {n, n + 1, n + 2} \subseteq Range(a3.plan.graph)
    BY <1>2, <1>7, <1>8, <1>9, <2>1
  <2>5. QED
    BY <1>4, <2>1, <2>3, <2>4
<1>11. s1 \in StateOf(K)
  <2>1. n \in 0..K
    BY <1>3
  <2>2. QED
    BY <1>2, <1>9, <2>1, PlanFields DEF From
<1>12. s2 \in StateOf(K)
  <2> HIDE DEF s1
  <2>1. QED
    BY <1>2, <1>3, <1>11, PlanFields DEF From
<1>13. s3 \in StateOf(K)
  <2>1. n + 2 \in 0..K
    BY <1>3
  <2> HIDE DEF s2
  <2>2. QED
    BY <1>2, <1>12, <2>1, PlanFields DEF From
<1>14. s4 \in StateOf(K)
  <2>1. 1 \in Nat \ {0}
    OBVIOUS
  <2> HIDE DEF s3
  <2>2. QED
    BY <1>2, <1>13, <2>1, PlanFields DEF From
<1>15. /\ s4.node = a3.node /\ s4.plan.graph = a3.plan.graph /\ s4.plan.entry = a3.plan.entry
       /\ s4.plan.current = n /\ s4.plan.opTrue = n + 1 /\ s4.plan.opFalse = n + 2
       /\ s4.plan.constPlans = a3.plan.constPlans /\ s4.plan.i = 1
       /\ s4.plan.query = a3.plan.query /\ s4.plan.isUnion = a3.plan.isUnion
       /\ s4.plan.next = a3.plan.next
  BY <1>9 DEF StateOf, PlanOf
<1>16. Skeleton = a3 /\ Constructed = s4
  <2>1. Skeleton = a3
    BY DEF Skeleton, a1, a2, a3, p
  <2>2. Len(node) + 2 = n + 1 /\ Len(node) + 3 = n + 2
    BY <1>2
  <2>3. QED
    BY <2>1, <2>2 DEF Constructed, s1, s2, s3, s4
<1> HIDE DEF s1, s2, s3, s4
<1>17. Own(s4)
  <2>1. n \in 1..Len(a3.node) /\ n + 1 \in 1..Len(a3.node) /\ n + 2 \in 1..Len(a3.node)
    BY <1>2, <1>10
  <2>2. QED
    BY <1>10, <1>15, <2>1 DEF Own
<1>18. Fit(s4, Here, {})
  BY <1>2, <1>9, <1>14, <1>15, <1>17, PlanFit
<1>19. s4.plan.constPlans = self.constPlans
  BY <1>2, <1>7, <1>8, <1>9, <1>15 DEF Grown
<1>20. Grown(a3, State)
  BY <1>7, <1>8, <1>9 DEF Grown
<1>21. QED
  BY <1>9, <1>10, <1>14, <1>15, <1>16, <1>18, <1>19, <1>20

LEMMA ConstructEdges ==
  ASSUME PlanInv, EdgesInv, Construct
  PROVE  EdgesInv'
<1> DEFINE K == Len(node) + 4
<1>1. phase = "build" /\ At("consts") /\ self.step = "consts"
  BY DEF Construct, At
<1>2. K \in Nat /\ Len(node) \in Nat
  BY <1>1, Start
<1>3. Go(Constructed, "from")
  <2>1. Len(node) + 1 + 1 = Len(node) + 2 /\ Len(node) + 1 + 2 = Len(node) + 3
    BY <1>2
  <2>2. QED
    BY <2>1 DEF Construct, Constructed, Skeleton
<1>4. /\ Constructed \in StateOf(K) /\ Fit(Constructed, Here, {})
      /\ Constructed.plan.constPlans = self.constPlans
      /\ {Constructed.plan.opTrue, Constructed.plan.opFalse} \subseteq Range(Constructed.plan.graph)
  BY <1>1, ConstructFits
<1>5. Here \notin Range(self.constPlans)
  BY <1>1, OthersThanValues
<1>6. "consts" \in Steps \ {"finish"} /\ "from" \in GoSteps
  BY DEF Steps, GoSteps
<1>7. QED
  BY <1>1, <1>2, <1>3, <1>4, <1>5, <1>6, GoEdges

LEMMA FitsTrans ==
  ASSUME NEW K, NEW s, NEW t, NEW u, NEW c, Fits(t, s, K, c), Fits(u, t, K, c)
  PROVE  Fits(u, s, K, c)
BY DEF Fits, Grown

LEMMA FurtherFits ==
  ASSUME NEW K \in Nat, NEW s, NEW t, NEW c, Fits(t, s, K, c)
  PROVE  Fits(Further(t), s, K, c)
<1>1. t \in StateOf(K) /\ Fit(t, c, {}) /\ Grown(t, s)
  BY DEF Fits
<1>2. /\ Further(t) \in StateOf(K) /\ Fit(Further(t), c, {})
      /\ SameNames(Further(t).plan, t.plan)
  BY <1>1, FurtherFit
<1>3. QED
  BY <1>1, <1>2 DEF Fits, Grown, SameNames

(* A process is added behind the clauses so far. *)
LEMMA NextFit ==
  ASSUME NEW K \in Nat, NEW s \in StateOf(K), NEW c, Fit(s, c, {}), Len(s.node) < K,
         NEW process \in NodeOf(K), process.plan = Here, ~process.freed,
         \A b \in 0..1 : process.out[b] = NULL, NEW n, n = Len(s.node) + 1
  PROVE  Fits(Stage(Advance(Add(s, process), n), n), s, K, c)
<1> DEFINE X == {}
<1>1. X \subseteq {Len(s.node) + 1} /\ Fit(s, c, X)
  OBVIOUS
<1> HIDE DEF X
<1>2. Newest(s) + 1 = n
  BY DEF Newest
<1>3. Fits(Stage(Advance(Add(s, process), Newest(s) + 1), Newest(s) + 1), s, K, c)
  BY <1>1, ThenFit
<1>4. QED
  BY <1>2, <1>3

(* A clause of the plan that is being built, without a subquery. *)
LEMMA PlainEdges ==
  ASSUME PlanInv, EdgesInv, NEW now \in ClauseSteps, At(now), NEW K, K = Len(node) + 4,
         NEW s, Fits(s, State, K, Here), NEW step \in ClauseSteps \cap GoSteps, Go(s, step)
  PROVE  EdgesInv'
<1>1. phase = "build" /\ self.step = now /\ K \in Nat
  BY Start DEF At
<1>2. self.step # "finish" /\ Here \in {Here} \cup Pending(Here) /\ s \in StateOf(K)
  BY <1>1 DEF ClauseSteps, Fits
<1>3. Here \notin Range(self.constPlans)
  BY <1>1, <1>2, OthersThanValues
<1>4. QED
  BY <1>1, <1>2, <1>3, ClauseEdges

(* The read of a table. *)
LEMMA ReadMade ==
  ASSUME NEW K \in Nat, Here \in Nat
  PROVE  /\ Read \in NodeOf(K) /\ Read.plan = Here /\ ~Read.freed
         /\ \A b \in 0..1 : Read.out[b] = NULL
         /\ LET other == [Read EXCEPT !.secondary = TRUE]
            IN  /\ other \in NodeOf(K) /\ other.plan = Here /\ ~other.freed
                /\ \A b \in 0..1 : other.out[b] = NULL
<1> DEFINE p == Process(Here, "read")
<1>1. p \in NodeOf(K) /\ p.plan = Here /\ ~p.freed /\ \A b \in 0..1 : p.out[b] = NULL
  BY ProcessType DEF Actions, Process
<1>2. Read = [p EXCEPT !.root = TRUE, !.rootFifo = 0]
  BY DEF Read
<1> HIDE DEF p
<1>3. Read \in NodeOf(K) /\ [Read EXCEPT !.secondary = TRUE] \in NodeOf(K)
  BY ReadType
<1>4. Read.plan = p.plan /\ Read.freed = p.freed /\ Read.out = p.out
  BY <1>1, <1>2 DEF NodeOf
<1>5. /\ [Read EXCEPT !.secondary = TRUE].plan = Read.plan
      /\ [Read EXCEPT !.secondary = TRUE].freed = Read.freed
      /\ [Read EXCEPT !.secondary = TRUE].out = Read.out
  BY <1>3 DEF NodeOf
<1>6. QED
  BY <1>1, <1>3, <1>4, <1>5

(* What the first source makes of the state, if it is a table. *)
TableRead == LET read == Len(node) + 1 IN Further(Stage(Advance(Add(State, Read), read), read))

LEMMA FromTableFits ==
  ASSUME PlanInv, EdgesInv, phase = "build", NEW K, K = Len(node) + 4
  PROVE  Fits(TableRead, State, K, Here)
<1> DEFINE read == Len(node) + 1
           t    == Stage(Advance(Add(State, Read), read), read)
<1>1. /\ K \in Nat /\ State \in StateOf(K) /\ Fit(State, Here, {})
      /\ Len(State.node) < K /\ read = Len(State.node) + 1 /\ Here \in Nat
  BY Start
<1> HIDE DEF read
<1>2. /\ Read \in NodeOf(K) /\ Read.plan = Here /\ ~Read.freed
      /\ \A b \in 0..1 : Read.out[b] = NULL
  BY <1>1, ReadMade
<1>3. Fits(t, State, K, Here)
  BY <1>1, <1>2, NextFit
<1> HIDE DEF t
<1>4. Fits(Further(t), State, K, Here)
  BY <1>1, <1>3, FurtherFits
<1>5. TableRead = Further(t)
  BY DEF TableRead, t, read
<1>6. QED
  BY <1>4, <1>5

LEMMA FromTableEdges ==
  ASSUME PlanInv, EdgesInv, FromTable
  PROVE  EdgesInv'
<1> DEFINE K == Len(node) + 4
<1>1. phase = "build" /\ At("from") /\ Go(TableRead, "from")
  BY DEF FromTable, MoreSources, At, TableRead
<1>2. Fits(TableRead, State, K, Here)
  BY <1>1, FromTableFits
<1>3. "from" \in ClauseSteps \cap GoSteps
  BY DEF ClauseSteps, GoSteps
<1>4. QED
  BY <1>1, <1>2, <1>3, PlainEdges

(* Where a condition sends what fails it. *)
LEMMA FalseEnd ==
  ASSUME NEW s, Grown(s, State), State.plan = self, self.opFalse \in Range(self.graph)
  PROVE  s.plan.opFalse \in Targets(s, {})
BY DEF Grown, Targets

(* What the join of a table makes of the state. *)
TableJoined == HashJoin(Add(State, [Read EXCEPT !.secondary = TRUE]), Len(node) + 1)

LEMMA JoinTableFits ==
  ASSUME PlanInv, EdgesInv, JoinTable, NEW K, K = Len(node) + 4
  PROVE  Fits(TableJoined, State, K, Here)
<1> DEFINE other == [Read EXCEPT !.secondary = TRUE]
           n     == Len(node) + 1
           t     == Add(State, other)
           u     == HashJoin(t, n)
<1>1. phase = "build" /\ At("from") /\ source \in Sources
  BY SourceType DEF JoinTable, MoreSources, At
<1>2. /\ K \in Nat /\ State \in StateOf(K) /\ Fit(State, Here, {}) /\ State.plan = self
      /\ Len(State.node) < K /\ n = Len(State.node) + 1 /\ Here \in Nat
      /\ self.opFalse \in Range(self.graph)
      /\ Len(State.node) \in Nat /\ Len(State.node) + 4 <= K
  BY <1>1, Start DEF ClauseSteps, At
<1> HIDE DEF n
<1>3. other \in NodeOf(K) /\ other.plan = Here /\ ~other.freed /\ \A b \in 0..1 : other.out[b] = NULL
  BY <1>2, ReadMade
<1> HIDE DEF other
<1>4. Fits(t, State, K, Here) /\ Added(t, State, other)
  BY ONLY <1>2, <1>3, NewFit
<1> HIDE DEF t
<1>5. /\ t \in StateOf(K) /\ Fit(t, Here, {}) /\ Grown(t, State)
      /\ Len(t.node) + 3 <= K /\ t.node[n].plan = Here
  BY <1>2, <1>3, <1>4 DEF Fits, Added
<1>6. t.plan.opFalse \in Targets(t, {})
  BY <1>2, <1>5, FalseEnd
<1>7. n \in 1..Len(t.node) => Mine(t, Here, n)
  BY <1>5 DEF Mine
<1>8. Fits(u, t, K, Here)
  BY <1>1, <1>2, <1>5, <1>6, <1>7, HashJoinFit
<1> HIDE DEF u
<1>9. Fits(u, State, K, Here)
  BY <1>4, <1>8, FitsTrans
<1>10. QED
  BY <1>9 DEF u, t, other, n, TableJoined

LEMMA JoinTableEdges ==
  ASSUME PlanInv, EdgesInv, JoinTable
  PROVE  EdgesInv'
<1> DEFINE K == Len(node) + 4
<1>1. At("from") /\ Go(TableJoined, "from")
  BY DEF JoinTable, MoreSources, TableJoined
<1>2. Fits(TableJoined, State, K, Here)
  BY JoinTableFits
<1>3. "from" \in ClauseSteps \cap GoSteps
  BY DEF ClauseSteps, GoSteps
<1>4. QED
  BY <1>1, <1>2, <1>3, PlainEdges

Paired ==
  Stage(Advance(Add(State, [Process(Here, "cartesian_join") EXCEPT !.root = TRUE, !.rootFifo = 1]),
                Len(node) + 1), Len(node) + 1)

(* What a cartesian join makes of it. *)
CartesianJoined == Further(Logic(Paired, "logic", source.conditions, FALSE, {}))

LEMMA CartesianProcess ==
  ASSUME NEW K \in Nat, Here \in Nat, NEW p,
         p = [Process(Here, "cartesian_join") EXCEPT !.root = TRUE, !.rootFifo = 1]
  PROVE  /\ p \in NodeOf(K) /\ p.plan = Here /\ ~p.freed /\ \A b \in 0..1 : p.out[b] = NULL
         /\ ~p.passive /\ p.waits = {} /\ p.unionEnds = << >> /\ p.action = "cartesian_join"
<1> DEFINE p0 == Process(Here, "cartesian_join")
<1>1. /\ p0 \in NodeOf(K) /\ p0.plan = Here /\ ~p0.freed /\ \A b \in 0..1 : p0.out[b] = NULL
      /\ ~p0.passive /\ p0.waits = {} /\ p0.unionEnds = << >> /\ p0.action = "cartesian_join"
  BY ProcessType DEF Actions, Process
<1>2. p = [p0 EXCEPT !.root = TRUE, !.rootFifo = 1]
  OBVIOUS
<1> HIDE DEF p0
<1>3. QED
  BY ONLY <1>1, <1>2 DEF NodeOf

LEMMA CartesianJoinFits ==
  ASSUME PlanInv, EdgesInv, At("from"), NEW K, K = Len(node) + 4
  PROVE  /\ Fits(CartesianJoined, State, K, Here)
         /\ Paired \in StateOf(K) /\ Len(Paired.node) = Len(node) + 1
<1> DEFINE n  == Len(node) + 1
           p  == [Process(Here, "cartesian_join") EXCEPT !.root = TRUE, !.rootFifo = 1]
           t  == Stage(Advance(Add(State, p), n), n)
           u  == Logic(t, "logic", source.conditions, FALSE, {})
<1>1. phase = "build"
  BY DEF At
<1>2. /\ K \in Nat /\ State \in StateOf(K) /\ Fit(State, Here, {}) /\ State.plan = self /\ State.node = node
      /\ Len(State.node) < K /\ n = Len(State.node) + 1 /\ Here \in Nat
      /\ self.opFalse \in Range(self.graph)
      /\ Len(State.node) \in Nat /\ Len(State.node) + 4 <= K
  BY <1>1, Start DEF ClauseSteps, At
<1> HIDE DEF n
<1>3. p \in NodeOf(K) /\ p.plan = Here /\ ~p.freed /\ \A b \in 0..1 : p.out[b] = NULL
  <2> HIDE DEF p
  <2>1. QED
    BY ONLY <1>2, CartesianProcess DEF p
<1> HIDE DEF p
<1>4. Fits(t, State, K, Here)
  BY ONLY <1>2, <1>3, NextFit
<1>5. Len(t.node) = Len(State.node) + 1
  <2>1. From(t, State, K, 1)
    BY <1>2, <1>3, ThenFrom DEF Newest
  <2>2. QED
    BY <2>1 DEF From
<1> HIDE DEF t
<1>6. t \in StateOf(K) /\ Fit(t, Here, {}) /\ Grown(t, State) /\ Len(t.node) + 2 <= K
  BY <1>2, <1>4, <1>5 DEF Fits
<1>7. t.plan.opFalse \in Targets(t, {})
  BY <1>2, <1>6, FalseEnd
<1>8. Fits(u, t, K, Here)
  <2>1. "logic" \in Actions /\ FALSE \in BOOLEAN /\ {} \in SUBSET (1..K)
    BY DEF Actions
  <2>2. QED
    BY <1>2, <1>6, <1>7, <2>1, LogicFit
<1> HIDE DEF u
<1>9. Fits(Further(u), State, K, Here)
  BY <1>2, <1>4, <1>8, FitsTrans, FurtherFits
<1>10. Paired = t /\ CartesianJoined = Further(u)
  BY DEF Paired, CartesianJoined, t, u, p, n
<1>11. QED
  BY <1>2, <1>5, <1>6, <1>9, <1>10

LEMMA CartesianJoinEdges ==
  ASSUME PlanInv, EdgesInv, CartesianJoin
  PROVE  EdgesInv'
<1> DEFINE K == Len(node) + 4
<1>1. At("from") /\ (Fail \/ Go(CartesianJoined, "from"))
  BY DEF CartesianJoin, MoreSources, CartesianJoined, Paired
<1>2. Fits(CartesianJoined, State, K, Here)
  BY <1>1, CartesianJoinFits
<1>3. "from" \in ClauseSteps \cap GoSteps
  BY DEF ClauseSteps, GoSteps
<1>4. CASE Fail
  BY <1>4, SameEdges DEF Fail
<1>5. CASE Go(CartesianJoined, "from")
  BY <1>1, <1>2, <1>3, <1>5, PlainEdges
<1>6. QED
  BY <1>1, <1>4, <1>5

(* WHERE and HAVING. *)
LEMMA ConditionFits ==
  ASSUME PlanInv, EdgesInv, NEW now \in ClauseSteps, At(now), NEW K, K = Len(node) + 4,
         NEW waits \in SUBSET (1..K)
  PROVE  Fits(Logic(State, "logic", 1, FALSE, waits), State, K, Here)
<1>1. phase = "build" /\ self.step \in ClauseSteps
  BY DEF At
<1>2. /\ K \in Nat /\ State \in StateOf(K) /\ Fit(State, Here, {}) /\ State.plan = self
      /\ Here \in Nat /\ self.opFalse \in Range(self.graph) /\ Len(State.node) + 2 <= K
  BY <1>1, Start
<1>3. State.plan.opFalse \in Targets(State, {})
  BY <1>2 DEF Targets
<1>4. "logic" \in Actions /\ FALSE \in BOOLEAN
  BY DEF Actions
<1>5. QED
  BY <1>2, <1>3, <1>4, LogicFit

LEMMA ConditionEdges ==
  ASSUME PlanInv, EdgesInv, NEW now \in ClauseSteps, At(now), NEW K, K = Len(node) + 4,
         NEW waits \in SUBSET (1..K), NEW step \in ClauseSteps \cap GoSteps,
         Go(Logic(State, "logic", 1, FALSE, waits), step)
  PROVE  EdgesInv'
BY ConditionFits, PlainEdges

(* A clause that the query does not have. *)
LEMMA StayEdges ==
  ASSUME PlanInv, EdgesInv, NEW now \in ClauseSteps, At(now),
         NEW step \in ClauseSteps \cap GoSteps, Go(State, step)
  PROVE  EdgesInv'
<1> DEFINE K == Len(node) + 4
<1>1. phase = "build"
  BY DEF At
<1>2. State \in StateOf(K) /\ Fit(State, Here, {})
  BY <1>1, Start
<1>3. Fits(State, State, K, Here)
  BY <1>2 DEF Fits, Grown
<1>4. QED
  BY <1>3, PlainEdges

LEMMA WhereEdges ==
  ASSUME PlanInv, EdgesInv, Where
  PROVE  EdgesInv'
<1> DEFINE K == Len(node) + 4
           W == WaitList(State, "where")
<1>1. /\ phase = "build" /\ At("from")
      /\ Go(State, "group") \/ Go(Logic(State, "logic", 1, FALSE, W), "group")
  BY DEF Where, At
<1>2. K \in Nat /\ State \in StateOf(K) /\ State.plan = self
  BY <1>1, Start
<1>3. W \in SUBSET (1..K)
  <2>1. 4 \in Nat
    OBVIOUS
  <2>2. ValuesBuilt(State, K)
    BY <1>1, <1>2, <2>1, ValuesBuiltNow
  <2>3. QED
    BY <1>2, <2>2, WaitListType
<1>4. "from" \in ClauseSteps /\ "group" \in ClauseSteps \cap GoSteps
  BY DEF ClauseSteps, GoSteps
<1> HIDE DEF W
<1>5. QED
  BY <1>1, <1>3, <1>4, StayEdges, ConditionEdges

LEMMA HavingEdges ==
  ASSUME PlanInv, EdgesInv, Having
  PROVE  EdgesInv'
<1> DEFINE K == Len(node) + 4
           W == {}
<1>1. At("having") /\ (Go(State, "operation") \/ Go(Logic(State, "logic", 1, FALSE, W), "operation"))
  BY DEF Having
<1>2. "having" \in ClauseSteps /\ "operation" \in ClauseSteps \cap GoSteps
  BY DEF ClauseSteps, GoSteps
<1>3. W \in SUBSET (1..K)
  OBVIOUS
<1> HIDE DEF W
<1>4. QED
  BY <1>1, <1>2, <1>3, StayEdges, ConditionEdges

(* What GROUP BY and DISTINCT make of the state. *)
GroupProcess == [Process(Here, "groupby") EXCEPT !.root = TRUE, !.rootFifo = 1]

Grouped ==
  LET n == Len(node) + 1
  IN  IF self.query.group THEN Stage(Advance(Add(State, GroupProcess), n), n) ELSE State

Distinct ==
  LET m == Newest(Grouped) + 1
  IN  IF self.query.distinct
      THEN Stage(Advance(Add(Grouped, Process(Here, "distinct")), m), m) ELSE Grouped

LEMMA GroupProcessType ==
  ASSUME NEW K \in Nat, Here \in Nat
  PROVE  /\ GroupProcess \in NodeOf(K) /\ GroupProcess.plan = Here /\ ~GroupProcess.freed
         /\ \A b \in 0..1 : GroupProcess.out[b] = NULL
         /\ ~GroupProcess.passive /\ GroupProcess.waits = {} /\ GroupProcess.unionEnds = << >>
         /\ GroupProcess.action = "groupby"
<1> DEFINE p0 == Process(Here, "groupby")
<1>1. /\ p0 \in NodeOf(K) /\ p0.plan = Here /\ ~p0.freed /\ \A b \in 0..1 : p0.out[b] = NULL
      /\ ~p0.passive /\ p0.waits = {} /\ p0.unionEnds = << >> /\ p0.action = "groupby"
  BY ProcessType DEF Actions, Process
<1>2. GroupProcess = [p0 EXCEPT !.root = TRUE, !.rootFifo = 1]
  BY DEF GroupProcess
<1> HIDE DEF p0
<1>3. QED
  BY ONLY <1>1, <1>2 DEF NodeOf

LEMMA GroupFits ==
  ASSUME PlanInv, EdgesInv, phase = "build", NEW K, K = Len(node) + 4
  PROVE  Fits(Grouped, State, K, Here) /\ Len(Grouped.node) <= Len(State.node) + 1
<1> DEFINE n == Len(node) + 1
<1>1. /\ K \in Nat /\ State \in StateOf(K) /\ Fit(State, Here, {})
      /\ Len(State.node) < K /\ n = Len(State.node) + 1 /\ Here \in Nat
  BY Start
<1> HIDE DEF n
<1>2. /\ GroupProcess \in NodeOf(K) /\ GroupProcess.plan = Here /\ ~GroupProcess.freed
      /\ \A b \in 0..1 : GroupProcess.out[b] = NULL
  BY <1>1, GroupProcessType
<1>3. CASE self.query.group
  <2> DEFINE t == Stage(Advance(Add(State, GroupProcess), n), n)
  <2>1. Fits(t, State, K, Here)
    BY <1>1, <1>2, NextFit
  <2>2. Len(t.node) = Len(State.node) + 1
    <3>1. From(t, State, K, 1)
      BY <1>1, <1>2, ThenFrom DEF Newest
    <3>2. QED
      BY <3>1 DEF From
  <2> HIDE DEF t
  <2>3. Grouped = t
    BY <1>3 DEF t, Grouped, n
  <2>4. Len(t.node) <= Len(State.node) + 1
    BY <1>1, <2>2, StateParts
  <2>5. QED
    BY <2>1, <2>3, <2>4
<1>4. CASE ~self.query.group
  <2>1. Grouped = State
    BY <1>4 DEF Grouped
  <2>2. Len(State.node) <= Len(State.node) + 1
    BY <1>1, StateParts
  <2>3. QED
    BY <1>1, <2>1, <2>2 DEF Fits, Grown
<1>5. QED
  BY <1>3, <1>4

LEMMA DistinctFits ==
  ASSUME PlanInv, EdgesInv, phase = "build", NEW K, K = Len(node) + 4
  PROVE  Fits(Distinct, State, K, Here)
<1> DEFINE m == Newest(Grouped) + 1
           q == Process(Here, "distinct")
<1>1. /\ K \in Nat /\ State \in StateOf(K) /\ Here \in Nat /\ Len(State.node) \in Nat
      /\ Len(State.node) + 4 <= K
  <2>1. State.node = node
    BY Start
  <2>2. QED
    BY <2>1, Start
<1>2. Fits(Grouped, State, K, Here) /\ Len(Grouped.node) <= Len(State.node) + 1
  BY GroupFits
<1>3. /\ Grouped \in StateOf(K) /\ Fit(Grouped, Here, {}) /\ Len(Grouped.node) < K
      /\ m = Len(Grouped.node) + 1
  BY <1>1, <1>2, StateParts DEF Fits, Newest
<1>4. q \in NodeOf(K) /\ q.plan = Here /\ ~q.freed /\ \A b \in 0..1 : q.out[b] = NULL
  BY <1>1, ProcessType DEF Actions, Process
<1> HIDE DEF m, q
<1>5. CASE self.query.distinct
  <2>1. Distinct = Stage(Advance(Add(Grouped, q), m), m)
    BY <1>5 DEF Distinct, m, q
  <2>2. Fits(Stage(Advance(Add(Grouped, q), m), m), Grouped, K, Here)
    BY <1>1, <1>3, <1>4, NextFit
  <2>3. QED
    BY <1>2, <2>1, <2>2, FitsTrans
<1>6. CASE ~self.query.distinct
  BY <1>2, <1>6 DEF Distinct
<1>7. QED
  BY <1>5, <1>6

LEMMA GroupEdges ==
  ASSUME PlanInv, EdgesInv, Group
  PROVE  EdgesInv'
<1> DEFINE K == Len(node) + 4
<1>1. phase = "build" /\ At("group") /\ Go(Distinct, "having")
  BY DEF Group, At, Distinct, Grouped, GroupProcess
<1>2. Fits(Distinct, State, K, Here)
  BY <1>1, DistinctFits
<1>3. "group" \in ClauseSteps /\ "having" \in ClauseSteps \cap GoSteps
  BY DEF ClauseSteps, GoSteps
<1>4. QED
  BY <1>1, <1>2, <1>3, PlainEdges

(* The graph of a plan that was put in front of a process of this one, or of none, is taken
   into this graph. *)
LEMMA TakenFit ==
  ASSUME PlanInv, EdgesInv, phase = "build", NEW K, K = Len(node) + 4, NEW c \in Pending(Here),
         plans[c].entry \in {NULL} \cup GraphOf(Here)
  PROVE  /\ Fits(Joined(State, c), State, K, c) /\ Joined(State, c).node = node
         /\ Joined(State, c).plan.current = self.current
<1>1. 4 \in Nat /\ c \in {Here} \cup Pending(Here)
  OBVIOUS
<1>2. /\ K \in Nat /\ State \in StateOf(K) /\ State.node = node /\ State.plan = self
      /\ self = plans[Here]
  BY Start
<1> DEFINE X == {}
<1>3. Fit(State, c, X)
  <2> HIDE DEF X
  <2>1. QED
    BY <1>1, StateFit
<1>4. c \in DOMAIN plans /\ c \in Live
  BY <1>1, Place
<1>5. plans[c].graph \in Seq(1..K)
  <2>1. plans[c] \in PlanOf(Len(node)) /\ Len(node) \in Nat
    BY <1>4, ElementOfSeq DEF PlanInv
  <2>2. Len(node) <= K
    BY <2>1
  <2>3. plans[c] \in PlanOf(K)
    BY <1>2, <2>1, <2>2, PlanOfGrows
  <2>4. QED
    BY <2>3 DEF PlanOf
<1>6. \A n \in GraphOf(c) :
        ~node[n].freed /\ \A b \in 0..1 : node[n].out[b] \in Targets(State, GraphOf(c))
  <2>1. Within(c)
    BY <1>4 DEF EdgesInv
  <2>2. QED
    BY <1>2, <2>1 DEF Within, Targets, GraphOf
<1>7. QED
  BY <1>2, <1>3, <1>5, <1>6, JoinedFit

(* A subquery that a process of this plan reads. *)
LEMMA ChildFit ==
  ASSUME PlanInv, EdgesInv, phase = "build", NEW K, K = Len(node) + 4,
         self.step \in {"from subquery", "join subquery"}
  PROVE  LET c == self.child
             s == Consume(State)
             read == plans[c].entry
         IN  /\ c \in {Here} \cup Pending(Here) /\ c \notin Range(self.constPlans)
             /\ Fits(s, State, K, c) /\ s.node = node /\ read \in Range(s.plan.graph)
             /\ read \in 1..Len(node) /\ node[read].plan = Here
<1> DEFINE c == self.child
           read == plans[c].entry
           s == Joined(State, c)
<1>1. Here \in Open /\ self = plans[Here] /\ State.plan = self
  BY Building, Start DEF Open, self, Here
<1>2. c \in Pending(Here) /\ c \notin Range(self.constPlans)
  BY OthersThanValues DEF CallSteps
<1>3. read \in GraphOf(Here) /\ node[read].plan = Here
  BY <1>1 DEF EdgesInv, Handed
<1>4. read \in 1..Len(node)
  <2>1. Here \in Live
    BY <1>1 DEF Live
  <2>2. DOMAIN node = 1..Len(node)
    BY LenProperties DEF PlanInv
  <2>3. read \in DOMAIN node
    BY <1>3, <2>1 DEF EdgesInv, Homed
  <2> HIDE DEF read
  <2>4. QED
    BY <2>2, <2>3
<1>5. Consume(State) = s
  BY <1>1 DEF Consume, Joined
<1> HIDE DEF read
<1>6. read \in {NULL} \cup GraphOf(Here) /\ read = plans[c].entry
  BY <1>3 DEF read
<1> HIDE DEF c
<1>7. Fits(s, State, K, c) /\ s.node = node
  BY <1>2, <1>6, TakenFit
<1> HIDE DEF s
<1>8. read \in Range(s.plan.graph)
  BY <1>1, <1>3, <1>7 DEF Fits, Grown, GraphOf
<1>9. QED
  BY <1>2, <1>3, <1>4, <1>5, <1>7, <1>8 DEF c, read

(* What the source that is a subquery makes of the state, once it is built. *)
SubqueryRead ==
  LET read == plans[self.child].entry IN Further(Stage(Advance(Consume(State), read), read))

LEMMA FromConsumedFits ==
  ASSUME PlanInv, EdgesInv, FromConsumed, NEW K, K = Len(node) + 4
  PROVE  Fits(SubqueryRead, State, K, self.child)
<1> DEFINE c == self.child
           s == Consume(State)
           read == plans[c].entry
           a == Advance(s, read)
           t == Stage(a, read)
<1>1. phase = "build" /\ At("from subquery") /\ self.step = "from subquery"
  BY DEF FromConsumed, At
<1>2. K \in Nat /\ Len(node) \in Nat /\ Len(node) < K
  BY <1>1, Start
<1>3. /\ c \in {Here} \cup Pending(Here) /\ c \notin Range(self.constPlans)
      /\ Fits(s, State, K, c) /\ s.node = node /\ read \in Range(s.plan.graph)
      /\ read \in 1..Len(node) /\ node[read].plan = Here
  BY <1>1, ChildFit
<1>4. read \in 0..K /\ read \in Nat
  BY <1>2, <1>3
<1> HIDE DEF c, s, read
<1>5. s \in StateOf(K) /\ Fit(s, c, {}) /\ read \in Targets(s, {})
  BY <1>3 DEF Fits, Targets
<1>6. /\ a \in StateOf(K) /\ Fit(a, c, {}) /\ a.plan.graph = s.plan.graph
      /\ a.plan.entry = s.plan.entry /\ a.plan.opTrue = s.plan.opTrue
      /\ a.plan.opFalse = s.plan.opFalse /\ a.plan.constPlans = s.plan.constPlans
  BY <1>2, <1>3, <1>4, <1>5, AdvanceFit
<1> HIDE DEF a
<1>7. t \in StateOf(K) /\ Fit(t, c, {}) /\ SameNames(t.plan, a.plan)
  BY <1>2, <1>4, <1>6, StageFit
<1> HIDE DEF t
<1>8. Fits(t, State, K, c)
  BY <1>3, <1>6, <1>7 DEF Fits, Grown, SameNames
<1>9. Fits(Further(t), State, K, c)
  BY <1>2, <1>8, FurtherFits
<1>10. SubqueryRead = Further(t) /\ c = self.child
  BY DEF SubqueryRead, t, a, s, read, c
<1>11. QED
  BY <1>9, <1>10

LEMMA FromConsumedEdges ==
  ASSUME PlanInv, EdgesInv, FromConsumed
  PROVE  EdgesInv'
<1> DEFINE K == Len(node) + 4
<1>1. phase = "build" /\ At("from subquery") /\ self.step = "from subquery"
      /\ Go(SubqueryRead, "from")
  BY DEF FromConsumed, At, SubqueryRead
<1>2. K \in Nat
  BY <1>1, Start
<1>3. self.child \in {Here} \cup Pending(Here) /\ self.child \notin Range(self.constPlans)
  BY <1>1, ChildFit
<1>4. Fits(SubqueryRead, State, K, self.child)
  BY FromConsumedFits
<1>5. SubqueryRead \in StateOf(K)
  BY <1>4 DEF Fits
<1>6. "from subquery" \in ClauseSteps /\ "from" \in ClauseSteps \cap GoSteps
  BY DEF ClauseSteps, GoSteps
<1>7. QED
  BY <1>1, <1>2, <1>3, <1>4, <1>5, <1>6, ClauseEdges

(* The same for a subquery that is joined. *)
SubqueryJoined == HashJoin(Consume(State), plans[self.child].entry)

LEMMA JoinConsumedFits ==
  ASSUME PlanInv, EdgesInv, JoinConsumed, NEW K, K = Len(node) + 4
  PROVE  Fits(SubqueryJoined, State, K, self.child) /\ source \in Sources
<1> DEFINE c == self.child
           s == Consume(State)
           read == plans[c].entry
           u == HashJoin(s, read)
<1>1. phase = "build" /\ At("join subquery") /\ self.step = "join subquery"
  BY DEF JoinConsumed, At
<1>2. /\ K \in Nat /\ Len(node) \in Nat /\ Len(node) + 3 <= K /\ Here \in Nat
      /\ self.opFalse \in Range(self.graph) /\ State.plan = self
  BY <1>1, Start DEF ClauseSteps
<1>3. /\ c \in {Here} \cup Pending(Here) /\ c \notin Range(self.constPlans)
      /\ Fits(s, State, K, c) /\ s.node = node /\ read \in 1..Len(node) /\ node[read].plan = Here
  BY <1>1, ChildFit
<1>4. source \in Sources
  <2>1. PlanOK(Here) /\ self = plans[Here] /\ self.query \in QueryType
    BY <1>1, Building DEF self, Here
  <2>2. self.i \in 1..Len(self.query.sources)
    BY <1>1, <2>1 DEF PlanOK
  <2>3. Len(self.query.sources) \in Nat
    BY <2>1 DEF QueryType
  <2>4. self.i <= Len(self.query.sources)
    BY <2>2, <2>3
  <2>5. QED
    BY <1>1, <2>4, SourceType
<1> HIDE DEF c, s, read
<1>5. s \in StateOf(K) /\ Fit(s, c, {}) /\ Grown(s, State) /\ Mine(s, c, read)
      /\ Len(s.node) + 3 <= K
  BY <1>2, <1>3 DEF Fits, Mine
<1>6. s.plan.opFalse \in Targets(s, {})
  BY <1>2, <1>5, FalseEnd
<1>7. Fits(u, s, K, c)
  BY <1>2, <1>4, <1>5, <1>6, HashJoinFit
<1> HIDE DEF u
<1>8. Fits(u, State, K, c)
  BY <1>3, <1>7, FitsTrans
<1>9. SubqueryJoined = u /\ c = self.child
  BY DEF SubqueryJoined, u, s, read, c
<1>10. QED
  BY <1>4, <1>8, <1>9

LEMMA JoinConsumedEdges ==
  ASSUME PlanInv, EdgesInv, JoinConsumed
  PROVE  EdgesInv'
<1> DEFINE K == Len(node) + 4
<1>1. phase = "build" /\ At("join subquery") /\ self.step = "join subquery"
      /\ Go(SubqueryJoined, "from")
  BY DEF JoinConsumed, At, SubqueryJoined
<1>2. K \in Nat
  BY <1>1, Start
<1>3. self.child \in {Here} \cup Pending(Here) /\ self.child \notin Range(self.constPlans)
  BY <1>1, ChildFit
<1>4. Fits(SubqueryJoined, State, K, self.child)
  BY JoinConsumedFits
<1>5. SubqueryJoined \in StateOf(K)
  BY <1>4 DEF Fits
<1>6. "join subquery" \in ClauseSteps /\ "from" \in ClauseSteps \cap GoSteps
  BY DEF ClauseSteps, GoSteps
<1>7. QED
  BY <1>1, <1>2, <1>3, <1>4, <1>5, <1>6, ClauseEdges

-----------------------------------------------------------------------------
(* The steps that come after the clauses. *)

LEMMA AfterEdges ==
  ASSUME PlanInv, EdgesInv, NEW now \in Steps \ {"finish"}, At(now), NEW K \in Nat, NEW s,
         s \in StateOf(K), Fit(s, Here, {}), s.plan.constPlans = self.constPlans,
         NEW step \in GoSteps \ (ClauseSteps \cup {"clear"}), Go(s, step)
  PROVE  EdgesInv'
<1>1. phase = "build" /\ self.step # "finish" /\ Here \in {Here} \cup Pending(Here)
  BY DEF At
<1>2. Here \notin Range(self.constPlans)
  BY <1>1, OthersThanValues
<1>3. QED
  BY <1>1, <1>2, GoEdges

(* The passive processes are to be taken out. *)
LEMMA ClearingEdges ==
  ASSUME PlanInv, EdgesInv, NEW now \in Steps \ {"finish"}, At(now), NEW K \in Nat, NEW s,
         s \in StateOf(K), Fit(s, Here, {}), s.plan.constPlans = self.constPlans,
         NEW next \in {"union", "disable", "finish"}, Go(Clearing(s, next), "clear")
  PROVE  EdgesInv'
<1> DEFINE t == Clearing(s, next)
<1>1. phase = "build" /\ self.step # "finish" /\ Here \in {Here} \cup Pending(Here)
  BY DEF At
<1>2. Here \notin Range(self.constPlans)
  BY <1>1, OthersThanValues
<1>3. /\ t \in StateOf(K) /\ Fit(t, Here, {}) /\ SameNames(t.plan, s.plan) /\ t.plan.i = 1
  <2> DEFINE X == {}
  <2>1. Fit(s, Here, X)
    OBVIOUS
  <2> HIDE DEF X
  <2>2. t \in StateOf(K) /\ Fit(t, Here, X) /\ SameNames(t.plan, s.plan) /\ t.plan.i = 1
    BY <2>1, ClearingFit
  <2>3. QED
    BY <2>2 DEF X
<1>4. Go(t, "clear")
  OBVIOUS
<1> HIDE DEF t
<1>5. t.plan.constPlans = self.constPlans
  BY <1>3 DEF SameNames
<1>6. \A k \in DOMAIN t.plan.graph : ~(k < t.plan.i)
  <2>1. t.plan \in PlanOf(K)
    BY <1>3, StateParts
  <2>2. t.plan.graph \in Seq(1..K)
    BY <2>1 DEF PlanOf
  <2>3. DOMAIN t.plan.graph = 1..Len(t.plan.graph) /\ Len(t.plan.graph) \in Nat
    BY <2>2, LenProperties
  <2>4. QED
    BY <1>3, <2>3
<1>7. "clear" \in GoSteps /\ "clear" \notin ClauseSteps
  BY DEF GoSteps, ClauseSteps
<1>8. QED
  BY <1>1, <1>2, <1>3, <1>4, <1>5, <1>6, <1>7, GoEdges

(* A union member is taken, and its end noted; the operation of one that is no constant goes. *)
MemberEnded ==
  [Consume(State) EXCEPT !.node[self.opTrue].unionEnds = Append(@, plans[self.child].current)]
MemberTaken ==
  IF plans[self.child].isConst THEN MemberEnded
  ELSE [MemberEnded EXCEPT !.node[plans[self.child].opTrue].passive = TRUE]

LEMMA UnionConsumedFits ==
  ASSUME PlanInv, EdgesInv, UnionConsumed
  PROVE  LET K == Len(node) + 4
             c == self.child
         IN  /\ c \in Pending(Here) /\ c \notin Range(self.constPlans) /\ c \in DOMAIN plans
             /\ Fits(Consume(State), State, K, c) /\ Consume(State).node = node
             /\ plans[c].opTrue \in 1..Len(node) => node[plans[c].opTrue].plan = c
             /\ self.opTrue \in 1..Len(node)
             /\ MemberEnded \in StateOf(K) /\ MemberTaken \in StateOf(K)
             /\ Same(MemberEnded, Consume(State)) /\ Same(MemberTaken, Consume(State))
             /\ Fit(MemberTaken, c, {}) /\ MemberTaken.plan.constPlans = self.constPlans
<1> DEFINE K == Len(node) + 4
           c == self.child
           m == self.opTrue
           e == plans[c].opTrue
           s1 == Consume(State)
           v  == Append(s1.node[m].unionEnds, plans[c].current)
           s2 == [s1 EXCEPT !.node[m].unionEnds = v]
           s3 == [s2 EXCEPT !.node[e].passive = TRUE]
           X  == {}
<1>1. phase = "build" /\ self.step = "union member"
  BY DEF UnionConsumed, At
<1>2. /\ K \in Nat /\ Len(node) \in Nat /\ State.plan = self /\ State.node = node
      /\ self \in PlanOf(K) /\ self = plans[Here] /\ Here \in Open
  BY <1>1, Start, Building DEF Open
<1>3. c \in Pending(Here) /\ c \notin Range(self.constPlans) /\ c \in {Here} \cup Pending(Here)
  BY <1>1, OthersThanValues DEF CallSteps
<1>4. plans[c].entry \in {NULL} \cup GraphOf(Here)
  BY <1>1, <1>2 DEF EdgesInv, Handed
<1>5. Fits(s1, State, K, c) /\ s1.node = node
  <2>1. s1 = Joined(State, c)
    BY <1>2 DEF Consume, Joined
  <2> HIDE DEF s1, c
  <2>2. QED
    BY <1>1, <1>3, <1>4, <2>1, TakenFit
<1>6. c \in DOMAIN plans /\ plans[c] \in PlanOf(Len(node))
  BY <1>1, <1>3, Place, ElementOfSeq DEF PlanInv
<1>7. plans[c].current \in Nat
  <2> HIDE DEF c
  <2>1. QED
    BY <1>2, <1>6 DEF PlanOf
<1>8. e \in 1..Len(node) => node[e].plan = c
  <2>1. Owned(c)
    BY <1>6 DEF EdgesInv
  <2>2. QED
    BY <2>1 DEF Owned, NULL
<1>9. m \in 1..Len(node)
  <2>1. PlanOK(Here) /\ self \in PlanOf(Len(node))
    BY <1>1, Building
  <2>2. m # NULL
    BY <1>1, <1>2, <2>1 DEF PlanOK
  <2>3. QED
    BY <1>2, <2>1, <2>2 DEF PlanOf, NULL
<1>10. /\ s1 \in StateOf(K) /\ Fit(s1, c, X) /\ Grown(s1, State) /\ s1.plan.opTrue = m
       /\ m \in {s1.plan.current, s1.plan.opTrue, s1.plan.opFalse}
  <2> HIDE DEF s1
  <2>1. QED
    BY <1>2, <1>5 DEF Fits, Grown
<1> HIDE DEF K, c, m, e, s1, X
<1>11. v \in Seq(Nat)
  <2>1. s1.node \in Seq(NodeOf(K)) /\ DOMAIN s1.node = 1..Len(s1.node)
    BY <1>2, <1>10, StateParts
  <2>2. s1.node[m] \in NodeOf(K)
    BY <1>5, <1>9, <2>1, ElementOfSeq
  <2>3. s1.node[m].unionEnds \in Seq(Nat)
    BY <2>2 DEF NodeOf
  <2>4. QED
    BY <1>7, <2>3, AppendProperties
<1> HIDE DEF v
<1>12. Tuned(s2, s1, K, c, X)
  <2>1. m \in 1..Len(s1.node) => Mine(s1, c, m)
    BY <1>2, <1>10, OwnMine
  <2>2. QED
    BY <1>2, <1>10, <1>11, <2>1, NodeFieldFit
<1> HIDE DEF s2
<1>13. s2 \in StateOf(K) /\ Fit(s2, c, X) /\ Same(s2, s1)
  BY <1>12 DEF Tuned
<1>14. Tuned(s3, s2, K, c, X)
  <2>1. e \in 1..Len(s2.node) => Mine(s2, c, e)
    BY <1>5, <1>8, <1>13 DEF Same, Mine
  <2>2. TRUE \in BOOLEAN
    OBVIOUS
  <2>3. QED
    BY <1>2, <1>13, <2>1, <2>2, NodeFieldFit
<1> HIDE DEF s3
<1>15. s3 \in StateOf(K) /\ Fit(s3, c, X) /\ Same(s3, s2)
  BY <1>14 DEF Tuned
<1>16. Same(s3, s1)
  BY <1>13, <1>15 DEF Same
<1>17. s2.plan.constPlans = self.constPlans /\ s3.plan.constPlans = self.constPlans
  BY <1>2, <1>10, <1>13, <1>15 DEF Same, Grown
<1>18. Fit(s2, c, {}) /\ Fit(s3, c, {})
  BY <1>13, <1>15 DEF X
<1>19. s2 = MemberEnded /\ (MemberTaken = s2 \/ MemberTaken = s3)
  BY DEF MemberEnded, MemberTaken, s1, s2, s3, v, m, e, c
<1>20. QED
  BY <1>2, <1>3, <1>5, <1>6, <1>8, <1>9, <1>13, <1>15, <1>16, <1>17, <1>18, <1>19 DEF K, s1, c, m, e

LEMMA UnionConsumedEdges ==
  ASSUME PlanInv, EdgesInv, UnionConsumed
  PROVE  EdgesInv'
<1> DEFINE K == Len(node) + 4
           c == self.child
<1>1. phase = "build" /\ At("union member") /\ self.step = "union member" /\ Go(MemberTaken, "union")
  BY DEF UnionConsumed, At, MemberTaken, MemberEnded
<1>2. /\ K \in Nat /\ c \in {Here} \cup Pending(Here) /\ c \notin Range(self.constPlans)
      /\ MemberTaken \in StateOf(K) /\ Fit(MemberTaken, c, {})
      /\ MemberTaken.plan.constPlans = self.constPlans
  BY <1>1, Start, UnionConsumedFits
<1>3. "union member" \in Steps \ {"finish"} /\ "union" \in GoSteps /\ "union" \notin ClauseSteps
      /\ "union" # "clear"
  BY DEF Steps, CallSteps, GoSteps, ClauseSteps
<1> HIDE DEF K, c
<1>4. QED
  BY <1>1, <1>2, <1>3, GoEdges

LEMMA ClearEdges ==
  ASSUME PlanInv, EdgesInv, Clear
  PROVE  EdgesInv'
<1> DEFINE K == Len(node) + 4
           t == FreePassive(State)
<1>1. /\ phase = "build" /\ At("clear") /\ self.step = "clear" /\ self.i > Len(self.graph)
      /\ Go(t, "roots")
  BY DEF Clear, At
<1>2. /\ K \in Nat /\ State \in StateOf(K) /\ Fit(State, Here, {}) /\ State.plan = self
      /\ State.node = node /\ self \in PlanOf(K) /\ self = plans[Here] /\ Here \in Open
  BY <1>1, Start, Building DEF Open
<1>3. ASSUME NEW n \in Range(State.plan.graph), NEW b \in 0..1 PROVE ~ToPassive(State, n, b)
  <2>1. PassedIn(node, self)
    BY <1>2 DEF EdgesInv
  <2>2. self.graph \in Seq(1..K) /\ self.i \in Nat
    BY <1>2 DEF PlanOf
  <2>3. DOMAIN self.graph = 1..Len(self.graph) /\ Len(self.graph) \in Nat
    BY <2>2, LenProperties
  <2>4. PICK k \in DOMAIN self.graph : n = self.graph[k]
    BY <1>2 DEF Range
  <2>5. k < self.i
    BY <1>1, <2>2, <2>3
  <2>6. QED
    BY <1>1, <1>2, <2>1, <2>4, <2>5 DEF PassedIn, ToPassive
<1>4. t \in StateOf(K) /\ Fit(t, Here, {}) /\ t.plan.constPlans = self.constPlans
  BY <1>2, <1>3, FreePassiveFit
<1> HIDE DEF K, t
<1>5. "clear" \in Steps \ {"finish"} /\ "roots" \in GoSteps \ (ClauseSteps \cup {"clear"})
  BY DEF Steps, GoSteps, ClauseSteps
<1>6. QED
  BY <1>1, <1>2, <1>4, <1>5, AfterEdges

LEMMA RootsEdges ==
  ASSUME PlanInv, EdgesInv, Roots
  PROVE  EdgesInv'
<1> DEFINE K == Len(node) + 4
           t == GetRoots(State)
           u == [t EXCEPT !.plan.i = 1]
           X == {}
<1>1. phase = "build" /\ At("roots") /\ Go(u, self.next)
  BY DEF Roots, At
<1>2. K \in Nat /\ State \in StateOf(K) /\ Fit(State, Here, X) /\ State.plan = self /\ self \in PlanOf(K)
  BY <1>1, Start
<1> HIDE DEF K, X
<1>3. Tuned(t, State, K, Here, X)
  BY <1>2, GetRootsFit
<1> HIDE DEF t
<1>4. t \in StateOf(K) /\ Fit(t, Here, X) /\ t.plan = self
  BY <1>2, <1>3 DEF Tuned, Same
<1>5. u \in StateOf(K)
  <2>1. 1 \in Nat \ {0}
    OBVIOUS
  <2>2. QED
    BY <1>2, <1>4, <2>1, PlanFields DEF From
<1>6. u.node = t.node /\ SameNames(u.plan, t.plan)
  BY <1>2, <1>4 DEF SameNames, StateOf, PlanOf
<1> HIDE DEF u
<1>7. Fit(u, Here, X)
  BY <1>2, <1>4, <1>5, <1>6, NamesFit
<1>8. /\ "roots" \in Steps \ {"finish"} /\ self.next \in GoSteps \ (ClauseSteps \cup {"clear"})
      /\ u.plan.constPlans = self.constPlans
  BY <1>2, <1>4, <1>6 DEF Steps, GoSteps, ClauseSteps, PlanOf, SameNames
<1>9. QED
  BY <1>1, <1>2, <1>5, <1>7, <1>8, AfterEdges DEF X

LEMMA DisableEdges ==
  ASSUME PlanInv, EdgesInv, Disable
  PROVE  EdgesInv'
<1> DEFINE K == Len(node) + 4
           t == DisableStranded(State)
           X == {}
<1>1. phase = "build" /\ At("disable") /\ Go(Clearing(t, "finish"), "clear")
  BY DEF Disable, At
<1>2. K \in Nat /\ State \in StateOf(K) /\ Fit(State, Here, X) /\ State.plan = self
  BY <1>1, Start
<1> HIDE DEF K, X
<1>3. Tuned(t, State, K, Here, X)
  BY <1>2, DisableStrandedFit
<1> HIDE DEF t
<1>4. t \in StateOf(K) /\ Fit(t, Here, X) /\ t.plan = self
  BY <1>2, <1>3 DEF Tuned, Same
<1>5. "disable" \in Steps \ {"finish"} /\ "finish" \in {"union", "disable", "finish"}
  BY DEF Steps, GoSteps
<1>6. t.plan.constPlans = self.constPlans
  BY <1>4
<1>7. QED
  BY <1>1, <1>2, <1>4, <1>5, <1>6, ClearingEdges DEF X

LEMMA OrderEdges ==
  ASSUME PlanInv, EdgesInv, Order
  PROVE  EdgesInv'
<1> DEFINE K      == Len(node) + 4
           n      == Len(node) + 1
           p      == Process(Here, "orderby")
           t      == Stage(Advance(Add(State, p), n), n)
           sorted == [t EXCEPT !.plan.opTrue = n]
           next   == IF self.query.op = "delete" THEN "disable" ELSE "finish"
<1>1. /\ phase = "build" /\ At("union")
      /\ Go(Clearing(sorted, next), "clear") \/ Go(Clearing(State, next), "clear")
  BY DEF Order, At
<1>2. /\ K \in Nat /\ State \in StateOf(K) /\ Fit(State, Here, {}) /\ State.plan = self
      /\ Len(State.node) < K /\ n = Len(State.node) + 1 /\ Here \in Nat /\ Len(State.node) \in Nat
  BY <1>1, Start
<1>3. "union" \in Steps \ {"finish"} /\ next \in {"union", "disable", "finish"}
  BY DEF Steps, GoSteps
<1> HIDE DEF n, next
<1>4. p \in NodeOf(K) /\ p.plan = Here /\ ~p.freed /\ \A b \in 0..1 : p.out[b] = NULL
  BY <1>2, ProcessType DEF Actions, Process
<1> HIDE DEF p, K
<1>5. Fits(t, State, K, Here) /\ t.plan.current = n
  <2> DEFINE X == {}
  <2>1. X \subseteq {Len(State.node) + 1} /\ Fit(State, Here, X)
    BY <1>2
  <2>2. Newest(State) + 1 = n
    BY <1>2 DEF Newest
  <2> HIDE DEF X
  <2>3. LET u == Stage(Advance(Add(State, p), Newest(State) + 1), Newest(State) + 1)
        IN  Fits(u, State, K, Here) /\ u.plan.current = Len(State.node) + 1
    BY <1>2, <1>4, <2>1, ThenFit
  <2>4. QED
    BY <1>2, <2>2, <2>3
<1> HIDE DEF t
<1>6. t \in StateOf(K) /\ Fit(t, Here, {}) /\ t.plan.constPlans = self.constPlans
  BY <1>2, <1>5 DEF Fits, Grown
<1>7. n \in 1..Len(t.node) /\ t.node[n].plan = Here
  <2>1. n # NULL
    BY <1>2 DEF NULL
  <2>2. QED
    BY <1>5, <1>6, <2>1 DEF Fit, Own
<1>8. sorted \in StateOf(K)
  <2>1. n \in 1..K
    BY <1>2
  <2>2. QED
    BY <1>2, <1>6, <2>1, PlanFields DEF From
<1>9. /\ sorted.node = t.node /\ sorted.plan.graph = t.plan.graph
      /\ sorted.plan.entry = t.plan.entry /\ sorted.plan.current = t.plan.current
      /\ sorted.plan.opTrue = n /\ sorted.plan.opFalse = t.plan.opFalse
      /\ sorted.plan.constPlans = self.constPlans
  BY <1>6 DEF StateOf, PlanOf
<1> HIDE DEF sorted
<1>10. Own(sorted)
  BY <1>6, <1>7, <1>9 DEF Own, Fit
<1>11. Fit(sorted, Here, {})
  <2> DEFINE X == {}
  <2>1. Fit(t, Here, X)
    BY <1>6
  <2> HIDE DEF X
  <2>2. Fit(sorted, Here, X)
    BY <1>2, <1>6, <1>8, <1>9, <1>10, <2>1, PlanFit
  <2>3. QED
    BY <2>2 DEF X
<1>12. CASE Go(Clearing(sorted, next), "clear")
  BY <1>1, <1>2, <1>3, <1>8, <1>9, <1>11, <1>12, ClearingEdges
<1>13. CASE Go(Clearing(State, next), "clear")
  BY <1>1, <1>2, <1>3, <1>13, ClearingEdges
<1>14. QED
  BY <1>1, <1>12, <1>13

LEMMA RelinkEdges ==
  ASSUME PlanInv, EdgesInv, Relink
  PROVE  EdgesInv'
<1> DEFINE K == Len(node) + 4
           n == self.graph[self.i]
           t == Bypass(State, n)
           u == Further(State)
<1>1. /\ phase = "build" /\ At("clear") /\ self.step = "clear" /\ self.i <= Len(self.graph)
      /\ \/ Go(t, "clear") /\ \E b \in 0..1 : ToPassive(State, n, b)
         \/ Go(u, "clear") /\ \A b \in 0..1 : ~ToPassive(State, n, b)
  BY DEF Relink, At
<1>2. /\ K \in Nat /\ State \in StateOf(K) /\ Fit(State, Here, {}) /\ State.plan = self
      /\ State.node = node /\ self \in PlanOf(K) /\ self = plans[Here] /\ Here \in Open
      /\ Len(node) \in Nat
  BY <1>1, Start, Building DEF Open
<1>3. /\ self.graph \in Seq(1..Len(node)) /\ self.i \in Nat
      /\ DOMAIN self.graph = 1..Len(self.graph) /\ Len(self.graph) \in Nat
      /\ self.i \in DOMAIN self.graph
  <2>1. self.graph \in Seq(1..Len(node)) /\ self.i \in Nat \ {0}
    BY <1>1, Building DEF PlanOf
  <2>2. DOMAIN self.graph = 1..Len(self.graph) /\ Len(self.graph) \in Nat
    BY <2>1, LenProperties
  <2>3. QED
    BY <1>1, <2>1, <2>2
<1>4. n \in Range(State.plan.graph) /\ n \in 1..Len(node)
  BY <1>2, <1>3, ElementOfSeq DEF Range
<1>5. /\ Here \in {Here} \cup Pending(Here) /\ Here \notin Range(self.constPlans)
      /\ "clear" \in Steps \ {"finish"} /\ "clear" \in GoSteps /\ "clear" \notin ClauseSteps
  BY <1>1, OthersThanValues DEF Steps, GoSteps, ClauseSteps
<1>6. \A k \in DOMAIN self.graph : k < self.i =>
        \A b \in 0..1 : ~ToPassive(State, self.graph[k], b)
  BY <1>1, <1>2 DEF EdgesInv, PassedIn, ToPassive
<1> HIDE DEF K
<1>7. CASE Go(t, "clear") /\ \E b \in 0..1 : ToPassive(State, n, b)
  <2>1. State.plan.entry # NULL => ~State.node[State.plan.entry].passive
    BY <1>2 DEF EdgesInv, Entered
  <2>2. Tuned(t, State, K, Here, {})
    BY <1>2, <1>4, <1>7, <2>1, BypassFit
  <2>3. \A k \in DOMAIN self.graph : k < self.i => self.graph[k] # n
    BY <1>6, <1>7
  <2>4. /\ \A m \in DOMAIN node \ {n} : t.node[m] = node[m]
        /\ \A m \in DOMAIN node : t.node[m].passive = node[m].passive
    <3>1. PICK b, to : t = Link(State, n, b, to)
      BY DEF Bypass
    <3>2. t.node = [node EXCEPT ![n].out[b] = to]
      BY <1>2, <3>1 DEF Link, StateOf
    <3>3. n \in DOMAIN node /\ node[n] \in NodeOf(Len(node))
      BY <1>4, ElementOfSeq DEF PlanInv
    <3> HIDE DEF t, n
    <3>4. t.node[n] = [node[n] EXCEPT !.out[b] = to]
      BY <3>2, <3>3
    <3>5. t.node[n].passive = node[n].passive
      BY <3>3, <3>4 DEF NodeOf
    <3>6. QED
      BY <3>2, <3>5
  <2> HIDE DEF t, n
  <2>5. t \in StateOf(K) /\ Fit(t, Here, {}) /\ t.plan = self
    BY <1>2, <2>2 DEF Tuned, Same
  <2>6. ASSUME NEW k \in DOMAIN self.graph, k < self.i, NEW b \in 0..1
        PROVE  ~ToPassive(t, self.graph[k], b)
    <3>1. ~ToPassive(State, self.graph[k], b)
      BY <1>6, <2>6
    <3>2. self.graph[k] \in DOMAIN node /\ DOMAIN node = 1..Len(node) /\ self.graph[k] # n
      BY <1>3, <2>3, <2>6, ElementOfSeq DEF PlanInv
    <3>3. node[self.graph[k]] \in NodeOf(Len(node))
      BY <3>2, ElementOfSeq DEF PlanInv
    <3>4. node[self.graph[k]].out[b] # NULL => node[self.graph[k]].out[b] \in DOMAIN node
      BY SMTT(30), <1>2, <3>2, <3>3 DEF NodeOf, NULL
    <3>5. t.node[self.graph[k]] = node[self.graph[k]]
      BY <2>4, <3>2
    <3>6. QED
      BY <1>2, <2>4, <3>1, <3>4, <3>5 DEF ToPassive
  <2>7. QED
    BY <1>1, <1>2, <1>5, <1>7, <2>5, <2>6, GoEdges
<1>8. CASE Go(u, "clear") /\ \A b \in 0..1 : ~ToPassive(State, n, b)
  <2>1. u \in StateOf(K) /\ Fit(u, Here, {}) /\ u.node = State.node /\ SameNames(u.plan, self)
    <3> DEFINE X == {}
    <3>1. Fit(State, Here, X)
      BY <1>2
    <3> HIDE DEF X
    <3>2. u \in StateOf(K) /\ Fit(u, Here, X) /\ u.node = State.node /\ SameNames(u.plan, self)
      BY <1>2, <3>1, FurtherFit
    <3>3. QED
      BY <3>2 DEF X
  <2>2. u.plan.i = self.i + 1
    BY <1>2 DEF Further, StateOf, PlanOf
  <2> HIDE DEF u
  <2>3. ASSUME NEW k \in DOMAIN u.plan.graph, k < u.plan.i, NEW b \in 0..1
        PROVE  ~ToPassive(u, u.plan.graph[k], b)
    <3>1. u.plan.graph = self.graph /\ k \in DOMAIN self.graph /\ k \in Nat
      BY <1>3, <2>1, <2>3 DEF SameNames
    <3>2. k < self.i \/ k = self.i
      BY <1>3, <2>2, <2>3, <3>1
    <3>3. ~ToPassive(State, self.graph[k], b)
      BY <1>6, <1>8, <3>1, <3>2
    <3>4. QED
      BY <2>1, <3>1, <3>3 DEF ToPassive
  <2>4. u.plan.constPlans = self.constPlans
    BY <2>1 DEF SameNames
  <2>5. QED
    BY <1>1, <1>2, <1>5, <1>8, <2>1, <2>3, <2>4, GoEdges
<1>9. QED
  BY <1>1, <1>7, <1>8

(* The end of the clauses leads to op_true, and op_false of a union member goes; and then the
   operation is put there. *)
OperationLinked == Link(State, self.current, 0, self.opTrue)
OperationSilent == [OperationLinked EXCEPT !.node[self.opFalse].passive = TRUE]
OperationQuiet  == IF self.isUnion THEN OperationSilent ELSE OperationLinked
OperationMoved  == [OperationQuiet EXCEPT !.plan.current = self.opTrue]
OperationDone   == Enter(Await(ApplyProcess(OperationMoved)))

LEMMA OperationFits ==
  ASSUME PlanInv, EdgesInv, Operation
  PROVE  LET K == Len(node) + 4
         IN  /\ OperationQuiet \in StateOf(K) /\ Fit(OperationQuiet, Here, {})
             /\ OperationQuiet.plan = self /\ Len(OperationMoved.node) = Len(node)
             /\ OperationDone \in StateOf(K) /\ Fit(OperationDone, Here, {})
             /\ OperationDone.plan.constPlans = self.constPlans
<1> DEFINE K       == Len(node) + 4
           prev    == self.current
           linked  == Link(State, prev, 0, self.opTrue)
           silent  == [linked EXCEPT !.node[self.opFalse].passive = TRUE]
           quiet   == IF self.isUnion THEN silent ELSE linked
           moved   == [quiet EXCEPT !.plan.current = self.opTrue]
           applied == ApplyProcess(moved)
           waiting == Await(applied)
           entered == Enter(waiting)
           X       == {}
<1>0. quiet = OperationQuiet /\ moved = OperationMoved /\ entered = OperationDone
  BY DEF OperationQuiet, OperationLinked, OperationSilent, OperationMoved, OperationDone
<1>1. phase = "build" /\ At("operation")
  BY DEF Operation, At
<1>2. /\ K \in Nat /\ State \in StateOf(K) /\ Fit(State, Here, X) /\ State.plan = self
      /\ State.node = node /\ self \in PlanOf(K) /\ Here \in Nat /\ self.query \in QueryType
      /\ self.opTrue \in Range(self.graph) /\ Len(State.node) < K
  BY <1>1, Start DEF ClauseSteps, At
<1>3. self.opTrue \in 0..K /\ self.opTrue \in Targets(State, X)
  BY <1>2 DEF PlanOf, Targets
<1> HIDE DEF X
<1>4. Tuned(linked, State, K, Here, X)
  <2>1. prev \in {State.plan.current, State.plan.opTrue, State.plan.opFalse}
    BY <1>2
  <2>2. prev \in 1..Len(State.node) => Mine(State, Here, prev)
    BY <1>2, <2>1, OwnMine
  <2> HIDE DEF prev, K
  <2>3. QED
    BY <1>2, <1>3, <2>2, LinkFit
<1> HIDE DEF linked, K
<1>5. linked \in StateOf(K) /\ Fit(linked, Here, X) /\ linked.plan = self
  BY <1>2, <1>4 DEF Tuned, Same
<1>6. Tuned(quiet, linked, K, Here, X)
  <2>1. self.opFalse \in 1..Len(linked.node) => Mine(linked, Here, self.opFalse)
    BY <1>2, <1>5, OwnMine
  <2>2. Tuned(silent, linked, K, Here, X)
    <3>1. TRUE \in BOOLEAN
      OBVIOUS
    <3>2. QED
      BY <1>2, <1>5, <2>1, <3>1, NodeFieldFit
  <2> HIDE DEF silent
  <2>3. Tuned(linked, linked, K, Here, X)
    BY <1>5 DEF Tuned, Same
  <2>4. QED
    BY <2>2, <2>3
<1> HIDE DEF quiet
<1>7. /\ quiet \in StateOf(K) /\ Fit(quiet, Here, X) /\ quiet.plan = self
      /\ Len(quiet.node) = Len(State.node)
  BY <1>2, <1>4, <1>5, <1>6 DEF Tuned, Same
<1>8. moved \in StateOf(K)
  BY <1>2, <1>3, <1>7, PlanFields DEF From
<1>9. /\ moved.node = quiet.node /\ moved.plan.graph = self.graph /\ moved.plan.entry = self.entry
      /\ moved.plan.current = self.opTrue /\ moved.plan.opTrue = self.opTrue
      /\ moved.plan.opFalse = self.opFalse /\ moved.plan.constPlans = self.constPlans
      /\ moved.plan.query = self.query
  BY <1>2, <1>7 DEF StateOf, PlanOf
<1> HIDE DEF moved
<1>10. Own(moved)
  BY <1>7, <1>9 DEF Own, Fit
<1>11. Fit(moved, Here, X)
  BY <1>2, <1>7, <1>8, <1>9, <1>10, PlanFit
<1>12. /\ applied \in StateOf(K) /\ Fit(applied, Here, X)
       /\ applied.plan.constPlans = self.constPlans
  <2>1. moved.plan.query \in QueryType /\ Len(moved.node) < K /\ Fit(moved, Here, {})
    BY <1>2, <1>7, <1>9, <1>11 DEF X
  <2>2. QED
    BY <1>2, <1>8, <1>9, <2>1, ApplyProcessFit DEF X
<1> HIDE DEF applied
<1>13. ValuesBuilt(applied, K)
  <2>1. 4 \in Nat
    OBVIOUS
  <2>2. QED
    BY <1>1, <1>12, <2>1, ValuesBuiltNow DEF K
<1>14. Tuned(waiting, applied, K, Here, X)
  BY <1>2, <1>12, <1>13, AwaitFit
<1> HIDE DEF waiting
<1>15. waiting \in StateOf(K) /\ Fit(waiting, Here, X) /\ waiting.plan = applied.plan
  BY <1>14 DEF Tuned, Same
<1>16. Tuned(entered, waiting, K, Here, X)
  BY <1>2, <1>15, EnterFit
<1> HIDE DEF entered
<1>17. entered \in StateOf(K) /\ Fit(entered, Here, X) /\ entered.plan.constPlans = self.constPlans
  BY <1>12, <1>15, <1>16 DEF Tuned, Same
<1>18. QED
  BY <1>0, <1>2, <1>7, <1>9, <1>17 DEF K, X

LEMMA OperationEdges ==
  ASSUME PlanInv, EdgesInv, Operation
  PROVE  EdgesInv'
<1> DEFINE K == Len(node) + 4
           quiet == OperationQuiet
           done  == OperationDone
<1>1. /\ phase = "build" /\ At("operation")
      /\ Fail \/ Go(Clearing(quiet, "union"), "clear") \/ Go(Clearing(done, "union"), "clear")
  BY DEF Operation, At, OperationQuiet, OperationLinked, OperationSilent, OperationMoved,
         OperationDone
<1>2. K \in Nat
  BY <1>1, Start
<1>3. /\ quiet \in StateOf(K) /\ Fit(quiet, Here, {}) /\ quiet.plan.constPlans = self.constPlans
      /\ done \in StateOf(K) /\ Fit(done, Here, {}) /\ done.plan.constPlans = self.constPlans
  BY OperationFits
<1>4. "operation" \in Steps \ {"finish"} /\ "union" \in {"union", "disable", "finish"}
  BY DEF Steps, GoSteps
<1> HIDE DEF K, quiet, done
<1>5. CASE Fail
  BY <1>5, SameEdges DEF Fail
<1>6. CASE Go(Clearing(quiet, "union"), "clear")
  BY <1>1, <1>2, <1>3, <1>4, <1>6, ClearingEdges
<1>7. CASE Go(Clearing(done, "union"), "clear")
  BY <1>1, <1>2, <1>3, <1>4, <1>7, ClearingEdges
<1>8. QED
  BY <1>1, <1>5, <1>6, <1>7

LEMMA ConsumeConstEdges ==
  ASSUME PlanInv, EdgesInv, ConsumeConst
  PROVE  EdgesInv'
<1> DEFINE K == Len(node) + 4
           c == self.constPlans[self.i]
           t == Joined(State, c)
           u == Further(t)
           P == [u.plan EXCEPT !.step = "finish"]
<1>1. /\ phase = "build" /\ self.step = "finish" /\ self.i <= Len(self.constPlans)
      /\ Go(u, "finish")
  BY DEF ConsumeConst, At, Joined
<1>2. /\ K \in Nat /\ State.plan = self /\ State \in StateOf(K)
      /\ self \in PlanOf(K) /\ self = plans[Here] /\ Here \in Open
  BY <1>1, Start, Building DEF Open
<1>3. self.i \in DOMAIN self.constPlans /\ self.i \in Nat
      /\ \A k \in DOMAIN self.constPlans : k \in Nat
  <2>1. self.constPlans \in Seq(Nat) /\ self.i \in Nat \ {0}
    BY <1>2 DEF PlanOf
  <2>2. Len(self.constPlans) \in Nat /\ DOMAIN self.constPlans = 1..Len(self.constPlans)
    BY <2>1, LenProperties
  <2>3. QED
    BY <1>1, <2>1, <2>2
<1>4. c \in Pending(Here) /\ c \in {Here} \cup Pending(Here)
  BY <1>1, <1>2, <1>3 DEF Pending, PendingOf, ValuesOf
<1>5. plans[c].entry \in {NULL} \cup GraphOf(Here)
  <2>1. Handed(Here)
    BY <1>2 DEF EdgesInv
  <2>2. \A k \in DOMAIN self.constPlans : plans[self.constPlans[k]].entry = NULL
    BY ONLY <1>2, <2>1 DEF Handed
  <2>3. QED
    BY <1>3, <2>2
<1> HIDE DEF c
<1>6. Fits(t, State, K, c)
  BY <1>1, <1>4, <1>5, TakenFit
<1>7. t.plan.i = self.i
  BY <1>2 DEF Joined, StateOf, PlanOf
<1> HIDE DEF t, K
<1>8. t \in StateOf(K) /\ Fit(t, c, {}) /\ t.plan.constPlans = self.constPlans
  BY <1>2, <1>6 DEF Fits, Grown
<1>9. u \in StateOf(K) /\ Fit(u, c, {}) /\ SameNames(u.plan, t.plan)
  <2> DEFINE X == {}
  <2>1. Fit(t, c, X)
    BY <1>8
  <2> HIDE DEF X
  <2>2. u \in StateOf(K) /\ Fit(u, c, X) /\ SameNames(u.plan, t.plan)
    BY <1>2, <1>8, <2>1, FurtherFit
  <2>3. QED
    BY <2>2 DEF X
<1>10. u.plan.i = self.i + 1
  BY <1>7, <1>8 DEF Further, StateOf, PlanOf
<1>11. node' = u.node /\ plans' = [plans EXCEPT ![Here] = P] /\ stack' = stack
  BY <1>1 DEF Go
<1> HIDE DEF u
<1>12. /\ SameNames(P, u.plan) /\ P.constPlans = self.constPlans /\ P.step = "finish"
       /\ P.i = self.i + 1
  <2>1. u.plan \in PlanOf(K)
    BY <1>2, <1>9, StateParts
  <2>2. QED
    BY <1>8, <1>9, <1>10, <2>1 DEF PlanOf, SameNames
<1> HIDE DEF P
<1>13. ValuesOf(P) \subseteq Pending(Here) \ {c}
  <2>1. ASSUME NEW v \in ValuesOf(P) PROVE v \in Pending(Here) \ {c}
    <3>1. PICK j \in DOMAIN self.constPlans : v = self.constPlans[j] /\ j >= self.i + 1
      BY <1>12 DEF ValuesOf
    <3>2. j >= self.i /\ j # self.i
      BY <1>3, <3>1
    <3>3. v # c
      BY <1>2, <1>3, <3>1, <3>2 DEF EdgesInv, Tree, c
    <3>4. v \in Pending(Here)
      BY <1>2, <3>1, <3>2 DEF Pending, PendingOf, ValuesOf
    <3>5. QED
      BY <3>3, <3>4
  <2>2. QED
    BY <2>1
<1>14. P.step \notin CallSteps /\ LaidIn(P) /\ PassedIn(u.node, P)
  BY <1>12 DEF CallSteps, LaidIn, ClauseSteps, PassedIn
<1>15. QED
  BY <1>1, <1>2, <1>4, <1>9, <1>11, <1>12, <1>13, <1>14, StepEdges

LEMMA FinishEdges ==
  ASSUME PlanInv, EdgesInv, Finish
  PROVE  EdgesInv'
<1> DEFINE K      == Len(node) + 4
           all    == GetRoots(State)
           marked == IF self.query.sources = << >> THEN MarkRootsConst(all) ELSE all
           const  == \A n \in RootsOf(marked) : marked.node[n].const
           P      == [marked.plan EXCEPT !.step = "built", !.isConst = const]
           X      == {}
<1>1. /\ phase = "build" /\ node' = marked.node /\ plans' = [plans EXCEPT ![Here] = P]
      /\ stack' = Tail(stack)
  BY DEF Finish, At
<1>2. K \in Nat /\ State \in StateOf(K) /\ Fit(State, Here, X) /\ State.plan = self
  BY <1>1, Start
<1> HIDE DEF K, X
<1>3. Tuned(all, State, K, Here, X)
  BY <1>2, GetRootsFit
<1> HIDE DEF all
<1>4. all \in StateOf(K) /\ Fit(all, Here, X)
  BY <1>3 DEF Tuned
<1>5. Tuned(MarkRootsConst(all), all, K, Here, X)
  BY <1>2, <1>4, MarkRootsConstFit
<1>6. Tuned(marked, State, K, Here, X)
  <2>1. Tuned(MarkRootsConst(all), State, K, Here, X)
    BY <1>2, <1>3, <1>5, TunedTrans
  <2>2. QED
    BY <1>3, <2>1
<1> HIDE DEF marked, const
<1>7. marked \in StateOf(K) /\ Fit(marked, Here, X) /\ marked.plan = self
  BY <1>2, <1>6 DEF Tuned, Same
<1>8. SameNames(P, marked.plan) /\ P.constPlans = self.constPlans
  <2>1. marked.plan \in PlanOf(K)
    BY <1>2, <1>7, StateParts
  <2>2. QED
    BY <1>7, <2>1 DEF PlanOf, SameNames
<1> HIDE DEF P
<1>9. Range(stack') = Open \ {Here} /\ Here \in {Here} \cup Pending(Here)
  <2>1. stack \in Seq(1..Len(plans)) /\ Descends(stack) /\ stack # << >> /\ Len(plans) \in Nat
    BY <1>1, Building DEF PlanInv, Waiting
  <2>2. QED
    BY <1>1, <2>1, Pop DEF Here, Open
<1>10. QED
  BY <1>1, <1>2, <1>7, <1>8, <1>9, StepEdges DEF X

-----------------------------------------------------------------------------
(* Once the statement is built, nothing of it changes that EdgesInv is about. *)

LEMMA BuiltEdges ==
  ASSUME PlanInv, EdgesInv, phase \notin {"build", "failed"}, UNCHANGED <<plans, stack>>,
         DOMAIN node' = DOMAIN node, \A n \in DOMAIN node : Alike(node'[n], node[n])
  PROVE  EdgesInv'
<1>1. stack = << >>
  BY DEF PlanInv
<1>2. Open = {} /\ Open' = {}
  BY <1>1 DEF Open, Range
<1>3. Live = {1} /\ Live' = {1}
  BY <1>2 DEF Live
<1>4. Tree' /\ Outer'
  BY <1>2 DEF Tree, Outer
<1>5. Disjoint'
  BY <1>3 DEF Disjoint
<1>6. \A n \in GraphOf(1) : n \in DOMAIN node
  BY <1>3 DEF EdgesInv, Homed
<1>7. Homed'
  BY <1>3, <1>6 DEF EdgesInv, Homed, GraphOf, Alike
<1>8. Within(1)'
  BY <1>3, <1>6 DEF EdgesInv, Within, GraphOf, Alike
<1>9. \A p \in DOMAIN plans : Owned(p)'
  BY DEF EdgesInv, Owned, Alike
<1>10. QED
  BY <1>2, <1>3, <1>4, <1>5, <1>7, <1>8, <1>9 DEF EdgesInv

LEMMA WireEdges ==
  ASSUME PlanInv, EdgesInv, Wire
  PROVE  EdgesInv'
<1>1. node \in Seq(NodeOf(Len(node)))
  BY DEF PlanInv
<1>2. \A n \in DOMAIN node : node[n] \in NodeOf(Len(node))
  BY <1>1, ElementOfSeq
<1>3. CASE Activate \/ NextRoot \/ Ordered
  BY <1>3, SameEdges DEF Activate, NextRoot, Ordered
<1>4. ASSUME NEW v, NEW n \in DOMAIN node
      PROVE  Alike([node[n] EXCEPT !.visits = v], node[n])
  BY <1>2 DEF Alike, NodeOf
<1>5. CASE MakePipes \/ UpdatePipes
  <2>1. phase \notin {"build", "failed"} /\ UNCHANGED <<plans, stack>>
        /\ node' = [n \in DOMAIN node |-> [node[n] EXCEPT !.visits = 0]]
    BY <1>5 DEF MakePipes, UpdatePipes, Reset
  <2>2. DOMAIN node' = DOMAIN node /\ \A n \in DOMAIN node : Alike(node'[n], node[n])
    BY <1>4, <2>1
  <2>3. QED
    BY <2>1, <2>2, BuiltEdges
<1>6. CASE Visit
  <2>1. phase \notin {"build", "failed"} /\ UNCHANGED <<plans, stack>>
        /\ node' = [node EXCEPT ![Head(trav)].visits = @ + 1]
    BY <1>6 DEF Visit, Traversing
  <2>2. ASSUME NEW n \in DOMAIN node PROVE Alike(node'[n], node[n])
    <3>1. CASE n = Head(trav)
      <4>1. node'[n] = [node[n] EXCEPT !.visits = node[n].visits + 1]
        BY <2>1, <3>1
      <4>2. QED
        BY <1>4, <4>1
    <3>2. CASE n # Head(trav)
      BY <2>1, <3>2 DEF Alike
    <3>3. QED
      BY <3>1, <3>2
  <2>3. DOMAIN node' = DOMAIN node
    BY <2>1
  <2>4. QED
    BY <2>1, <2>2, <2>3, BuiltEdges
<1>7. QED
  BY <1>3, <1>5, <1>6 DEF Wire

LEMMA InitEdges == Init => EdgesInv
<1> SUFFICES ASSUME Init PROVE EdgesInv
  OBVIOUS
<1> DEFINE P == NewPlan(query, NULL, FALSE)
<1>1. node = << >> /\ plans = <<P>> /\ stack = <<1>>
  BY DEF Init
<1>2. /\ P.step = "consts" /\ P.constPlans = << >> /\ P.graph = << >> /\ P.entry = NULL
      /\ P.current = NULL /\ P.opTrue = NULL /\ P.opFalse = NULL
  BY DEF NewPlan
<1> HIDE DEF P
<1>3. plans[1] = P /\ DOMAIN plans = {1} /\ Open = {1} /\ Here = 1
  BY <1>1 DEF Open, Here, Range
<1>4. DOMAIN << >> = {}
  OBVIOUS
<1>5. GraphOf(1) = {} /\ DOMAIN node = {}
  BY <1>1, <1>2, <1>3, <1>4 DEF GraphOf, Range
<1>6. Pending(1) = {}
  BY <1>2, <1>3, <1>4 DEF Pending, PendingOf, ValuesOf, CallSteps
<1>7. Live = {1}
  BY <1>3, <1>6 DEF Live
<1>8. Tree /\ Outer
  BY <1>2, <1>3, <1>4 DEF Tree, Outer, CallSteps
<1>9. Disjoint /\ Homed
  BY <1>5, <1>7 DEF Disjoint, Homed
<1>10. Within(1) /\ Owned(1) /\ Entered(1)
  BY <1>2, <1>3, <1>5 DEF Within, Owned, Entered
<1>11. Handed(1)
  BY <1>2, <1>3, <1>4 DEF Handed
<1>12. LaidIn(plans[1]) /\ PassedIn(node, plans[1])
  BY <1>2, <1>3 DEF LaidIn, PassedIn, ClauseSteps
<1>13. QED
  BY <1>2, <1>3, <1>7, <1>8, <1>9, <1>10, <1>11, <1>12 DEF EdgesInv

LEMMA NextEdges ==
  ASSUME PlanInv, EdgesInv, [Next]_vars
  PROVE  EdgesInv'
<1>1. CASE UNCHANGED vars
  BY <1>1, SameEdges DEF vars
<1>2. CASE Build
  BY <1>2, BuildConstEdges, ConstructEdges, FromTableEdges, SubqueryEdges, FromConsumedEdges,
     JoinTableEdges, JoinConsumedEdges, CartesianJoinEdges, WhereEdges, GroupEdges, HavingEdges,
     OperationEdges, RelinkEdges, ClearEdges, RootsEdges, BuildUnionEdges, UnionConsumedEdges,
     OrderEdges, DisableEdges, ConsumeConstEdges, FinishEdges DEF Build
<1>3. CASE Wire
  BY <1>3, WireEdges
<1>4. QED
  BY <1>1, <1>2, <1>3 DEF Next

(* EdgesInv holds in every state, whatever the statement is: it is inductive together with
   PlanInv. *)
THEOREM EdgesInvariant == Spec => []EdgesInv
<1>1. Init => PlanInv /\ EdgesInv
  BY InitInv, InitEdges
<1>2. PlanInv /\ EdgesInv /\ [Next]_vars => (PlanInv /\ EdgesInv)'
  BY NextInv, NextEdges
<1>3. QED
  BY <1>1, <1>2, PTL DEF Spec

(* Once a statement is built, no process of its graph has been freed, and every edge leads
   into the graph: the part of NoDangling that is about edges. *)
NoDanglingEdge ==
  phase \notin {"build", "failed"} =>
    \A n \in graph : ~node[n].freed /\ \A b \in 0..1 : node[n].out[b] \in {NULL} \cup graph

LEMMA BuiltWithin == PlanInv /\ EdgesInv => NoDanglingEdge
<1> SUFFICES ASSUME PlanInv, EdgesInv, phase \notin {"build", "failed"}
             PROVE  \A n \in graph :
                      ~node[n].freed /\ \A b \in 0..1 : node[n].out[b] \in {NULL} \cup graph
  BY DEF NoDanglingEdge
<1>1. 1 \in Live
  BY DEF Live
<1>2. Within(1) /\ plans[1].entry = NULL
  BY <1>1 DEF EdgesInv
<1>3. graph = GraphOf(1)
  BY DEF graph, main, GraphOf
<1>4. QED
  BY <1>2, <1>3 DEF Within

(* fqlplan.c:643: what _clear_passive frees is referred to by no edge of what runs. *)
THEOREM EdgesStayInside == Spec => []NoDanglingEdge
<1>1. PlanInv /\ EdgesInv => NoDanglingEdge
  BY BuiltWithin
<1>2. QED
  BY <1>1, PlanInvariant, EdgesInvariant, PTL

-----------------------------------------------------------------------------
(* The traversal, once more. *)

(* dgraph_traverse finds every process, and in the first of its two passes before their
   inputs are counted, when every process can be reached from a root: whatever the roots,
   the order of the edges, cycles or nodes with several ways in.  That no edge leads it out
   of the graph is no condition any more. *)
THEOREM EveryProcessScheduled == Spec => [](Reachable => AllScheduled)
<1>1. NoDanglingEdge /\ TraversalInv => (Reachable => AllScheduled)
  BY DEF NoDanglingEdge, TraversalInv, AllScheduled, Connected, Closed
<1>2. QED
  BY <1>1, EdgesStayInside, TraversalInvariant, PTL
=============================================================================
