--------------------------- MODULE PlanRefsProofs ---------------------------
(***************************************************************************)
(* Proofs about PlanGraph: what the wait lists and the union ends of a     *)
(* plan refer to is in the plan, for the statements of Supported.          *)
(***************************************************************************)
EXTENDS PlanGraphProofs

-----------------------------------------------------------------------------
(* Wait lists and union ends. *)

ReferIn(m) == m.waits \cup Range(m.unionEnds)
Refers(n)  == ReferIn(node[n])

(* A process that stays as long as the plan it was made for is gone: it is not passive, and
   UnionConsumed does not make it so. *)
Fixed(w) ==
  /\ w \in DOMAIN node /\ ~node[w].passive
  /\ LET v == node[w].plan
     IN  /\ v \in DOMAIN plans /\ plans[v].step = "built"
         /\ plans[v].isUnion => plans[v].isConst \/ w # plans[v].opTrue

(* The values that plan p has still to take into its graph. *)
Left(p) == IF p \in Open THEN ValuesOf(plans[p]) ELSE {}

(* A plan whose processes refer to no other of its own graph. *)
Bare(p) ==
  \/ plans[p].query \in Valueless
  \/ plans[p].query.op = "delete" /\ plans[p].step \notin {"finish", "built"}

(* Where the processes of plan p may refer to. *)
Ahead(p) == (IF Bare(p) THEN {} ELSE GraphOf(p)) \cup UNION {GraphOf(d) : d \in Left(p)}

Referred(p) == \A n \in GraphOf(p) : \A w \in Refers(n) : Fixed(w) /\ w \in Ahead(p)

KindOf(p) ==
  LET P == plans[p]
  IN  /\ P.query \in IF p = 1 THEN Queries ELSE Nested
      /\ P.isUnion => p # 1 /\ Member(P.query)
      /\ P.query.consts = << >> => P.constPlans = << >>
      /\ P.step = "consts" => P.graph = << >>
      /\ "disable" \in {P.step, P.next} => P.query.op = "delete"

(* The plans that p has called. *)
Calling(p) ==
  LET P == plans[p]
  IN  /\ \A v \in Range(P.constPlans) :
           ~plans[v].isUnion /\ (P.step # "consts" => plans[v].step = "built")
      /\ P.step \in {"from subquery", "join subquery"} =>
           /\ ~node[plans[P.child].entry].passive
           /\ plans[P.child].entry # P.opTrue /\ plans[P.child].entry # P.opFalse
           /\ Bare(p) => plans[P.child].query \in Valueless
      /\ P.step = "join subquery" => Len(P.query.sources) > 1
      /\ P.step = "union member" => plans[P.child].isUnion /\ P.query.unions # << >>

Stands(nodes, P, n) == n \in Range(P.graph) /\ ~nodes[n].passive

(* The clauses that are left add no passive process: the current one is the read of the
   only source, or that of GROUP BY or DISTINCT. *)
Real(P) ==
  \/ P.step \in {"having", "operation"}
  \/ ~P.query.group /\ ~P.query.distinct /\ (P.step = "group" \/ (P.step = "from" /\ P.i > 1))

InClauses(nodes, P) ==
  P.step \in ClauseSteps =>
    /\ Stands(nodes, P, P.opTrue) /\ P.opTrue # P.opFalse
    /\ P.current \in Range(P.graph) \ {P.opTrue, P.opFalse}
    /\ P.isUnion /\ ~Constant(P.query) /\ Real(P) => ~nodes[P.current].passive

(* The process that the plan around this one will refer to. *)
EndOf(P) == IF P.isUnion THEN P.current ELSE P.opTrue

AfterSteps == {"clear", "roots", "union", "union member", "finish"}

InEnd(nodes, P) ==
  /\ P.step \in AfterSteps \cup {"built"} => Stands(nodes, P, EndOf(P))
  /\ P.step \in AfterSteps /\ P.isUnion => P.current # P.opTrue \/ Constant(P.query)
  /\ P.step = "built" /\ P.isUnion => P.current # P.opTrue \/ P.isConst

(* A plan of a query that reads nothing: MarkRootsConst finds all its roots. *)
SelfMade ==
  \A p \in Open : Constant(plans[p].query) =>
    p = Here /\ \A n \in GraphOf(p) : node[n].plan = p /\ node[n].action # "read"

RefsInv ==
  /\ \A p \in DOMAIN plans : KindOf(p)
  /\ \A p \in Live : Referred(p)
  /\ \A p \in Open : Calling(p)
  /\ \A p \in Live \ {1} : InClauses(node, plans[p]) /\ InEnd(node, plans[p])
  /\ SelfMade

-----------------------------------------------------------------------------
(* What a step of _build does to the plans that it does not touch. *)

(* Plan c is taken into this one, if it is another; a new plan may be called. *)
Takes(s, c) ==
  /\ node' = s.node /\ Kin(s, c)
  /\ DOMAIN plans \subseteq DOMAIN plans'
  /\ \A v \in DOMAIN plans \ {Here} : plans'[v] = plans[v]
  /\ plans'[Here].query = self.query /\ plans'[Here].isUnion = self.isUnion
  /\ plans'[Here].entry = self.entry
  /\ \A v \in DOMAIN plans \ {Here} : v \in Open' <=> v \in Open

LEMMA FixedStays ==
  ASSUME PlanInv, EdgesInv, phase = "build", NEW K \in Nat, NEW s \in StateOf(K),
         NEW c \in {Here} \cup Pending(Here), Takes(s, c), NEW w, Fixed(w), ~s.node[w].passive
  PROVE  Fixed(w)'
<1>1. Here \in Open /\ Here \in DOMAIN plans
  BY Place
<1>2. plans[Here].step # "built"
  BY <1>1 DEF PlanInv, Waiting, Open
<1>3. w \in DOMAIN node /\ node[w].plan \in DOMAIN plans /\ node[w].plan # Here
  BY <1>2 DEF Fixed
<1>4. DOMAIN node = 1..Len(node) /\ DOMAIN s.node = 1..Len(s.node)
  BY StateParts DEF PlanInv
<1>5. s.node[w].plan = node[w].plan /\ Len(node) \in Nat /\ Len(node) <= Len(s.node)
      /\ Len(s.node) \in Nat
  BY <1>3, <1>4, StateParts DEF Takes, Kin
<1>6. w \in DOMAIN s.node
  BY <1>3, <1>4, <1>5
<1>7. plans'[node[w].plan] = plans[node[w].plan] /\ node[w].plan \in DOMAIN plans'
  BY <1>3 DEF Takes
<1>8. QED
  BY <1>3, <1>5, <1>6, <1>7 DEF Fixed, Takes

(* A plan that has values to take, other than this one: the values are built and none of
   them is c. *)
LEMMA ValuesApart ==
  ASSUME PlanInv, EdgesInv, RefsInv, phase = "build", NEW c \in {Here} \cup Pending(Here),
         NEW p \in Open \ {Here}, plans[p].step # "consts"
  PROVE  Left(p) \subseteq Live \ {Here, c}
<1>1. Here \in Open /\ c \in Live /\ c # Here => \A q \in Open \ {Here} : c \notin Pending(q)
  BY Place
<1>2. ASSUME NEW d \in Left(p) PROVE d \in Live \ {Here, c}
  <2>1. d \in ValuesOf(plans[p])
    BY <1>2 DEF Left
  <2>2. d \in Pending(p) /\ d \in Range(plans[p].constPlans)
    BY <2>1 DEF Pending, PendingOf, ValuesOf, Range
  <2>3. plans[d].step = "built"
    BY <2>2 DEF RefsInv, Calling
  <2>4. Here \in DOMAIN plans /\ Here \in Open
    BY Place
  <2>5. d # Here
    BY <2>3, <2>4 DEF PlanInv, Waiting, Open
  <2>6. d # c
    BY <2>2, <2>5, Place
  <2>7. QED
    BY <2>2, <2>5, <2>6 DEF Live
<1>3. QED
  BY <1>2

LEMMA ReferredStays ==
  ASSUME PlanInv, EdgesInv, RefsInv, phase = "build", NEW K \in Nat, NEW s \in StateOf(K),
         NEW c \in {Here} \cup Pending(Here), Takes(s, c), NEW p \in Live \ {Here, c}
  PROVE  Referred(p)'
<1>1. p \in DOMAIN plans
  BY Place
<1>2. plans'[p] = plans[p] /\ (p \in Open' <=> p \in Open) /\ Kin(s, c) /\ node' = s.node
  BY <1>1 DEF Takes
<1>3. GraphOf(p)' = GraphOf(p) /\ (Bare(p)' <=> Bare(p)) /\ Left(p)' = Left(p)
  BY <1>2 DEF GraphOf, Bare, Left
<1>4. ASSUME NEW n \in GraphOf(p), NEW w \in Refers(n)' PROVE Fixed(w)' /\ w \in Ahead(p)'
  <2>1. Still(s.node[n], node[n])
    BY <1>2, Apart
  <2>2. w \in Refers(n)
    BY <1>2, <2>1 DEF Refers, ReferIn, Still
  <2>3. Fixed(w) /\ w \in Ahead(p)
    BY <2>2 DEF RefsInv, Referred
  <2>4. CASE w \in GraphOf(p) /\ ~Bare(p)
    <3>1. ~s.node[w].passive
      <4>1. Still(s.node[w], node[w])
        BY <1>2, <2>4, Apart
      <4>2. QED
        BY <2>3, <4>1 DEF Still, Fixed
    <3>2. QED
      BY <1>3, <2>3, <2>4, <3>1, FixedStays DEF Ahead
  <2>5. ASSUME NEW d \in Left(p), w \in GraphOf(d) PROVE Fixed(w)' /\ w \in Ahead(p)'
    <3>1. p \in Open \ {Here} /\ plans[p].step # "consts"
      <4>1. p \in Open
        BY <2>5 DEF Left
      <4>2. plans[p].step = "consts" => GraphOf(p) = {}
        BY <1>1 DEF RefsInv, KindOf, GraphOf, Range
      <4>3. QED
        BY <4>1, <4>2
    <3>2. d \in Live \ {Here, c}
      BY <2>5, <3>1, ValuesApart
    <3>3. ~s.node[w].passive
      <4>1. Still(s.node[w], node[w])
        BY <1>2, <2>5, <3>2, Apart
      <4>2. QED
        BY <2>3, <4>1 DEF Still, Fixed
    <3>4. d \in DOMAIN plans
      BY <3>2, Place
    <3>5. GraphOf(d)' = GraphOf(d)
      BY <3>2, <3>4 DEF Takes, GraphOf
    <3>6. QED
      BY <1>3, <2>3, <2>5, <3>3, <3>5, FixedStays DEF Ahead
  <2>6. QED
    BY <2>3, <2>4, <2>5 DEF Ahead
<1>5. QED
  BY <1>3, <1>4 DEF Referred

LEMMA OthersStay ==
  ASSUME PlanInv, EdgesInv, RefsInv, phase = "build", NEW K \in Nat, NEW s \in StateOf(K),
         NEW c \in {Here} \cup Pending(Here), Takes(s, c), NEW p \in Live \ {Here, c}
  PROVE  /\ p \in Open => Calling(p)'
         /\ p # 1 => InClauses(node', plans'[p]) /\ InEnd(node', plans'[p])
<1>1. p \in DOMAIN plans /\ DOMAIN plans = 1..Len(plans) /\ Here \in Open /\ Here \in DOMAIN plans
  BY Place
<1>2. plans'[p] = plans[p] /\ Kin(s, c) /\ node' = s.node
  BY <1>1 DEF Takes
<1>3. GraphOf(p)' = GraphOf(p) /\ (Bare(p)' <=> Bare(p))
  BY <1>2 DEF GraphOf, Bare
<1>4. \A n \in GraphOf(p) : Still(s.node[n], node[n])
  BY <1>2, Apart
<1>5. \A n : Stands(node, plans[p], n) => Stands(s.node, plans[p], n)
  BY <1>4 DEF Stands, Still, GraphOf
<1>6. p # 1 => InClauses(node', plans'[p]) /\ InEnd(node', plans'[p])
  <2>1. ASSUME p # 1
        PROVE  InClauses(s.node, plans[p]) /\ InEnd(s.node, plans[p])
    <3>1. InClauses(node, plans[p]) /\ InEnd(node, plans[p])
      BY <2>1 DEF RefsInv
    <3>2. InEnd(s.node, plans[p])
      BY <1>5, <3>1 DEF InEnd
    <3>3. InClauses(s.node, plans[p])
      BY <1>4, <1>5, <3>1 DEF InClauses, Still, GraphOf
    <3>4. QED
      BY <3>2, <3>3
  <2>2. QED
    BY <1>2, <2>1
<1>7. ASSUME p \in Open PROVE Calling(p)'
  <2>1. Calling(p) /\ Handed(p) /\ PlanOK(p)
    BY <1>1, <1>7 DEF RefsInv, EdgesInv, PlanInv
  <2>2. \A v \in DOMAIN plans : plans'[v].isUnion = plans[v].isUnion /\ plans'[v].query = plans[v].query
                                /\ plans'[v].entry = plans[v].entry
                                /\ (plans[v].step = "built" => plans'[v] = plans[v])
    <3>1. plans[Here].step # "built" /\ self = plans[Here]
      BY <1>1 DEF PlanInv, Waiting, Open, self, Here
    <3>2. QED
      BY <3>1 DEF Takes
  <2>3. (p + 1)..Len(plans) \subseteq DOMAIN plans
    BY <1>1, Building
  <2>4. \A v \in Range(plans[p].constPlans) : v \in DOMAIN plans
    BY <2>1, <2>3 DEF PlanOK, Range
  <2>5. plans[p].step \in CallSteps => plans[p].child \in DOMAIN plans
    BY <2>1, <2>3 DEF PlanOK
  <2>6. \A v \in Range(plans[p].constPlans) :
          ~plans'[v].isUnion /\ (plans[p].step # "consts" => plans'[v].step = "built")
    <3>1. ASSUME NEW v \in Range(plans[p].constPlans)
          PROVE  ~plans[v].isUnion /\ (plans[p].step # "consts" => plans[v].step = "built")
      BY <2>1 DEF Calling
    <3>2. QED
      BY <2>2, <2>4, <3>1
  <2>7. ASSUME plans[p].step \in {"from subquery", "join subquery"}
        PROVE  /\ ~s.node[plans'[plans[p].child].entry].passive
               /\ plans'[plans[p].child].entry # plans[p].opTrue
               /\ plans'[plans[p].child].entry # plans[p].opFalse
               /\ Bare(p) => plans'[plans[p].child].query \in Valueless
    <3>1. plans[p].child \in DOMAIN plans
      BY <2>5, <2>7 DEF CallSteps
    <3>2. plans[plans[p].child].entry \in GraphOf(p)
      BY <2>1, <2>7 DEF Handed
    <3>3. Still(s.node[plans[plans[p].child].entry], node[plans[plans[p].child].entry])
      BY <1>4, <3>2
    <3>4. QED
      BY <2>1, <2>2, <2>7, <3>1, <3>3 DEF Calling, Still
  <2>8. plans[p].step = "union member" => plans'[plans[p].child].isUnion /\ plans[p].query.unions # << >>
    BY <2>1, <2>2, <2>5 DEF Calling, CallSteps
  <2>9. plans[p].step = "join subquery" => Len(plans[p].query.sources) > 1
    BY <2>1 DEF Calling
  <2>10. QED
    BY <1>2, <1>3, <2>6, <2>7, <2>8, <2>9 DEF Calling
<1>8. QED
  BY <1>6, <1>7

(* What the processes that were in the graph, or are in the one that is taken, refer to
   still, and what is new: W. *)
Carries(s, W) ==
  \A n \in Range(s.plan.graph) :
    ReferIn(s.node[n]) \subseteq W \cup (IF n \in 1..Len(node) THEN Refers(n) ELSE {})

(* Only passive processes leave the graph. *)
Holds(s, c) ==
  \A n \in GraphOf(Here) \cup GraphOf(c) : ~s.node[n].passive => n \in Range(s.plan.graph)

(* What is referred to does not become passive. *)
Firm(s, c) == \A w \in Ahead(Here) \cup Ahead(c) : Fixed(w) => ~s.node[w].passive

LEMMA HereRefers ==
  ASSUME PlanInv, EdgesInv, RefsInv, phase = "build", NEW K \in Nat, NEW s \in StateOf(K),
         NEW c \in {Here} \cup Pending(Here), Takes(s, c), NEW h, h = Here,
         Range(plans'[h].graph) = Range(s.plan.graph), NEW W, Carries(s, W), Holds(s, c),
         Firm(s, c), Bare(h)' => Bare(h) /\ Bare(c) /\ c \notin ValuesOf(self),
         ValuesOf(self) \ {c} \subseteq Left(h)',
         \A w \in W : Fixed(w) /\ ~s.node[w].passive /\ w \in Ahead(h)'
  PROVE  Referred(h)'
<1>1. /\ Here \in Open /\ Here \in Live /\ c \in Live /\ Here \in DOMAIN plans
      /\ Live \subseteq DOMAIN plans /\ Here \notin Pending(Here)
      /\ c # Here => c \notin Open
  BY Place
<1>2. /\ Left(h) = ValuesOf(self) /\ self = plans[h]
      /\ ValuesOf(self) \subseteq Pending(Here)
  BY <1>1 DEF Left, self, Here, Pending, PendingOf
<1>3. GraphOf(h)' = Range(s.plan.graph) /\ node' = s.node
  BY DEF GraphOf, Takes
<1>4. \A d \in ValuesOf(self) : GraphOf(d)' = GraphOf(d)
  <2>1. \A d \in ValuesOf(self) : d \in DOMAIN plans /\ d # Here
    BY <1>1, <1>2 DEF Live
  <2>2. QED
    BY <2>1 DEF Takes, GraphOf
<1>5. ASSUME NEW w \in Ahead(h) \cup Ahead(c), Fixed(w) PROVE Fixed(w)' /\ w \in Ahead(h)'
  <2>1. ~s.node[w].passive
    BY <1>5 DEF Firm
  <2>2. Fixed(w)'
    BY <1>5, <2>1, FixedStays
  <2>3. CASE w \in GraphOf(h) \cup GraphOf(c) /\ ~Bare(h)'
    <3>1. w \in GraphOf(h)'
      BY <1>3, <2>1, <2>3 DEF Holds
    <3>2. QED
      BY <2>2, <2>3, <3>1 DEF Ahead
  <2>4. ASSUME NEW d \in ValuesOf(self), w \in GraphOf(d) PROVE w \in Ahead(h)'
    <3>1. CASE d = c
      BY <2>3, <2>4, <3>1
    <3>2. CASE d # c
      <4>1. d \in Left(h)' /\ w \in GraphOf(d)'
        BY <1>4, <2>4, <3>2
      <4>2. QED
        BY <4>1 DEF Ahead
    <3>3. QED
      BY <3>1, <3>2
  <2>5. CASE w \in Ahead(h)
    BY <1>2, <2>2, <2>3, <2>4, <2>5 DEF Ahead
  <2>6. CASE w \in Ahead(c) /\ c # Here
    <3>1. Left(c) = {}
      BY <1>1, <2>6 DEF Left
    <3>2. w \in GraphOf(c) /\ ~Bare(c)
      BY <2>6, <3>1 DEF Ahead
    <3>3. QED
      BY <2>2, <2>3, <3>2
  <2>7. QED
    BY <1>5, <2>5, <2>6
<1>6. ASSUME NEW n \in GraphOf(h)', NEW w \in Refers(n)' PROVE Fixed(w)' /\ w \in Ahead(h)'
  <2>1. n \in Range(s.plan.graph) /\ w \in ReferIn(s.node[n])
    BY <1>3 DEF Refers
  <2>2. CASE w \in W
    BY <2>2, FixedStays
  <2>3. CASE n \in 1..Len(node) /\ w \in Refers(n)
    <3>1. n \in GraphOf(Here) \cup GraphOf(c) \cup ((Len(node) + 1)..Len(s.node))
          /\ Len(node) \in Nat /\ Len(s.node) \in Nat
      BY <2>1, StateParts DEF Takes, Kin
    <3>2. n \in GraphOf(Here) \cup GraphOf(c)
      BY <2>3, <3>1
    <3>3. Referred(Here) /\ Referred(c)
      BY <1>1 DEF RefsInv
    <3>4. Fixed(w) /\ w \in Ahead(h) \cup Ahead(c)
      BY <2>3, <3>2, <3>3 DEF Referred
    <3>5. QED
      BY <1>5, <3>4
  <2>4. QED
    BY <2>1, <2>2, <2>3 DEF Carries
<1>7. QED
  BY <1>6 DEF Referred

-----------------------------------------------------------------------------
(* A step in which no plan is called. *)

SameKind(P) ==
  /\ P.query = self.query /\ P.isUnion = self.isUnion /\ P.entry = self.entry
  /\ P.constPlans = self.constPlans

(* What MarkRootsConst needs. *)
Mean(s) ==
  Constant(self.query) =>
    \A n \in Range(s.plan.graph) : s.node[n].plan = Here /\ s.node[n].action # "read"

LEMMA StepRefs ==
  ASSUME PlanInv, EdgesInv, RefsInv, phase = "build", NEW K \in Nat, NEW s \in StateOf(K),
         NEW c \in {Here} \cup Pending(Here), Kin(s, c), NEW P, SameKind(P),
         P.graph = s.plan.graph, node' = s.node, plans' = [plans EXCEPT ![Here] = P],
         \/ /\ stack' = stack /\ P.step \notin CallSteps \cup {"consts", "built"}
            /\ ValuesOf(P) = ValuesOf(self) \ {c}
         \/ /\ Range(stack') = Open \ {Here} /\ c = Here /\ P.step = "built"
            /\ ValuesOf(self) = {},
         NEW W, Carries(s, W), Holds(s, c), Firm(s, c), Mean(s),
         c # Here => (Bare(Here) => Bare(c) /\ c \notin ValuesOf(self)),
         self.step = "finish" => P.step \in {"finish", "built"},
         "disable" \in {P.step, P.next} => P.query.op = "delete",
         \A w \in W : /\ Fixed(w) /\ ~s.node[w].passive
                      /\ \/ w \in Range(s.plan.graph) /\ ~Bare(Here)
                         \/ \E d \in ValuesOf(self) \ {c} : w \in GraphOf(d),
         Here # 1 => InClauses(s.node, P) /\ InEnd(s.node, P)
  PROVE  RefsInv'
<1>1. /\ DOMAIN plans = 1..Len(plans) /\ 1 \in DOMAIN plans
      /\ Here \in Open /\ Here \in Live /\ c \in Live /\ c \in DOMAIN plans
      /\ Live \subseteq DOMAIN plans /\ Here \in DOMAIN plans
      /\ Here \notin Pending(Here)
      /\ c # Here => c \notin Open /\ c # 1 /\ \A p \in Open \ {Here} : c \notin Pending(p)
  BY Place
<1>2. /\ DOMAIN plans' = DOMAIN plans /\ plans'[Here] = P /\ self = plans[Here]
      /\ \A p \in DOMAIN plans : p # Here => plans'[p] = plans[p]
  BY <1>1 DEF self, Here
<1>3. /\ Open' \subseteq Open /\ Open \ {Here} \subseteq Open'
      /\ Here \in Open' =>
           /\ stack' = stack /\ P.step \notin CallSteps \cup {"consts", "built"}
           /\ ValuesOf(P) = ValuesOf(self) \ {c}
      /\ Here \notin Open' => c = Here /\ P.step = "built" /\ ValuesOf(self) = {}
  BY <1>1 DEF Open
<1>4. Takes(s, c)
  BY <1>2, <1>3 DEF Takes, SameKind
<1>5. Live' \subseteq Live /\ (c # Here => c \notin Live')
  <2>1. ValuesOf(self) \subseteq Pending(Here)
    BY <1>2 DEF Pending, PendingOf
  <2>2. ASSUME NEW p \in Open'
        PROVE  PendingOf(plans'[p]) \subseteq Pending(p)
               /\ (c # Here => c \notin PendingOf(plans'[p]))
    <3>1. CASE p = Here
      <4>1. PendingOf(P) = ValuesOf(self) \ {c}
        BY <1>3, <2>2, <3>1 DEF PendingOf
      <4>2. QED
        BY <1>2, <2>1, <3>1, <4>1
    <3>2. CASE p # Here
      <4>1. p \in DOMAIN plans /\ p \in Open
        BY <1>1, <1>3, <2>2 DEF Live
      <4>2. QED
        BY <1>1, <1>2, <3>2, <4>1 DEF Pending
    <3>3. QED
      BY <3>1, <3>2
  <2>3. Live' = {1} \cup Open' \cup UNION {PendingOf(plans'[p]) : p \in Open'}
    BY DEF Live, Pending
  <2>4. QED
    BY <1>1, <1>3, <2>2, <2>3 DEF Live
<1>6. ASSUME NEW p \in DOMAIN plans' PROVE KindOf(p)'
  <2>1. p \in DOMAIN plans /\ KindOf(p)
    BY <1>2 DEF RefsInv
  <2>2. CASE p # Here
    BY <1>2, <2>1, <2>2 DEF KindOf
  <2>3. CASE p = Here
    <3>1. P.step # "consts"
      BY <1>3
    <3>2. QED
      BY <1>2, <2>1, <2>3, <3>1 DEF KindOf, SameKind
  <2>4. QED
    BY <2>2, <2>3
<1>7. ASSUME NEW p \in Live' PROVE Referred(p)'
  <2>1. p \in Live /\ p \in DOMAIN plans
    BY <1>1, <1>5
  <2>2. CASE p # Here
    <3>1. p \in Live \ {Here, c}
      BY <1>5, <2>1, <2>2
    <3>2. QED
      BY <1>4, <3>1, ReferredStays
  <2>3. CASE p = Here
    <3>1. Range(plans'[p].graph) = Range(s.plan.graph) /\ plans'[p] = P
      BY <1>2, <2>3
    <3>2. Left(p)' = IF p \in Open' THEN ValuesOf(P) ELSE {}
      BY <3>1 DEF Left
    <3>3. ValuesOf(self) \ {c} \subseteq Left(p)'
      BY <1>3, <2>3, <3>2
    <3>4. self.step # "built"
      BY <1>1, <1>2 DEF PlanInv, Waiting, Open
    <3>5. Bare(p)' => Bare(p)
      BY <1>2, <2>3, <3>1, <3>4 DEF Bare, SameKind
    <3>6. c = Here => Bare(c) = Bare(p) /\ c \notin ValuesOf(self)
      BY <1>1, <1>2, <2>3 DEF Pending, PendingOf
    <3>7. Bare(p)' => Bare(p) /\ Bare(c) /\ c \notin ValuesOf(self)
      BY <2>3, <3>5, <3>6
    <3>8. ASSUME NEW w \in W PROVE Fixed(w) /\ ~s.node[w].passive /\ w \in Ahead(p)'
      <4>1. CASE w \in Range(s.plan.graph) /\ ~Bare(Here)
        <5>1. w \in GraphOf(p)' /\ ~Bare(p)'
          BY <2>3, <3>1, <3>5, <4>1 DEF GraphOf
        <5>2. QED
          BY <5>1 DEF Ahead
      <4>2. ASSUME NEW d \in ValuesOf(self) \ {c}, w \in GraphOf(d) PROVE w \in Ahead(p)'
        <5>1. d \in Left(p)'
          BY <3>3, <4>2
        <5>2. d \in DOMAIN plans /\ d # Here
          BY <1>1, <1>2, <4>2 DEF Live, Pending, PendingOf
        <5>3. GraphOf(d)' = GraphOf(d)
          BY <1>2, <5>2 DEF GraphOf
        <5>4. QED
          BY <4>2, <5>1, <5>3 DEF Ahead
      <4>3. QED
        BY <4>1, <4>2
    <3>9. QED
      BY <1>4, <2>3, <3>1, <3>3, <3>7, <3>8, HereRefers
  <2>4. QED
    BY <2>2, <2>3
<1>8. ASSUME NEW p \in Open' PROVE Calling(p)'
  <2>1. p \in Open /\ p \in DOMAIN plans /\ p \in Live
    BY <1>1, <1>3 DEF Live
  <2>2. CASE p # Here
    <3>1. p \in Live \ {Here, c} /\ p \in Open
      BY <1>1, <2>1, <2>2
    <3>2. QED
      BY <1>4, <3>1, OthersStay
  <2>3. CASE p = Here
    <3>1. P.step \notin CallSteps /\ plans'[p] = P
      BY <1>2, <1>3, <2>3
    <3>2. \A v \in Range(self.constPlans) : ~plans'[v].isUnion /\ plans'[v].step = "built"
      <4>1. Calling(Here) /\ PlanOK(Here)
        BY <1>1 DEF RefsInv, PlanInv
      <4>2. ASSUME NEW v \in Range(self.constPlans) PROVE v \in DOMAIN plans /\ v # Here
        <5>1. v \in (Here + 1)..Len(plans)
          BY <1>2, <4>1 DEF PlanOK, Range
        <5>2. QED
          BY <1>1, <5>1, Building
      <4>3. ASSUME NEW v \in Range(self.constPlans) PROVE plans[v].step = "built"
        <5>1. v \in (Here + 1)..Len(plans) /\ Here \in Nat
          BY <1>2, <4>1, Building DEF PlanOK, Range
        <5>2. \A q \in Open : q <= Here
          BY Place
        <5>3. v \notin Open /\ v \in DOMAIN plans
          BY <4>2, <5>1, <5>2
        <5>4. QED
          BY <5>3 DEF PlanInv, Waiting, Open
      <4>4. QED
        BY <1>2, <4>1, <4>2, <4>3 DEF Calling
    <3>3. P.constPlans = self.constPlans
      BY DEF SameKind
    <3>4. QED
      BY <3>1, <3>2, <3>3 DEF Calling, CallSteps
  <2>4. QED
    BY <2>2, <2>3
<1>9. ASSUME NEW p \in Live' \ {1}
      PROVE  InClauses(node', plans'[p]) /\ InEnd(node', plans'[p])
  <2>1. CASE p = Here
    BY <1>2, <1>9, <2>1
  <2>2. CASE p # Here
    <3>1. p \in Live \ {Here, c}
      BY <1>5, <1>9, <2>2
    <3>2. QED
      BY <1>4, <1>9, <3>1, OthersStay
  <2>3. QED
    BY <2>1, <2>2
<1>10. SelfMade'
  <2>1. ASSUME NEW p \in Open', Constant(plans'[p].query)
        PROVE  p = Here' /\ \A n \in Range(plans'[p].graph) :
                              s.node[n].plan = p /\ s.node[n].action # "read"
    <3>1. p \in Open /\ p \in DOMAIN plans
      BY <1>1, <1>3, <2>1 DEF Live
    <3>2. plans'[p].query = plans[p].query
      BY <1>2, <3>1 DEF SameKind
    <3>3. p = Here
      BY <2>1, <3>1, <3>2 DEF RefsInv, SelfMade
    <3>4. stack' = stack
      BY <1>3, <2>1, <3>3
    <3>5. QED
      BY <1>2, <2>1, <3>2, <3>3, <3>4 DEF Mean, Here
  <2>2. QED
    BY <2>1 DEF SelfMade, GraphOf
<1>11. QED
  BY <1>6, <1>7, <1>8, <1>9, <1>10 DEF RefsInv

(* The values of this plan have been built. *)
LEMMA ValuesDone ==
  ASSUME PlanInv, EdgesInv, RefsInv, phase = "build"
  PROVE  \A v \in Range(self.constPlans) :
           v \in DOMAIN plans \ (Open \cup {Here}) /\ plans[v].step = "built" /\ ~plans[v].isUnion
<1>1. /\ DOMAIN plans = 1..Len(plans) /\ Here \in Open /\ Here \in DOMAIN plans
      /\ self = plans[Here] /\ \A q \in Open : q <= Here /\ q \in DOMAIN plans
  <2>1. DOMAIN plans = 1..Len(plans) /\ Here \in Open /\ \A q \in Open : q <= Here
    BY Place
  <2>2. \A q \in Open : q \in DOMAIN plans
    BY PendingType
  <2>3. QED
    BY <2>1, <2>2 DEF self, Here
<1>2. Calling(Here) /\ PlanOK(Here) /\ Here \in Nat /\ Len(plans) \in Nat
  BY <1>1, Building DEF RefsInv
<1>3. ASSUME NEW v \in Range(self.constPlans)
      PROVE  v \in DOMAIN plans \ (Open \cup {Here}) /\ plans[v].step = "built" /\ ~plans[v].isUnion
  <2>1. v \in (Here + 1)..Len(plans)
    BY <1>1, <1>2, <1>3 DEF PlanOK, Range
  <2>2. v \in DOMAIN plans /\ v \notin Open /\ v # Here
    BY <1>1, <1>2, <2>1
  <2>3. plans[v].step = "built"
    BY <2>2 DEF PlanInv, Waiting, Open
  <2>4. ~plans[v].isUnion
    BY <1>1, <1>2, <1>3 DEF Calling
  <2>5. QED
    BY <2>2, <2>3, <2>4
<1>4. QED
  BY <1>3

-----------------------------------------------------------------------------
(* A step in which a plan is called. *)

(* What the call may be. *)
Callable(step, q, isUnion) ==
  /\ q \in Nested /\ (isUnion => Member(q)) /\ (isUnion <=> step = "union member")
  /\ step = "consts" => self.query.consts # << >> /\ self.graph = << >>
  /\ step = "union member" => self.query.unions # << >>
  /\ step = "join subquery" => Len(self.query.sources) > 1
  /\ step \in {"from subquery", "join subquery"} =>
       self.query.sources # << >> /\ (Bare(Here) => q \in Valueless)

Beside(step, entry, s) ==
  step \in {"from subquery", "join subquery"} => entry # s.plan.opTrue /\ entry # s.plan.opFalse

LEMMA CallRefs ==
  ASSUME PlanInv, EdgesInv, RefsInv, phase = "build", self.step \notin {"finish", "built"},
         NEW K \in Nat, NEW s \in StateOf(K), Kin(s, Here),
         NEW step \in {"consts"} \cup CallSteps, NEW q, NEW entry, NEW isUnion,
         Call(s, step, q, entry, isUnion), Noted(s, step), Ready(s, step, entry),
         Callable(step, q, isUnion),
         Beside(step, entry, s),
         s.plan.query = self.query, s.plan.isUnion = self.isUnion, s.plan.entry = self.entry,
         step = "consts" => s.plan.graph = self.graph,
         s.plan.next = self.next,
         Carries(s, {}), Holds(s, Here), Firm(s, Here),
         Here # 1 => \A P : P.step = step /\ P.isUnion = s.plan.isUnion /\ SameNames(P, s.plan)
                              /\ P.query = s.plan.query
                            => InClauses(s.node, P) /\ InEnd(s.node, P)
  PROVE  RefsInv'
<1> DEFINE r   == Len(plans) + 1
           P   == [s.plan EXCEPT !.step = step, !.child = r]
           C   == NewPlan(q, entry, isUnion)
           old == [plans EXCEPT ![Here] = P]
<1>1. /\ DOMAIN plans = 1..Len(plans) /\ 1 \in DOMAIN plans /\ Len(plans) \in Nat
      /\ Here \in Open /\ Here \in Live /\ Here \in DOMAIN plans
      /\ Live \subseteq DOMAIN plans
      /\ self = plans[Here] /\ Open \subseteq DOMAIN plans
  <2>1. Here \in {Here} \cup Pending(Here)
    OBVIOUS
  <2>2. /\ DOMAIN plans = 1..Len(plans) /\ 1 \in DOMAIN plans /\ Len(plans) \in Nat
        /\ Here \in Open /\ Here \in Live /\ Here \in DOMAIN plans
        /\ Live \subseteq DOMAIN plans
    BY <2>1, Place
  <2>3. QED
    BY <2>2 DEF self, Here, Live
<1>2. /\ P.step = step /\ P.child = r /\ P.constPlans = s.plan.constPlans
      /\ SameNames(P, s.plan) /\ P.query = self.query /\ P.isUnion = self.isUnion
      /\ P.next = self.next /\ P.graph = s.plan.graph /\ P.entry = self.entry
  <2>1. s.plan \in PlanOf(K)
    BY StateParts
  <2>2. QED
    BY <2>1 DEF PlanOf, SameNames
<1>3. /\ C.step = "consts" /\ C.constPlans = << >> /\ C.graph = << >> /\ C.entry = entry
      /\ C.query = q /\ C.isUnion = isUnion /\ C.next = "union"
  BY DEF NewPlan
<1>4. DOMAIN << >> = {} /\ Range(<< >>) = {}
  BY DEF Range
<1>5. node' = s.node
  BY DEF Call
<1>6. plans' = Append(old, C) /\ stack' = <<r>> \o stack
  BY DEF Call
<1> HIDE DEF P, C
<1>7. /\ DOMAIN plans' = 1..r /\ plans'[r] = C /\ plans'[Here] = P
      /\ \A p \in DOMAIN plans : p # Here => plans'[p] = plans[p]
  <2>1. old \in Seq({P} \cup PlanOf(Len(node))) /\ Len(old) = Len(plans)
    <3>1. plans \in Seq(PlanOf(Len(node)))
      BY DEF PlanInv
    <3>2. DOMAIN old = DOMAIN plans /\ old = [p \in DOMAIN old |-> old[p]]
      OBVIOUS
    <3>3. \A p \in DOMAIN plans : old[p] \in {P} \cup PlanOf(Len(node))
      BY <3>1, ElementOfSeq
    <3>4. plans \in Seq({P} \cup PlanOf(Len(node)))
      BY <3>1
    <3> HIDE DEF old
    <3>5. QED
      BY <3>2, <3>3, <3>4, MapType
  <2>2. \A p \in DOMAIN plans : old[p] = IF p = Here THEN P ELSE plans[p]
    BY <1>1
  <2> HIDE DEF old
  <2>3. DOMAIN plans' = 1..r /\ plans'[r] = C
        /\ \A p \in 1..Len(plans) : plans'[p] = old[p]
    BY <1>1, <1>6, <2>1
  <2>4. QED
    BY <1>1, <2>2, <2>3
<1> HIDE DEF old
<1>8. Open' = {r} \cup Open /\ stack'[1] = r
  <2>1. stack \in Seq(1..Len(plans)) /\ Descends(stack)
    BY DEF PlanInv, Waiting
  <2>2. QED
    BY <1>1, <1>6, <2>1, Push DEF Open
<1>9. r \notin DOMAIN plans /\ r \notin Live /\ r \notin Open /\ r # 1
      /\ DOMAIN plans' = DOMAIN plans \cup {r} /\ r \in Nat
  BY <1>1, <1>7
<1> HIDE DEF r
<1>10. /\ Range(self.constPlans) = ValuesOf(self)
       /\ ValuesOf(P) = Range(P.constPlans)
       /\ Range(self.constPlans) \subseteq Range(P.constPlans)
       /\ Range(P.constPlans) \subseteq Range(self.constPlans) \cup {r}
       /\ step # "consts" => P.constPlans = self.constPlans
  <2>1. self.constPlans \in Seq(Nat)
    BY Building DEF PlanOf
  <2>2. P.constPlans = IF step = "consts" THEN Append(self.constPlans, r) ELSE self.constPlans
    BY <1>2 DEF r, Noted
  <2>3. Range(Append(self.constPlans, r)) = Range(self.constPlans) \cup {r}
    BY <1>9, <2>1, RangeOfAppend
  <2>4. step # "finish"
    BY DEF CallSteps
  <2>5. QED
    BY <1>2, <2>2, <2>3, <2>4 DEF ValuesOf, Range
<1>11. Takes(s, Here)
  <2>1. \A v \in DOMAIN plans \ {Here} : v \in Open' <=> v \in Open
    BY <1>8, <1>9
  <2>2. QED
    BY <1>1, <1>2, <1>5, <1>7, <1>9, <2>1 DEF Takes
<1>12. Live' \subseteq Live \cup {r}
  <2>1. PendingOf(C) = {}
    <3>1. DOMAIN C.constPlans = {}
      BY ONLY <1>4, <1>3
    <3>2. C.step \notin CallSteps
      BY <1>3 DEF CallSteps
    <3>3. QED
      BY <3>1, <3>2 DEF PendingOf, ValuesOf
  <2>2. PendingOf(P) \subseteq Pending(Here) \cup {r}
    <3>1. ValuesOf(self) \subseteq Pending(Here)
      BY <1>1 DEF Pending, PendingOf
    <3>2. QED
      BY <1>2, <1>10, <3>1 DEF PendingOf
  <2>3. ASSUME NEW p \in Open PROVE PendingOf(plans'[p]) \subseteq Pending(p) \cup {r}
    <3>1. CASE p = Here
      BY <1>7, <2>2, <3>1
    <3>2. CASE p # Here
      <4>1. plans'[p] = plans[p]
        BY <1>1, <1>7, <3>2
      <4>2. QED
        BY <4>1 DEF Pending
    <3>3. QED
      BY <3>1, <3>2
  <2>4. Live' = {1} \cup Open' \cup UNION {PendingOf(plans'[p]) : p \in Open'}
    BY DEF Live, Pending
  <2>5. QED
    BY <1>7, <1>8, <2>1, <2>3, <2>4 DEF Live
<1>13. ASSUME NEW p \in DOMAIN plans' PROVE KindOf(p)'
  <2>1. CASE p = r
    BY <1>3, <1>7, <1>9, <2>1 DEF KindOf, Callable
  <2>2. CASE p # r /\ p # Here
    <3>1. p \in DOMAIN plans /\ plans'[p] = plans[p]
      BY <1>7, <1>9, <2>2
    <3>2. KindOf(p)
      BY <3>1 DEF RefsInv
    <3>3. QED
      BY <3>1, <3>2 DEF KindOf
  <2>3. CASE p = Here
    <3>1. KindOf(Here)
      BY <1>1 DEF RefsInv
    <3>2. P.query.consts = << >> => P.constPlans = << >>
      BY <1>1, <1>2, <1>10, <3>1 DEF KindOf, Callable
    <3>3. P.step # "disable"
      BY <1>2 DEF CallSteps
    <3>4. P.step = "consts" => P.graph = << >>
      BY <1>2 DEF Callable
    <3>5. plans'[p] = P /\ plans[Here] = self
      BY <1>1, <1>7, <2>3
    <3>6. QED
      BY <1>2, <2>3, <3>1, <3>2, <3>3, <3>4, <3>5 DEF KindOf
  <2>4. QED
    BY <1>9, <2>1, <2>2, <2>3
<1>14. Bare(Here) \/ ~(P.query \in Valueless \/ (P.query.op = "delete" /\ P.step \notin {"finish", "built"}))
  BY <1>1, <1>2 DEF Bare
<1>15. ASSUME NEW p \in Live' PROVE Referred(p)'
  <2>1. CASE p = r
    <3>1. GraphOf(p)' = {}
      BY <1>3, <1>4, <1>7, <2>1 DEF GraphOf
    <3>2. QED
      BY <3>1 DEF Referred
  <2>2. CASE p # r /\ p # Here
    <3>1. p \in Live \ {Here, Here} /\ Here \in {Here} \cup Pending(Here)
      BY <1>12, <2>2
    <3>2. QED
      BY <1>11, <3>1, ReferredStays
  <2>3. CASE p = Here
    <3>1. Range(plans'[p].graph) = Range(s.plan.graph) /\ plans'[p] = P /\ p \in Open'
      BY <1>1, <1>2, <1>7, <1>8, <2>3
    <3>2. Left(p)' = ValuesOf(P)
      BY <3>1 DEF Left
    <3>3. Bare(p)' => Bare(p)
      BY <1>14, <2>3, <3>1 DEF Bare
    <3>4. Here \notin ValuesOf(self)
      <4>1. Here \notin Pending(Here)
        BY Place
      <4>2. QED
        BY <1>1, <4>1 DEF Pending, PendingOf
    <3>5. Here \in {Here} \cup Pending(Here) /\ Bare(p) => Bare(Here)
      BY <2>3
    <3>6. ValuesOf(self) \ {Here} \subseteq Left(p)'
      BY <1>10, <3>2
    <3> DEFINE W == {}
    <3>7. Carries(s, W) /\ \A w \in W : Fixed(w) /\ ~s.node[w].passive /\ w \in Ahead(p)'
      OBVIOUS
    <3> HIDE DEF W
    <3>8. QED
      BY <1>11, <2>3, <3>1, <3>3, <3>4, <3>5, <3>6, <3>7, HereRefers
  <2>4. QED
    BY <2>1, <2>2, <2>3
<1>16. ASSUME NEW p \in Open' PROVE Calling(p)'
  <2>1. CASE p = r
    <3>1. Range(C.constPlans) = {}
      BY ONLY <1>3, <1>4
    <3>2. QED
      BY <1>3, <1>7, <2>1, <3>1 DEF Calling
  <2>2. CASE p # r /\ p # Here
    <3>1. p \in Live \ {Here, Here} /\ Here \in {Here} \cup Pending(Here) /\ p \in Open
      BY <1>8, <1>16, <2>2 DEF Live
    <3>2. QED
      BY <1>11, <3>1, OthersStay
  <2>3. CASE p = Here
    <3>1. plans'[p] = P /\ plans'[r] = C /\ node' = s.node
      BY <1>5, <1>7, <2>3
    <3>2. ASSUME NEW v \in Range(P.constPlans)
          PROVE  ~plans'[v].isUnion /\ (P.step # "consts" => plans'[v].step = "built")
      <4>1. CASE v = r
        <5>1. v \notin Range(self.constPlans)
          BY <1>9, <4>1, ValuesDone
        <5>2. step = "consts"
          BY <1>10, <3>2, <5>1
        <5>3. QED
          BY <1>2, <1>3, <1>7, <4>1, <5>2 DEF Callable
      <4>2. CASE v # r
        <5>1. v \in Range(self.constPlans)
          BY <1>10, <3>2, <4>2
        <5>2. v \in DOMAIN plans /\ v # Here /\ plans[v].step = "built" /\ ~plans[v].isUnion
          BY <5>1, ValuesDone
        <5>3. QED
          BY <1>7, <5>2
      <4>3. QED
        BY <4>1, <4>2
    <3>3. P.step \in {"from subquery", "join subquery"} =>
            /\ ~s.node[C.entry].passive /\ C.entry # P.opTrue /\ C.entry # P.opFalse
            /\ Bare(p)' => C.query \in Valueless
      <4>1. Bare(p)' => Bare(Here)
        BY <1>14, <2>3, <3>1 DEF Bare
      <4>2. QED
        BY <1>2, <1>3, <4>1 DEF Ready, Callable, SameNames, Beside
    <3>4. P.step = "union member" => C.isUnion /\ P.query.unions # << >>
      BY <1>2, <1>3 DEF Callable
    <3>5. P.child = r
      BY <1>2
    <3>6. P.step = "join subquery" => Len(P.query.sources) > 1
      BY <1>2 DEF Callable
    <3>7. QED
      BY <3>1, <3>2, <3>3, <3>4, <3>5, <3>6 DEF Calling
  <2>4. QED
    BY <1>8, <2>1, <2>2, <2>3
<1>17. ASSUME NEW p \in Live' \ {1}
       PROVE  InClauses(node', plans'[p]) /\ InEnd(node', plans'[p])
  <2>1. CASE p = Here
    BY <1>2, <1>5, <1>7, <1>17, <2>1
  <2>2. CASE p = r
    BY <1>3, <1>7, <2>2 DEF InClauses, InEnd, ClauseSteps, AfterSteps
  <2>3. CASE p # Here /\ p # r
    <3>1. p \in Live \ {Here, Here} /\ Here \in {Here} \cup Pending(Here)
      BY <1>12, <2>3
    <3>2. QED
      BY <1>11, <1>17, <3>1, OthersStay
  <2>4. QED
    BY <2>1, <2>2, <2>3
<1>18. SelfMade'
  <2>1. ASSUME NEW p \in Open', Constant(plans'[p].query)
        PROVE  p = Here' /\ Range(plans'[p].graph) = {}
    <3>1. CASE p = r
      BY <1>3, <1>4, <1>7, <1>8, <3>1 DEF Here
    <3>2. CASE p = Here
      <4>1. Constant(self.query)
        BY <1>2, <1>7, <2>1, <3>2
      <4>2. QED
        BY <4>1 DEF Constant, Callable, CallSteps
    <3>3. CASE p # r /\ p # Here
      <4>1. p \in Open /\ plans'[p] = plans[p]
        BY <1>1, <1>7, <1>8, <3>3
      <4>2. QED
        BY <2>1, <3>3, <4>1 DEF RefsInv, SelfMade
    <3>4. QED
      BY <3>1, <3>2, <3>3
  <2>2. QED
    BY <2>1 DEF SelfMade, GraphOf
<1>19. QED
  BY <1>13, <1>15, <1>16, <1>17, <1>18 DEF RefsInv

-----------------------------------------------------------------------------
(* What the clauses do: they add processes, and refer to W from them alone. *)

Unmoved(m, o) ==
  /\ m.plan = o.plan /\ m.action = o.action /\ m.passive = o.passive
  /\ m.waits = o.waits /\ m.unionEnds = o.unionEnds

Newborn(m, W) ==
  /\ m.plan = Here /\ m.waits \subseteq W /\ m.unionEnds = << >>
  /\ m.action = "read" => self.query.sources # << >>

SameTask(P, Q) ==
  /\ P.query = Q.query /\ P.isUnion = Q.isUnion /\ P.entry = Q.entry
  /\ P.constPlans = Q.constPlans

SameExits(P, Q) == P.opTrue = Q.opTrue /\ P.opFalse = Q.opFalse

Grew(t, s, W) ==
  /\ Len(s.node) <= Len(t.node) /\ SameTask(t.plan, s.plan) /\ SameExits(t.plan, s.plan)
  /\ t.plan.next = s.plan.next
  /\ \A n \in 1..Len(s.node) : Unmoved(t.node[n], s.node[n])
  /\ \A n \in (Len(s.node) + 1)..Len(t.node) : Newborn(t.node[n], W)
  /\ Range(s.plan.graph) \subseteq Range(t.plan.graph)
  /\ Range(t.plan.graph) \subseteq Range(s.plan.graph) \cup ((Len(s.node) + 1)..Len(t.node))

Grows(t, s, K, W) == t \in StateOf(K) /\ Grew(t, s, W)

LEMMA GrowsTrans ==
  ASSUME NEW K \in Nat, NEW W, NEW s \in StateOf(K), NEW t, NEW u,
         Grows(t, s, K, W), Grows(u, t, K, W)
  PROVE  Grows(u, s, K, W)
<1>1. Len(s.node) \in Nat /\ Len(t.node) \in Nat /\ Len(u.node) \in Nat
  BY StateParts DEF Grows
<1>2. Len(s.node) <= Len(t.node) /\ Len(t.node) <= Len(u.node)
  BY DEF Grows, Grew
<1>3. \A n \in 1..Len(s.node) : n \in 1..Len(t.node)
  BY <1>1, <1>2
<1>4. \A n \in 1..Len(s.node) : Unmoved(u.node[n], s.node[n])
  BY <1>3 DEF Grows, Grew, Unmoved
<1>5. ASSUME NEW n \in (Len(s.node) + 1)..Len(u.node) PROVE Newborn(u.node[n], W)
  <2>1. CASE n \in (Len(t.node) + 1)..Len(u.node)
    BY <2>1 DEF Grows, Grew
  <2>2. CASE n \notin (Len(t.node) + 1)..Len(u.node)
    <3>1. n \in 1..Len(t.node) /\ n \in (Len(s.node) + 1)..Len(t.node)
      BY <1>1, <1>2, <2>2
    <3>2. Unmoved(u.node[n], t.node[n]) /\ Newborn(t.node[n], W)
      BY <3>1 DEF Grows, Grew
    <3>3. QED
      BY <3>2 DEF Unmoved, Newborn
  <2>3. QED
    BY <2>1, <2>2
<1>6. /\ (Len(s.node) + 1)..Len(t.node) \subseteq (Len(s.node) + 1)..Len(u.node)
      /\ (Len(t.node) + 1)..Len(u.node) \subseteq (Len(s.node) + 1)..Len(u.node)
      /\ Len(s.node) <= Len(u.node)
  BY <1>1, <1>2
<1>7. Range(u.plan.graph) \subseteq Range(s.plan.graph) \cup ((Len(s.node) + 1)..Len(u.node))
  BY <1>6 DEF Grows, Grew
<1>8. Range(s.plan.graph) \subseteq Range(u.plan.graph)
  BY DEF Grows, Grew
<1>9. SameTask(u.plan, s.plan) /\ SameExits(u.plan, s.plan) /\ u.plan.next = s.plan.next
  BY DEF Grows, Grew, SameTask, SameExits
<1>10. QED
  BY <1>4, <1>5, <1>6, <1>7, <1>8, <1>9 DEF Grows, Grew

(* No process is added, and none changes but in its edges or in what nothing depends on. *)
LEMMA StillGrows ==
  ASSUME NEW K \in Nat, NEW W, NEW s \in StateOf(K), NEW t \in StateOf(K),
         Len(t.node) = Len(s.node), SameTask(t.plan, s.plan), SameExits(t.plan, s.plan),
         t.plan.next = s.plan.next,
         t.plan.graph = s.plan.graph, \A n \in 1..Len(s.node) : Unmoved(t.node[n], s.node[n])
  PROVE  Grows(t, s, K, W)
<1>1. Len(s.node) \in Nat /\ Len(s.node) <= Len(t.node) /\ (Len(s.node) + 1)..Len(t.node) = {}
  BY StateParts
<1>2. QED
  BY <1>1 DEF Grows, Grew

LEMMA AddGrows ==
  ASSUME NEW K \in Nat, NEW W, NEW s \in StateOf(K), NEW process \in NodeOf(K),
         Len(s.node) < K, Newborn(process, W)
  PROVE  Grows(Add(s, process), s, K, W)
<1> DEFINE t == Add(s, process)
           l == Len(s.node)
<1>1. t \in StateOf(K) /\ Added(t, s, process)
  BY AddGrown
<1>2. /\ l \in Nat /\ DOMAIN s.node = 1..l /\ s.plan \in PlanOf(K)
  BY StateParts
<1>3. t.plan = [s.plan EXCEPT !.graph = Append(@, Newest(s) + 1)]
  BY AddType
<1>4. SameTask(t.plan, s.plan) /\ SameExits(t.plan, s.plan) /\ t.plan.next = s.plan.next
  BY <1>2, <1>3 DEF PlanOf, SameTask, SameExits
<1> HIDE DEF t
<1>5. Len(t.node) = l + 1 /\ (l + 1)..Len(t.node) = {l + 1} /\ l <= Len(t.node)
  BY <1>1, <1>2 DEF Added
<1>6. \A n \in 1..l : Unmoved(t.node[n], s.node[n])
  BY <1>1 DEF Added, Unmoved
<1>7. \A n \in (l + 1)..Len(t.node) : Newborn(t.node[n], W)
  BY <1>1, <1>5 DEF Added
<1>8. /\ Range(s.plan.graph) \subseteq Range(t.plan.graph)
      /\ Range(t.plan.graph) \subseteq Range(s.plan.graph) \cup ((l + 1)..Len(t.node))
  BY <1>1, <1>5 DEF Added
<1>9. QED
  BY <1>1, <1>4, <1>5, <1>6, <1>7, <1>8 DEF Grows, Grew, t

LEMMA LinkGrows ==
  ASSUME NEW K \in Nat, NEW W, NEW s \in StateOf(K), NEW from, NEW branch \in 0..1,
         NEW to \in 0..K
  PROVE  /\ Grows(Link(s, from, branch, to), s, K, W)
         /\ Link(s, from, branch, to).plan = s.plan
<1> DEFINE t == Link(s, from, branch, to)
<1>1. t \in StateOf(K) /\ Len(t.node) = Len(s.node) /\ t.plan = s.plan
  BY LinkType
<1>2. DOMAIN s.node = 1..Len(s.node) /\ s.node \in Seq(NodeOf(K))
  BY StateParts
<1>3. ASSUME NEW n \in 1..Len(s.node) PROVE Unmoved(t.node[n], s.node[n])
  <2>1. s.node[n] \in NodeOf(K)
    BY <1>2, ElementOfSeq
  <2>2. CASE n # from
    BY <1>2, <2>2 DEF Link, Unmoved
  <2>3. CASE n = from
    <3>1. t.node[n] = [s.node[n] EXCEPT !.out[branch] = to]
      BY <1>2, <2>3 DEF Link
    <3>2. QED
      BY <2>1, <3>1 DEF NodeOf, Unmoved
  <2>4. QED
    BY <2>2, <2>3
<1> HIDE DEF t
<1>4. SameTask(t.plan, s.plan) /\ SameExits(t.plan, s.plan)
  BY <1>1 DEF SameTask, SameExits
<1>5. QED
  BY <1>1, <1>3, <1>4, StillGrows DEF t

(* Fields of the plan that only the plan itself looks at. *)
LooseGrows(t, s, K, W) ==
  Grows(t, s, K, W) /\ t.node = s.node /\ t.plan.graph = s.plan.graph

LEMMA CurrentGrows ==
  ASSUME NEW K \in Nat, NEW W, NEW s \in StateOf(K), NEW v \in 0..K
  PROVE  LooseGrows([s EXCEPT !.plan.current = v], s, K, W)
         /\ [s EXCEPT !.plan.current = v].plan.current = v
<1>1. [s EXCEPT !.plan.current = v] \in StateOf(K)
  BY PlanFields DEF From
<1>2. /\ [s EXCEPT !.plan.current = v].node = s.node
      /\ [s EXCEPT !.plan.current = v].plan.graph = s.plan.graph
      /\ [s EXCEPT !.plan.current = v].plan.next = s.plan.next
      /\ [s EXCEPT !.plan.current = v].plan.current = v
  BY DEF StateOf, PlanOf
<1>3. SameTask([s EXCEPT !.plan.current = v].plan, s.plan)
  BY DEF StateOf, PlanOf, SameTask
<1>4. SameExits([s EXCEPT !.plan.current = v].plan, s.plan)
  BY DEF StateOf, PlanOf, SameExits
<1> DEFINE t == [s EXCEPT !.plan.current = v]
<1> HIDE DEF t
<1>5. Grows(t, s, K, W)
  BY <1>1, <1>2, <1>3, <1>4, StillGrows DEF Unmoved, t
<1>6. QED
  BY <1>2, <1>5 DEF LooseGrows, t

LEMMA StagesGrows ==
  ASSUME NEW K \in Nat, NEW W, NEW s \in StateOf(K), NEW v \in Seq(Nat)
  PROVE  LooseGrows([s EXCEPT !.plan.stages = v], s, K, W)
         /\ [s EXCEPT !.plan.stages = v].plan.current = s.plan.current
<1>1. [s EXCEPT !.plan.stages = v] \in StateOf(K)
  BY PlanFields DEF From
<1>2. /\ [s EXCEPT !.plan.stages = v].node = s.node
      /\ [s EXCEPT !.plan.stages = v].plan.graph = s.plan.graph
      /\ [s EXCEPT !.plan.stages = v].plan.next = s.plan.next
      /\ [s EXCEPT !.plan.stages = v].plan.current = s.plan.current
  BY DEF StateOf, PlanOf
<1>3. SameTask([s EXCEPT !.plan.stages = v].plan, s.plan)
  BY DEF StateOf, PlanOf, SameTask
<1>4. SameExits([s EXCEPT !.plan.stages = v].plan, s.plan)
  BY DEF StateOf, PlanOf, SameExits
<1> DEFINE t == [s EXCEPT !.plan.stages = v]
<1> HIDE DEF t
<1>5. Grows(t, s, K, W)
  BY <1>1, <1>2, <1>3, <1>4, StillGrows DEF Unmoved, t
<1>6. QED
  BY <1>2, <1>5 DEF LooseGrows, t

LEMMA IndexGrows ==
  ASSUME NEW K \in Nat, NEW W, NEW s \in StateOf(K), NEW v \in Nat \ {0}
  PROVE  LooseGrows([s EXCEPT !.plan.i = v], s, K, W)
         /\ [s EXCEPT !.plan.i = v].plan.current = s.plan.current
         /\ [s EXCEPT !.plan.i = v].plan.i = v
<1>1. [s EXCEPT !.plan.i = v] \in StateOf(K)
  BY PlanFields DEF From
<1>2. /\ [s EXCEPT !.plan.i = v].node = s.node
      /\ [s EXCEPT !.plan.i = v].plan.graph = s.plan.graph
      /\ [s EXCEPT !.plan.i = v].plan.next = s.plan.next
      /\ [s EXCEPT !.plan.i = v].plan.current = s.plan.current
      /\ [s EXCEPT !.plan.i = v].plan.i = v
  BY DEF StateOf, PlanOf
<1>3. SameTask([s EXCEPT !.plan.i = v].plan, s.plan)
  BY DEF StateOf, PlanOf, SameTask
<1>4. SameExits([s EXCEPT !.plan.i = v].plan, s.plan)
  BY DEF StateOf, PlanOf, SameExits
<1> DEFINE t == [s EXCEPT !.plan.i = v]
<1> HIDE DEF t
<1>5. Grows(t, s, K, W)
  BY <1>1, <1>2, <1>3, <1>4, StillGrows DEF Unmoved, t
<1>6. QED
  BY <1>2, <1>5 DEF LooseGrows, t

LEMMA StageGrows ==
  ASSUME NEW K \in Nat, NEW W, NEW s \in StateOf(K), NEW n \in Nat
  PROVE  LooseGrows(Stage(s, n), s, K, W) /\ Stage(s, n).plan.current = s.plan.current
<1> DEFINE v == Append(s.plan.stages, n)
<1>1. s.plan.stages \in Seq(Nat)
  BY StateParts DEF PlanOf
<1>2. v \in Seq(Nat)
  BY <1>1, AppendProperties
<1> HIDE DEF v
<1>3. LooseGrows([s EXCEPT !.plan.stages = v], s, K, W)
      /\ [s EXCEPT !.plan.stages = v].plan.current = s.plan.current
  BY <1>2, StagesGrows
<1>4. QED
  BY <1>3 DEF v, Stage

LEMMA FurtherGrows ==
  ASSUME NEW K \in Nat, NEW W, NEW s \in StateOf(K)
  PROVE  LooseGrows(Further(s), s, K, W) /\ Further(s).plan.current = s.plan.current
         /\ Further(s).plan.i = s.plan.i + 1
<1> DEFINE v == s.plan.i + 1
<1>1. s.plan.i \in Nat \ {0}
  BY StateParts DEF PlanOf
<1>2. v \in Nat \ {0}
  BY <1>1
<1> HIDE DEF v
<1>3. LooseGrows([s EXCEPT !.plan.i = v], s, K, W)
      /\ [s EXCEPT !.plan.i = v].plan.current = s.plan.current
      /\ [s EXCEPT !.plan.i = v].plan.i = v
  BY <1>2, IndexGrows
<1>4. QED
  BY <1>3 DEF v, Further

LEMMA AdvanceGrows ==
  ASSUME NEW K \in Nat, NEW W, NEW s \in StateOf(K), NEW to \in 0..K
  PROVE  /\ Grows(Advance(s, to), s, K, W) /\ Advance(s, to).plan.current = to
         /\ Advance(s, to).plan.graph = s.plan.graph
<1> DEFINE t == Link(s, s.plan.current, 0, to)
           u == [t EXCEPT !.plan.current = to]
<1>1. 0 \in 0..1
  OBVIOUS
<1>2. Grows(t, s, K, W) /\ t.plan = s.plan
  BY <1>1, LinkGrows
<1> HIDE DEF t
<1>3. t \in StateOf(K)
  BY <1>2 DEF Grows
<1>4. LooseGrows(u, t, K, W) /\ u.plan.current = to
  BY <1>3, CurrentGrows
<1> HIDE DEF u
<1>5. Grows(u, s, K, W)
  BY <1>2, <1>4, GrowsTrans DEF LooseGrows
<1>6. QED
  BY <1>2, <1>4, <1>5 DEF u, t, Advance, LooseGrows

(* The node to is a new one, and the current one. *)
Leads(t, s, to) ==
  /\ t.plan.current = to /\ to \in Range(t.plan.graph) /\ to \in (Len(s.node) + 1)..Len(t.node)

LEMMA ThenGrows ==
  ASSUME NEW K \in Nat, NEW W, NEW s \in StateOf(K), Len(s.node) < K,
         NEW process \in NodeOf(K), Newborn(process, W), ~process.passive,
         NEW n, n = Len(s.node) + 1
  PROVE  /\ Grows(Stage(Advance(Add(s, process), n), n), s, K, W)
         /\ Leads(Stage(Advance(Add(s, process), n), n), s, n)
         /\ ~Stage(Advance(Add(s, process), n), n).node[n].passive
<1> DEFINE a == Add(s, process)
           d == Advance(a, n)
           t == Stage(d, n)
<1>1. Len(s.node) \in Nat /\ n \in 1..K /\ n \in 0..K /\ n \in Nat
  BY StateParts
<1>2. Grows(a, s, K, W) /\ Added(a, s, process)
  BY AddGrows, AddGrown
<1> HIDE DEF a
<1>3. a \in StateOf(K) /\ Len(a.node) = n /\ n \in Range(a.plan.graph) /\ a.node[n] = process
  BY <1>2 DEF Grows, Added
<1>4. Grows(d, a, K, W) /\ d.plan.current = n /\ d.plan.graph = a.plan.graph
  BY <1>1, <1>3, AdvanceGrows
<1> HIDE DEF d
<1>5. d \in StateOf(K) /\ Len(a.node) <= Len(d.node) /\ Unmoved(d.node[n], a.node[n])
      /\ Len(d.node) \in Nat
  <2>1. d \in StateOf(K)
    BY <1>4 DEF Grows
  <2>2. n \in 1..Len(a.node)
    BY <1>1, <1>3
  <2>3. QED
    BY <1>4, <2>1, <2>2, StateParts DEF Grows, Grew
<1>6. LooseGrows(t, d, K, W) /\ t.plan.current = n
  BY <1>1, <1>4, <1>5, StageGrows
<1> HIDE DEF t
<1>7. Grows(t, s, K, W)
  <2>1. Grows(d, s, K, W)
    BY <1>2, <1>4, GrowsTrans
  <2>2. QED
    BY <1>6, <2>1, GrowsTrans DEF LooseGrows
<1>8. ~t.node[n].passive /\ n \in Range(t.plan.graph) /\ n \in (Len(s.node) + 1)..Len(t.node)
  BY <1>1, <1>3, <1>4, <1>5, <1>6 DEF LooseGrows, Unmoved
<1>9. QED
  BY <1>6, <1>7, <1>8 DEF Leads, t, d, a

LEMMA LogicGrows ==
  ASSUME NEW K \in Nat, NEW W, NEW s \in StateOf(K), Len(s.node) + 2 <= K, Here \in Nat,
         NEW action \in Actions \ {"read"}, NEW conditions, NEW fromHash \in BOOLEAN,
         NEW waits \in SUBSET (1..K), waits \subseteq W
  PROVE  /\ Grows(Logic(s, action, conditions, fromHash, waits), s, K, W)
         /\ Leads(Logic(s, action, conditions, fromHash, waits), s, Len(s.node) + 2)
<1> DEFINE logic == Newest(s) + 1
           after == logic + 1
           edges == [b \in 0..1 |-> IF b = 0 THEN s.plan.opFalse ELSE after]
           quiet == fromHash /\ conditions = 1
           p0    == Process(Here, action)
           p1    == [p0 EXCEPT !.passive = quiet]
           p2    == [p1 EXCEPT !.waits = waits]
           p3    == [p2 EXCEPT !.out = edges]
           first == Add(s, p3)
           added == Add(first, Passive(Here))
           kept  == IF quiet THEN added ELSE Stage(added, logic)
           t     == Link(kept, s.plan.current, LogicBranch(fromHash), logic)
           u     == [t EXCEPT !.plan.current = after]
<1>1. /\ Len(s.node) \in Nat /\ logic = Len(s.node) + 1 /\ after = Len(s.node) + 2
      /\ logic \in 1..K /\ after \in 1..K /\ Len(s.node) < K
  BY StateParts DEF Newest
<1>2. p3 \in NodeOf(K) /\ Newborn(p3, W)
  <2>1. p0 \in NodeOf(K) /\ p0.plan = Here /\ p0.action # "read" /\ p0.unionEnds = << >>
    BY ProcessType DEF Process
  <2>2. quiet \in BOOLEAN
    OBVIOUS
  <2> HIDE DEF p0, quiet
  <2>3. p1 \in NodeOf(K) /\ p1.plan = Here /\ p1.action # "read" /\ p1.unionEnds = << >>
    <3>1. p1 \in NodeOf(K)
      BY <2>1, <2>2, NodeFields
    <3>2. QED
      BY <2>1, <3>1 DEF NodeOf
  <2> HIDE DEF p1
  <2>4. /\ p2 \in NodeOf(K) /\ p2.plan = Here /\ p2.action # "read" /\ p2.unionEnds = << >>
        /\ p2.waits = waits
    <3>1. p2 \in NodeOf(K)
      BY <2>3, NodeFields
    <3>2. QED
      BY <2>3, <3>1 DEF NodeOf
  <2> HIDE DEF p2
  <2>5. s.plan.opFalse \in 0..K /\ after \in 0..K
    BY <1>1, StateParts DEF PlanOf
  <2>6. edges \in [0..1 -> 0..K]
    <3> HIDE DEF after
    <3>1. QED
      BY <2>5, OutType
  <2> HIDE DEF edges
  <2>7. p3 \in NodeOf(K)
    BY <2>4, <2>6, NodeFields
  <2>8. /\ p3.plan = Here /\ p3.action # "read" /\ p3.unionEnds = << >>
        /\ p3.waits = waits
    BY <2>4, <2>7 DEF NodeOf
  <2>9. QED
    BY <2>7, <2>8 DEF Newborn
<1> HIDE DEF p3, logic, after, quiet, edges
<1>3. Grows(first, s, K, W) /\ Added(first, s, p3)
  BY <1>1, <1>2, AddGrows, AddGrown
<1> HIDE DEF first
<1>4. first \in StateOf(K) /\ Len(first.node) = logic /\ Len(first.node) < K
  BY <1>1, <1>3 DEF Grows, Added
<1>5. Passive(Here) \in NodeOf(K) /\ Newborn(Passive(Here), W)
  BY PassiveType DEF Passive, Process, Newborn
<1>6. Grows(added, first, K, W) /\ Added(added, first, Passive(Here))
  BY <1>4, <1>5, AddGrows, AddGrown
<1> HIDE DEF added
<1>7. added \in StateOf(K) /\ Len(added.node) = after /\ after \in Range(added.plan.graph)
  BY <1>1, <1>4, <1>6 DEF Grows, Added
<1>8. LooseGrows(kept, added, K, W)
  <2>1. Grows(added, added, K, W)
    <3>1. \A n \in 1..Len(added.node) : Unmoved(added.node[n], added.node[n])
      BY DEF Unmoved
    <3>2. SameTask(added.plan, added.plan) /\ SameExits(added.plan, added.plan)
      BY DEF SameTask, SameExits
    <3>3. QED
      BY <1>7, <3>1, <3>2, StillGrows
  <2>2. logic \in Nat
    BY <1>1
  <2>3. LooseGrows(Stage(added, logic), added, K, W)
    BY <1>7, <2>2, StageGrows
  <2>4. QED
    BY <2>1, <2>3 DEF LooseGrows
<1> HIDE DEF kept
<1>9. kept \in StateOf(K)
  BY <1>8 DEF LooseGrows, Grows
<1>10. Grows(t, kept, K, W) /\ t.plan = kept.plan
  <2> DEFINE from   == s.plan.current
             branch == LogicBranch(fromHash)
  <2>1. branch \in 0..1 /\ logic \in 0..K
    BY <1>1 DEF LogicBranch
  <2> HIDE DEF from, branch
  <2>2. Grows(Link(kept, from, branch, logic), kept, K, W)
        /\ Link(kept, from, branch, logic).plan = kept.plan
    BY ONLY SMTT(30), <1>9, <2>1, LinkGrows, K \in Nat
  <2>3. QED
    BY <2>2 DEF from, branch
<1> HIDE DEF t
<1>11. t \in StateOf(K) /\ Len(kept.node) <= Len(t.node)
  BY <1>10 DEF Grows, Grew
<1>12. LooseGrows(u, t, K, W) /\ u.plan.current = after
  <2>1. after \in 0..K
    BY <1>1
  <2>2. /\ LooseGrows([t EXCEPT !.plan.current = after], t, K, W)
        /\ [t EXCEPT !.plan.current = after].plan.current = after
    BY ONLY <1>11, <2>1, CurrentGrows, K \in Nat
  <2>3. QED
    BY <2>2
<1> HIDE DEF u
<1>13. Grows(u, s, K, W)
  <2>1. Grows(added, s, K, W)
    BY <1>3, <1>6, GrowsTrans
  <2>2. Grows(kept, s, K, W)
    BY <1>8, <2>1, GrowsTrans DEF LooseGrows
  <2>3. Grows(t, s, K, W)
    BY <1>10, <2>2, GrowsTrans
  <2>4. QED
    BY <1>12, <2>3, GrowsTrans DEF LooseGrows
<1>14. Leads(u, s, after)
  <2>1. after \in Range(u.plan.graph)
    BY <1>7, <1>8, <1>10, <1>12 DEF LooseGrows
  <2>2. Len(u.node) \in Nat /\ after <= Len(u.node)
    <3>1. u \in StateOf(K)
      BY <1>13 DEF Grows
    <3>2. Len(kept.node) = after /\ u.node = t.node
      BY <1>7, <1>8, <1>12 DEF LooseGrows
    <3>3. QED
      BY <1>11, <3>1, <3>2, StateParts
  <2>3. QED
    BY <1>1, <1>12, <2>1, <2>2 DEF Leads
<1>15. u = Logic(s, action, conditions, fromHash, waits)
  BY DEF u, t, kept, added, first, p3, edges, quiet, after, logic, Logic
<1>16. QED
  BY <1>1, <1>13, <1>14, <1>15

LEMMA HashJoinGrows ==
  ASSUME NEW K \in Nat, NEW W, NEW s \in StateOf(K), Len(s.node) + 3 <= K, Here \in Nat,
         source \in Sources, NEW right
  PROVE  /\ Grows(HashJoin(s, right), s, K, W)
         /\ Leads(HashJoin(s, right), s, Len(s.node) + 3)
<1> DEFINE join   == Newest(s) + 1
           linked == Link(s, right, 0, join)
           p0     == Process(Here, "hash_join")
           p1     == [p0 EXCEPT !.second = TRUE]
           p2     == [p1 EXCEPT !.left = source.left]
           joined == Stage(Advance(Add(linked, p2), join), join)
           action == IF source.left THEN "left_join_logic" ELSE "logic"
           t      == Logic(joined, action, source.conditions, TRUE, {})
<1>1. Len(s.node) \in Nat /\ join \in 0..K /\ join = Len(s.node) + 1 /\ Len(s.node) < K
  BY StateParts DEF Newest
<1>2. p2 \in NodeOf(K) /\ Newborn(p2, W) /\ ~p2.passive
  <2>1. /\ p0 \in NodeOf(K) /\ p0.plan = Here /\ p0.action # "read" /\ p0.unionEnds = << >>
        /\ p0.waits = {} /\ ~p0.passive
    BY ProcessType DEF Actions, Process
  <2> HIDE DEF p0
  <2>2. p1 \in NodeOf(K)
    BY <2>1, NodeFields
  <2>3. /\ p1.plan = Here /\ p1.action # "read" /\ p1.unionEnds = << >>
        /\ p1.waits = {} /\ ~p1.passive
    BY <2>1 DEF NodeOf
  <2> HIDE DEF p1
  <2>4. source.left \in BOOLEAN
    BY DEF Sources
  <2>5. p2 \in NodeOf(K)
    BY <2>2, <2>4, NodeFields
  <2>6. /\ p2.plan = Here /\ p2.action # "read" /\ p2.unionEnds = << >>
        /\ p2.waits = {} /\ ~p2.passive
    BY <2>2, <2>3 DEF NodeOf
  <2>7. QED
    BY <2>5, <2>6 DEF Newborn
<1> HIDE DEF p2
<1>3. Grows(linked, s, K, W)
  <2>1. 0 \in 0..1
    OBVIOUS
  <2> HIDE DEF join
  <2>2. QED
    BY <1>1, <2>1, LinkGrows
<1>4. /\ linked \in StateOf(K) /\ Len(linked.node) = Len(s.node)
      /\ join = Len(linked.node) + 1 /\ Len(linked.node) < K
  <2>1. Len(linked.node) = Len(s.node)
    BY LinkType, <1>1
  <2> HIDE DEF linked
  <2>2. QED
    BY <1>1, <1>3, <2>1 DEF Grows
<1> HIDE DEF linked
<1>5. From(joined, linked, K, 1)
  <2>1. join = Newest(linked) + 1
    BY <1>4 DEF Newest
  <2>2. QED
    BY <1>2, <1>4, <2>1, ThenFrom
<1> HIDE DEF join
<1>6. Grows(joined, linked, K, W)
  BY <1>2, <1>4, ThenGrows
<1> HIDE DEF joined
<1>7. joined \in StateOf(K) /\ Len(joined.node) = Len(s.node) + 1 /\ Len(joined.node) + 2 <= K
  BY <1>1, <1>4, <1>5 DEF From
<1>8. Grows(t, joined, K, W) /\ Leads(t, joined, Len(joined.node) + 2)
  <2> DEFINE none == {}
  <2>1. /\ action \in Actions \ {"read"} /\ TRUE \in BOOLEAN /\ none \in SUBSET (1..K)
        /\ none \subseteq W
    BY DEF Actions
  <2> HIDE DEF action, none
  <2>2. Grows(Logic(joined, action, source.conditions, TRUE, none), joined, K, W)
        /\ Leads(Logic(joined, action, source.conditions, TRUE, none), joined, Len(joined.node) + 2)
    BY <1>7, <2>1, LogicGrows
  <2>3. QED
    BY <2>2 DEF none
<1> HIDE DEF t
<1>9. t \in StateOf(K) /\ Len(t.node) \in Nat
  BY <1>8, StateParts DEF Grows
<1>10. LooseGrows(Further(t), t, K, W) /\ Further(t).plan.current = t.plan.current
  BY <1>9, FurtherGrows
<1> DEFINE f == Further(t)
<1> HIDE DEF f
<1>11. Grows(f, s, K, W)
  <2>1. Grows(joined, s, K, W)
    BY <1>3, <1>6, GrowsTrans
  <2>2. Grows(t, s, K, W)
    BY <1>8, <2>1, GrowsTrans
  <2>3. QED
    BY <1>10, <2>2, GrowsTrans DEF LooseGrows, f
<1>12. Leads(f, s, Len(s.node) + 3)
  BY <1>1, <1>7, <1>8, <1>9, <1>10 DEF Leads, LooseGrows, f
<1>13. QED
  BY <1>11, <1>12 DEF f, t, action, joined, p2, linked, join, HashJoin

(* The plan Q, to go on at step. *)
AtStep(P, Q, step) ==
  /\ P.step = step /\ SameNames(P, Q) /\ P.query = Q.query /\ P.isUnion = Q.isUnion
  /\ P.next = Q.next /\ P.i = Q.i

LEMMA AtStepMade ==
  ASSUME NEW K \in Nat, NEW s \in StateOf(K), NEW step
  PROVE  AtStep([s.plan EXCEPT !.step = step], s.plan, step)
<1>1. s.plan \in PlanOf(K)
  BY StateParts
<1>2. QED
  BY <1>1 DEF PlanOf, AtStep, SameNames

(* The values that a plan waits for, each built and not yet taken. *)
Awaitable(W, c) == \A w \in W : Fixed(w) /\ \E d \in ValuesOf(self) \ {c} : w \in GraphOf(d)

LEMMA GoRefs ==
  ASSUME PlanInv, EdgesInv, RefsInv, phase = "build", self.step # "finish",
         NEW K \in Nat, NEW s \in StateOf(K), NEW c \in {Here} \cup Pending(Here),
         c \notin Range(self.constPlans), Kin(s, c), SameTask(s.plan, self),
         NEW step \in GoSteps, Go(s, step), step = "finish" => s.plan.i = 1,
         NEW W, Carries(s, W), Holds(s, c), Firm(s, c), Mean(s),
         c # Here => (Bare(Here) => Bare(c)),
         "disable" \in {step, s.plan.next} => self.query.op = "delete",
         \A w \in W : /\ Fixed(w) /\ ~s.node[w].passive
                      /\ \/ w \in Range(s.plan.graph) /\ ~Bare(Here)
                         \/ \E d \in ValuesOf(self) \ {c} : w \in GraphOf(d),
         Here # 1 => \A P : AtStep(P, s.plan, step) => InClauses(s.node, P) /\ InEnd(s.node, P)
  PROVE  RefsInv'
<1> DEFINE P == [s.plan EXCEPT !.step = step]
<1>1. AtStep(P, s.plan, step)
  BY AtStepMade
<1>2. node' = s.node /\ plans' = [plans EXCEPT ![Here] = P] /\ stack' = stack
  BY DEF Go
<1> HIDE DEF P
<1>3. SameKind(P) /\ P.graph = s.plan.graph
  BY <1>1 DEF AtStep, SameNames, SameTask, SameKind
<1>4. P.step \notin CallSteps \cup {"consts", "built"}
  BY <1>1 DEF AtStep, GoSteps, CallSteps
<1>5. ValuesOf(self) = Range(self.constPlans)
  BY DEF ValuesOf, Range
<1>6. ValuesOf(P) = Range(self.constPlans)
  <2>1. P.constPlans = self.constPlans /\ P.step = step /\ P.i = s.plan.i
    BY <1>1, <1>3 DEF AtStep, SameKind
  <2>2. self.constPlans \in Seq(Nat)
    BY Building DEF PlanOf
  <2>3. DOMAIN self.constPlans = 1..Len(self.constPlans) /\ Len(self.constPlans) \in Nat
    BY <2>2, LenProperties
  <2>4. \A j \in DOMAIN P.constPlans : P.step = "finish" => j >= P.i
    BY <2>1, <2>3
  <2>5. QED
    BY <2>1, <2>4 DEF ValuesOf, Range
<1>7. ValuesOf(P) = ValuesOf(self) \ {c}
  BY <1>5, <1>6
<1>8. c # Here => (Bare(Here) => Bare(c) /\ c \notin ValuesOf(self))
  BY <1>5
<1>9. "disable" \in {P.step, P.next} => P.query.op = "delete"
  BY <1>1, <1>3 DEF AtStep, SameKind
<1>10. Here # 1 => InClauses(s.node, P) /\ InEnd(s.node, P)
  BY <1>1
<1>11. QED
  BY <1>2, <1>3, <1>4, <1>7, <1>8, <1>9, <1>10, StepRefs

-----------------------------------------------------------------------------
(* What the clauses leave of RefsInv. *)

(* The state in which the processes of a clause are added: plan c has been taken, if it is
   another one than this. *)
Base(b, c, K) ==
  /\ b \in StateOf(K) /\ b.node = node /\ SameTask(b.plan, self) /\ SameExits(b.plan, self)
  /\ b.plan.next = self.next /\ b.plan.current = self.current
  /\ Range(b.plan.graph) = GraphOf(Here) \cup GraphOf(c)

LEMMA StartBase ==
  ASSUME PlanInv, EdgesInv, phase = "build", NEW K, K = Len(node) + 4
  PROVE  Base(State, Here, K)
<1>1. State \in StateOf(K) /\ State.node = node /\ State.plan = self /\ self = plans[Here]
  BY Start
<1>2. QED
  BY <1>1 DEF Base, SameTask, SameExits, GraphOf

LEMMA JoinedBase ==
  ASSUME PlanInv, EdgesInv, phase = "build", NEW K, K = Len(node) + 4, NEW c \in Pending(Here)
  PROVE  Base(Joined(State, c), c, K)
<1> DEFINE b == Joined(State, c)
<1>1. /\ K \in Nat /\ State \in StateOf(K) /\ State.node = node /\ State.plan = self
      /\ self = plans[Here] /\ self \in PlanOf(K) /\ Len(node) \in Nat /\ Len(node) <= K
  BY Start
<1>2. plans[c].graph \in Seq(1..K)
  <2>1. c \in {Here} \cup Pending(Here)
    OBVIOUS
  <2>2. c \in DOMAIN plans
    BY <2>1, Place
  <2>3. plans[c] \in PlanOf(Len(node))
    BY <2>2, ElementOfSeq DEF PlanInv
  <2>4. plans[c] \in PlanOf(K)
    BY <1>1, <2>3, PlanOfGrows
  <2>5. QED
    BY <2>4 DEF PlanOf
<1>3. self.graph \in Seq(1..K)
  BY <1>1 DEF PlanOf
<1>4. self.graph \o plans[c].graph \in Seq(1..K)
      /\ Range(self.graph \o plans[c].graph) = Range(self.graph) \cup Range(plans[c].graph)
  BY <1>2, <1>3, RangeOfConcat
<1>5. b = [State EXCEPT !.plan.graph = self.graph \o plans[c].graph]
  BY <1>1 DEF Joined
<1>6. b \in StateOf(K)
  <2> DEFINE g == self.graph \o plans[c].graph
  <2>1. g \in Seq(1..K) /\ b = [State EXCEPT !.plan.graph = g]
    BY <1>4, <1>5
  <2> HIDE DEF g, b
  <2>2. [State EXCEPT !.plan.graph = g] \in StateOf(K)
    BY <1>1, <2>1, PlanFields DEF From
  <2>3. QED
    BY <2>1, <2>2
<1>7. b.node = node /\ b.plan = [self EXCEPT !.graph = self.graph \o plans[c].graph]
  BY <1>1, <1>5 DEF StateOf
<1> HIDE DEF b
<1>8. /\ b.plan.graph = self.graph \o plans[c].graph /\ b.plan.next = self.next
      /\ b.plan.current = self.current
  BY <1>1, <1>7 DEF PlanOf
<1>9. SameTask(b.plan, self) /\ SameExits(b.plan, self)
  BY <1>1, <1>7 DEF PlanOf, SameTask, SameExits
<1>10. QED
  BY <1>1, <1>4, <1>6, <1>7, <1>8, <1>9 DEF b, Base, GraphOf

LEMMA GrewRefs ==
  ASSUME PlanInv, EdgesInv, RefsInv, phase = "build", NEW K \in Nat,
         NEW c \in {Here} \cup Pending(Here), NEW b, Base(b, c, K), NEW W, NEW s, Grows(s, b, K, W)
  PROVE  /\ s \in StateOf(K) /\ SameTask(s.plan, self) /\ SameExits(s.plan, self)
         /\ s.plan.next = self.next
         /\ Carries(s, W) /\ Holds(s, c) /\ Firm(s, c)
         /\ c = Here \/ self.query.sources # << >> => Mean(s)
         /\ \A n \in DOMAIN node : Unmoved(s.node[n], node[n])
<1>1. s \in StateOf(K) /\ Grew(s, b, W) /\ b.node = node
  BY DEF Grows, Base
<1>2. SameTask(s.plan, self) /\ SameExits(s.plan, self) /\ s.plan.next = self.next
  BY <1>1 DEF Grew, Base, SameTask, SameExits
<1>3. DOMAIN node = 1..Len(node) /\ Len(node) \in Nat /\ Len(s.node) \in Nat
  BY <1>1, StateParts DEF PlanInv
<1>4. \A n \in DOMAIN node : Unmoved(s.node[n], node[n])
  BY <1>1, <1>3 DEF Grew
<1>5. \A n \in GraphOf(Here) \cup GraphOf(c) : n \in DOMAIN node
  <2>1. Here \in Live /\ c \in Live
    BY Place
  <2>2. QED
    BY <2>1 DEF EdgesInv, Homed
<1>6. \A n \in Range(s.plan.graph) :
        \/ n \in DOMAIN node /\ n \in GraphOf(Here) \cup GraphOf(c)
        \/ n \notin DOMAIN node /\ Newborn(s.node[n], W)
  BY <1>1, <1>3, <1>5 DEF Grew, Base
<1>7. Carries(s, W)
  BY <1>3, <1>4, <1>6 DEF Carries, ReferIn, Refers, Unmoved, Newborn, Range
<1>8. Holds(s, c)
  BY <1>1 DEF Holds, Grew, Base
<1>9. Firm(s, c)
  BY <1>4 DEF Firm, Fixed, Unmoved
<1>10. ASSUME c = Here \/ self.query.sources # << >> PROVE Mean(s)
  <2>1. self = plans[Here] /\ Here \in Open
    BY Place DEF self, Here
  <2>2. ASSUME Constant(self.query), NEW n \in Range(s.plan.graph)
        PROVE  s.node[n].plan = Here /\ s.node[n].action # "read"
    <3>1. self.query.sources = << >> /\ c = Here
      BY <1>10, <2>2 DEF Constant
    <3>2. CASE n \in DOMAIN node /\ n \in GraphOf(Here)
      <4>1. node[n].plan = Here /\ node[n].action # "read"
        BY <2>1, <2>2, <3>2 DEF RefsInv, SelfMade
      <4>2. QED
        BY <1>4, <3>2, <4>1 DEF Unmoved
    <3>3. CASE Newborn(s.node[n], W)
      BY <3>1, <3>3 DEF Newborn
    <3>4. QED
      BY <1>6, <3>1, <3>2, <3>3
  <2>3. QED
    BY <2>2 DEF Mean
<1>11. QED
  BY <1>1, <1>2, <1>4, <1>7, <1>8, <1>9, <1>10

(* The current process is the one that was so before, or one that is added, or one of this
   plan that is neither end of the clauses. *)
Follows(s) ==
  /\ s.plan.current \in Range(s.plan.graph)
  /\ s.plan.current # self.opTrue /\ s.plan.current # self.opFalse

(* A member of a union that reads one source and has no GROUP BY and no DISTINCT leads to a
   process that is not passive. *)
Ending(s, step) ==
  \A P : AtStep(P, s.plan, step) /\ self.isUnion /\ ~Constant(self.query) /\ Real(P) =>
           ~s.node[s.plan.current].passive

LEMMA ClauseRefs ==
  ASSUME PlanInv, EdgesInv, RefsInv, NEW now \in ClauseSteps, At(now), NEW K \in Nat,
         NEW c \in {Here} \cup Pending(Here), c \notin Range(self.constPlans), NEW b,
         Base(b, c, K), NEW W, Awaitable(W, c), NEW s, Grows(s, b, K, W), Kin(s, c),
         c = Here \/ self.query.sources # << >>, c # Here => (Bare(Here) => Bare(c)),
         NEW step \in ClauseSteps \cap GoSteps, Go(s, step),
         Here # 1 => Follows(s) /\ Ending(s, step)
  PROVE  RefsInv'
<1>1. phase = "build" /\ self.step = now /\ self.step # "finish"
  BY DEF At, ClauseSteps
<1>2. /\ s \in StateOf(K) /\ SameTask(s.plan, self) /\ SameExits(s.plan, self)
      /\ s.plan.next = self.next
      /\ Carries(s, W) /\ Holds(s, c) /\ Firm(s, c) /\ Mean(s)
      /\ \A n \in DOMAIN node : Unmoved(s.node[n], node[n])
  BY <1>1, GrewRefs
<1>3. Here \in Open /\ Here \in Live /\ Here \in DOMAIN plans /\ self = plans[Here]
  BY <1>1, Place DEF self, Here
<1>4. step # "finish" /\ step # "disable" /\ step \in GoSteps
  BY DEF ClauseSteps
<1>5. "disable" \in {step, s.plan.next} => self.query.op = "delete"
  <2>1. KindOf(Here)
    BY <1>3 DEF RefsInv
  <2>2. QED
    BY <1>2, <1>3, <1>4, <2>1 DEF KindOf
<1>6. \A w \in W : /\ Fixed(w) /\ ~s.node[w].passive
                   /\ \E d \in ValuesOf(self) \ {c} : w \in GraphOf(d)
  BY <1>2 DEF Awaitable, Fixed, Unmoved
<1>7. ASSUME Here # 1, NEW P, AtStep(P, s.plan, step)
      PROVE  InClauses(s.node, P) /\ InEnd(s.node, P)
  <2>1. Follows(s) /\ Ending(s, step)
    BY <1>7
  <2>2. InClauses(node, self)
    BY <1>3, <1>7 DEF RefsInv
  <2>3. self.opTrue \in Range(self.graph) /\ ~node[self.opTrue].passive /\ self.opTrue # self.opFalse
    BY <1>1, <2>2 DEF InClauses, Stands
  <2>4. self.opTrue \in GraphOf(Here) /\ self.opTrue \in DOMAIN node
    BY <1>3, <2>3 DEF EdgesInv, Homed, GraphOf
  <2>5. ~s.node[self.opTrue].passive
    BY <1>2, <2>3, <2>4 DEF Unmoved
  <2>6. self.opTrue \in Range(s.plan.graph)
    BY <2>4, <2>5, <1>2 DEF Holds
  <2>7. /\ P.opTrue = self.opTrue /\ P.opFalse = self.opFalse /\ P.current = s.plan.current
        /\ P.graph = s.plan.graph /\ P.isUnion = self.isUnion /\ P.query = self.query
        /\ P.step = step
    BY <1>2, <1>7 DEF AtStep, SameNames, SameExits, SameTask
  <2>8. InEnd(s.node, P)
    BY <2>7 DEF InEnd, ClauseSteps, AfterSteps
  <2>9. P.isUnion /\ ~Constant(P.query) /\ Real(P) => ~s.node[P.current].passive
    BY <1>7, <2>1, <2>7 DEF Ending
  <2>10. InClauses(s.node, P)
    BY <2>1, <2>3, <2>5, <2>6, <2>7, <2>9 DEF InClauses, Stands, Follows
  <2>11. QED
    BY <2>8, <2>10
<1>8. QED
  BY <1>1, <1>2, <1>4, <1>5, <1>6, <1>7, GoRefs

(* An added process is none that was there. *)
LEMMA LeadsFollows ==
  ASSUME PlanInv, EdgesInv, phase = "build", self.step \in ClauseSteps, NEW K \in Nat, NEW c,
         NEW b, Base(b, c, K), NEW s \in StateOf(K), NEW to, Leads(s, b, to)
  PROVE  Follows(s)
<1>1. self.opTrue \in DOMAIN node /\ self.opFalse \in DOMAIN node
  <2>1. Here \in Open /\ Here \in Live /\ self = plans[Here]
    BY Place DEF self, Here
  <2>2. {self.opTrue, self.opFalse} \subseteq Range(self.graph)
    BY <2>1 DEF EdgesInv, LaidIn
  <2>3. QED
    BY <2>1, <2>2 DEF EdgesInv, Homed, GraphOf
<1>2. DOMAIN node = 1..Len(node) /\ Len(node) \in Nat /\ Len(s.node) \in Nat
  BY StateParts DEF PlanInv
<1>3. to \notin DOMAIN node /\ s.plan.current = to /\ to \in Range(s.plan.graph)
  BY <1>2 DEF Leads, Base
<1>4. QED
  BY <1>1, <1>3 DEF Follows

-----------------------------------------------------------------------------
(* The clauses, one by one. *)

(* A clause of the plan that is being built, without a subquery. *)
LEMMA PlainRefs ==
  ASSUME PlanInv, EdgesInv, RefsInv, NEW now \in ClauseSteps, At(now), NEW K, K = Len(node) + 4,
         NEW W, Awaitable(W, Here), NEW s, Grows(s, State, K, W), Fits(s, State, K, Here),
         NEW step \in ClauseSteps \cap GoSteps, Go(s, step),
         Here # 1 => Follows(s) /\ Ending(s, step)
  PROVE  RefsInv'
<1>1. phase = "build" /\ self.step # "finish"
  BY DEF At, ClauseSteps
<1>2. K \in Nat
  BY <1>1, Start
<1>3. Base(State, Here, K)
  BY <1>1, StartBase
<1>4. Here \notin Range(self.constPlans) /\ Here \in {Here} \cup Pending(Here)
  BY <1>1, OthersThanValues
<1>5. Kin(s, Here)
  BY DEF Fits, Fit
<1>6. QED
  BY <1>2, <1>3, <1>4, <1>5, ClauseRefs

LEMMA NothingAwaited == \A c : Awaitable({}, c)
BY DEF Awaitable

(* What a state of this plan leads to is what one leads to that differs in loose fields. *)
LEMMA LooseLeads ==
  ASSUME NEW K, NEW W, NEW s, NEW t, NEW b, NEW to, LooseGrows(t, s, K, W), Leads(s, b, to),
         t.plan.current = s.plan.current
  PROVE  Leads(t, b, to)
BY DEF LooseGrows, Leads

LEMMA FromTableRefs ==
  ASSUME PlanInv, EdgesInv, RefsInv, FromTable
  PROVE  RefsInv'
<1> DEFINE K == Len(node) + 4
           n == Len(node) + 1
           t == Stage(Advance(Add(State, Read), n), n)
           W == {}
<1>1. /\ phase = "build" /\ At("from") /\ Go(TableRead, "from") /\ self.step = "from"
      /\ self.i <= Len(self.query.sources) /\ self.i = 1
  BY DEF FromTable, MoreSources, At, TableRead
<1>2. /\ K \in Nat /\ State \in StateOf(K) /\ Len(State.node) < K /\ n = Len(State.node) + 1
      /\ Here \in Nat
  BY <1>1, Start
<1>3. "from" \in ClauseSteps \cap GoSteps
  BY DEF ClauseSteps, GoSteps
<1>4. Newborn(Read, W) /\ ~Read.passive
  <2>1. self.query.sources # << >>
    BY <1>1
  <2>2. Read.plan = Here /\ Read.waits = {} /\ Read.unionEnds = << >> /\ ~Read.passive
    BY DEF Read, Process
  <2>3. QED
    BY <2>1, <2>2 DEF Newborn
<1>5. Read \in NodeOf(K)
  BY <1>2, ReadMade
<1> HIDE DEF W, n
<1>6. /\ Grows(t, State, K, W) /\ Leads(t, State, n) /\ ~t.node[n].passive
  BY <1>2, <1>4, <1>5, ThenGrows
<1>7. TableRead = Further(t)
  BY DEF TableRead, n
<1> HIDE DEF t
<1>8. LooseGrows(TableRead, t, K, W) /\ TableRead.plan.current = t.plan.current
  <2>1. t \in StateOf(K)
    BY <1>6 DEF Grows
  <2>2. QED
    BY <1>2, <1>7, <2>1, FurtherGrows
<1>9. Grows(TableRead, State, K, W) /\ Leads(TableRead, State, n)
  BY <1>2, <1>6, <1>8, GrowsTrans, LooseLeads DEF LooseGrows
<1>10. ~TableRead.node[n].passive
  BY <1>6, <1>8 DEF LooseGrows
<1>11. Follows(TableRead) /\ Ending(TableRead, "from")
  <2>1. Base(State, Here, K)
    BY <1>1, StartBase
  <2>2. TableRead \in StateOf(K)
    BY <1>9 DEF Grows
  <2>3. Follows(TableRead)
    BY <1>1, <1>2, <1>3, <1>9, <2>1, <2>2, LeadsFollows
  <2>4. QED
    BY <1>9, <1>10, <2>3 DEF Ending, Leads
<1>12. Fits(TableRead, State, K, Here)
  BY <1>1, FromTableFits
<1>13. Awaitable(W, Here)
  BY NothingAwaited DEF W
<1>14. QED
  BY <1>1, <1>2, <1>3, <1>9, <1>11, <1>12, <1>13, PlainRefs

(* What is known of a member of a union that is being built. *)
LEMMA MemberHere ==
  ASSUME PlanInv, EdgesInv, RefsInv, phase = "build"
  PROVE  /\ self.isUnion /\ ~Constant(self.query) => EndsInProcess(self.query)
         /\ self.isUnion => ~self.query.order /\ Here # 1
         /\ Here # 1 => InClauses(node, self) /\ InEnd(node, self)
<1>1. Here \in Live /\ Here \in DOMAIN plans /\ self = plans[Here]
  BY Place DEF self, Here
<1>2. KindOf(Here)
  BY <1>1 DEF RefsInv
<1>3. self.isUnion => Here # 1 /\ Member(self.query)
  BY <1>1, <1>2 DEF KindOf
<1>4. Here # 1 => InClauses(node, self) /\ InEnd(node, self)
  BY <1>1 DEF RefsInv
<1>5. QED
  BY <1>3, <1>4 DEF Member

(* A member that joins ends in GROUP BY or DISTINCT. *)
LEMMA JoinEnding ==
  ASSUME PlanInv, EdgesInv, RefsInv, phase = "build", Len(self.query.sources) > 1,
         NEW s, SameTask(s.plan, self)
  PROVE  Ending(s, "from")
<1>1. ASSUME NEW P, AtStep(P, s.plan, "from"), self.isUnion, ~Constant(self.query), Real(P)
      PROVE  FALSE
  <2>1. EndsInProcess(self.query)
    BY <1>1, MemberHere
  <2>2. self.query.group \/ self.query.distinct
    <3>1. Len(self.query.sources) # 1
      <4>1. Len(self.query.sources) \in Nat
        BY Building DEF QueryType
      <4> DEFINE l == Len(self.query.sources)
      <4>2. l \in Nat /\ l > 1
        BY <4>1
      <4> HIDE DEF l
      <4>3. l # 1
        BY ONLY <4>2
      <4>4. QED
        BY <4>3 DEF l
    <3>2. QED
      BY ONLY <2>1, <3>1 DEF EndsInProcess
  <2>3. P.query = self.query /\ P.step = "from"
    BY <1>1 DEF AtStep, SameTask
  <2>4. QED
    BY <1>1, <2>2, <2>3 DEF Real
<1>2. QED
  BY <1>1 DEF Ending

LEMMA LeadsOn ==
  ASSUME NEW K \in Nat, NEW W, NEW s \in StateOf(K), NEW t, NEW u, NEW to, Grows(t, s, K, W),
         Leads(u, t, to)
  PROVE  Leads(u, s, to)
<1>1. Len(s.node) <= Len(t.node) /\ Len(s.node) \in Nat /\ Len(t.node) \in Nat
  BY StateParts DEF Grows, Grew
<1>2. DOMAIN u.node = DOMAIN u.node /\ to \in (Len(t.node) + 1)..Len(u.node)
  BY DEF Leads
<1>3. to \in (Len(s.node) + 1)..Len(u.node)
  BY <1>1, <1>2
<1>4. QED
  BY <1>3 DEF Leads

(* A clause that leaves the current process to be a new one, of which nothing more is to be
   known. *)
LEMMA FollowedRefs ==
  ASSUME PlanInv, EdgesInv, RefsInv, NEW now \in ClauseSteps, At(now), NEW K, K = Len(node) + 4,
         NEW W, Awaitable(W, Here), NEW s, Grows(s, State, K, W), Fits(s, State, K, Here),
         NEW to, Leads(s, State, to),
         NEW step \in ClauseSteps \cap GoSteps, Go(s, step), Ending(s, step)
  PROVE  RefsInv'
<1>1. phase = "build" /\ self.step \in ClauseSteps
  BY DEF At
<1>2. K \in Nat
  BY <1>1, Start
<1>3. Base(State, Here, K)
  BY <1>1, StartBase
<1>4. s \in StateOf(K)
  BY DEF Grows
<1>5. Follows(s)
  BY <1>1, <1>2, <1>3, <1>4, LeadsFollows
<1>6. QED
  BY <1>5, PlainRefs

LEMMA JoinTableRefs ==
  ASSUME PlanInv, EdgesInv, RefsInv, JoinTable
  PROVE  RefsInv'
<1> DEFINE K     == Len(node) + 4
           n     == Len(node) + 1
           other == [Read EXCEPT !.secondary = TRUE]
           t     == Add(State, other)
           W     == {}
<1>1. /\ phase = "build" /\ At("from") /\ Go(TableJoined, "from") /\ self.step = "from"
      /\ self.i <= Len(self.query.sources) /\ self.i > 1 /\ source \in Sources
  BY SourceType DEF JoinTable, MoreSources, At, TableJoined
<1>2. /\ K \in Nat /\ State \in StateOf(K) /\ Len(State.node) < K /\ State.node = node
      /\ Here \in Nat /\ Len(node) \in Nat /\ self \in PlanOf(K) /\ State.plan = self
      /\ self.query \in QueryType
  BY <1>1, Start
<1>3. "from" \in ClauseSteps \cap GoSteps
  BY DEF ClauseSteps, GoSteps
<1>4. self.i \in Nat /\ Len(self.query.sources) \in Nat /\ self.query.sources # << >>
      /\ Len(self.query.sources) > 1
  BY <1>1, <1>2 DEF PlanOf, QueryType
<1>5. Newborn(other, W)
  <2>1. other.plan = Here /\ other.waits = {} /\ other.unionEnds = << >>
    BY DEF Read, Process
  <2>2. QED
    BY <1>4, <2>1 DEF Newborn
<1>6. other \in NodeOf(K)
  BY <1>2, ReadMade
<1> HIDE DEF W, other
<1>7. Grows(t, State, K, W) /\ t \in StateOf(K) /\ Len(t.node) = Len(node) + 1
  <2>1. Grows(t, State, K, W)
    BY <1>2, <1>5, <1>6, AddGrows
  <2>2. Len(t.node) = Len(node) + 1
    BY <1>2, <1>6, AddGrown DEF Added
  <2>3. QED
    BY <2>1, <2>2 DEF Grows
<1>8. TableJoined = HashJoin(t, n)
  BY DEF TableJoined, t, other, n
<1> HIDE DEF t, n
<1>9. Grows(TableJoined, t, K, W) /\ Leads(TableJoined, t, Len(t.node) + 3)
  <2>1. Len(t.node) + 3 <= K
    BY <1>2, <1>7
  <2>2. QED
    BY <1>1, <1>2, <1>7, <1>8, <2>1, HashJoinGrows
<1>10. Grows(TableJoined, State, K, W) /\ Leads(TableJoined, State, Len(t.node) + 3)
  BY <1>2, <1>7, <1>9, GrowsTrans, LeadsOn
<1>11. Ending(TableJoined, "from")
  <2>1. SameTask(TableJoined.plan, self)
    BY <1>2, <1>10 DEF Grows, Grew
  <2>2. QED
    BY <1>1, <1>4, <2>1, JoinEnding
<1>12. Fits(TableJoined, State, K, Here)
  BY JoinTableFits
<1>13. Awaitable(W, Here)
  BY NothingAwaited DEF W
<1>14. QED
  BY <1>1, <1>3, <1>10, <1>11, <1>12, <1>13, FollowedRefs

(* The plan of a source, once it is built, and the process that reads it. *)
LEMMA ChildRefs ==
  ASSUME PlanInv, EdgesInv, RefsInv, phase = "build", NEW K, K = Len(node) + 4,
         self.step \in {"from subquery", "join subquery"}
  PROVE  LET c == self.child
             read == plans[c].entry
         IN  /\ c \in Pending(Here) /\ c \notin Range(self.constPlans)
             /\ Base(Consume(State), c, K) /\ Consume(State) \in StateOf(K)
             /\ read \in Range(Consume(State).plan.graph) /\ read \in 1..Len(node)
             /\ ~node[read].passive /\ read # self.opTrue /\ read # self.opFalse
             /\ Bare(Here) => Bare(c)
             /\ self.query.sources # << >>
             /\ self.step = "join subquery" => Len(self.query.sources) > 1
<1> DEFINE c == self.child
           read == plans[c].entry
<1>1. Here \in Open /\ self = plans[Here] /\ State.plan = self /\ PlanOK(Here)
      /\ self.query \in QueryType
  BY Building, Start DEF Open, self, Here
<1>2. c \in Pending(Here) /\ c \notin Range(self.constPlans)
  BY OthersThanValues DEF CallSteps
<1>3. read \in Range(Consume(State).plan.graph) /\ read \in 1..Len(node)
  BY ChildFit
<1>4. /\ ~node[read].passive /\ read # self.opTrue /\ read # self.opFalse
      /\ Bare(Here) => plans[c].query \in Valueless
      /\ self.step = "join subquery" => Len(self.query.sources) > 1
  <2>1. Calling(Here)
    BY <1>1 DEF RefsInv
  <2>2. QED
    BY <1>1, <2>1 DEF Calling
<1>5. Consume(State) = Joined(State, c)
  BY <1>1 DEF Consume, Joined
<1> HIDE DEF read
<1>6. self.query.sources # << >>
  <2>1. self.i \in 1..Len(self.query.sources)
    BY <1>1 DEF PlanOK
  <2>2. Len(<< >>) = 0
    OBVIOUS
  <2>3. \A i \in 1..0 : FALSE
    BY ONLY <2>2
  <2>4. QED
    BY <2>1, <2>2, <2>3
<1> HIDE DEF c
<1>7. Base(Joined(State, c), c, K)
  BY <1>2, JoinedBase
<1>8. Bare(Here) => Bare(c)
  BY <1>4 DEF Bare
<1>9. Joined(State, c) \in StateOf(K)
  BY <1>7 DEF Base
<1>10. QED
  BY <1>2, <1>3, <1>4, <1>5, <1>6, <1>7, <1>8, <1>9 DEF c, read

LEMMA JoinConsumedRefs ==
  ASSUME PlanInv, EdgesInv, RefsInv, JoinConsumed
  PROVE  RefsInv'
<1> DEFINE K == Len(node) + 4
           c == self.child
           b == Consume(State)
           read == plans[c].entry
           W == {}
<1>1. /\ phase = "build" /\ At("join subquery") /\ self.step = "join subquery"
      /\ Go(SubqueryJoined, "from")
  BY DEF JoinConsumed, At, SubqueryJoined
<1>2. /\ K \in Nat /\ Len(node) \in Nat /\ Len(node) + 3 <= K /\ Here \in Nat
  BY <1>1, Start
<1>3. /\ c \in Pending(Here) /\ c \notin Range(self.constPlans)
      /\ Base(b, c, K) /\ b \in StateOf(K)
      /\ Bare(Here) => Bare(c)
      /\ self.query.sources # << >> /\ Len(self.query.sources) > 1
  BY <1>1, ChildRefs
<1>4. Fits(SubqueryJoined, State, K, c) /\ source \in Sources
  BY JoinConsumedFits
<1>5. SubqueryJoined = HashJoin(b, read)
  BY DEF SubqueryJoined
<1>6. "join subquery" \in ClauseSteps /\ "from" \in ClauseSteps \cap GoSteps
  BY DEF ClauseSteps, GoSteps
<1>7. Awaitable(W, c)
  BY NothingAwaited
<1> HIDE DEF K, c, b, read, W
<1>8. Grows(SubqueryJoined, b, K, W) /\ Leads(SubqueryJoined, b, Len(b.node) + 3)
  <2>1. Len(b.node) + 3 <= K
    BY <1>2, <1>3 DEF Base
  <2>2. QED
    BY <1>2, <1>3, <1>4, <1>5, <2>1, HashJoinGrows
<1>9. SubqueryJoined \in StateOf(K) /\ Kin(SubqueryJoined, c)
  BY <1>4 DEF Fits, Fit
<1>10. Follows(SubqueryJoined)
  BY <1>1, <1>2, <1>3, <1>6, <1>8, <1>9, LeadsFollows
<1>11. Ending(SubqueryJoined, "from")
  <2>1. SameTask(SubqueryJoined.plan, self)
    BY <1>1, <1>2, <1>3, <1>8, GrewRefs
  <2>2. QED
    BY <1>1, <1>3, <2>1, JoinEnding
<1>12. c \in {Here} \cup Pending(Here)
  BY <1>3
<1>13. QED
  BY <1>1, <1>2, <1>3, <1>6, <1>7, <1>8, <1>9, <1>10, <1>11, <1>12, ClauseRefs

LEMMA FromConsumedRefs ==
  ASSUME PlanInv, EdgesInv, RefsInv, FromConsumed
  PROVE  RefsInv'
<1> DEFINE K == Len(node) + 4
           c == self.child
           b == Consume(State)
           read == plans[c].entry
           a == Advance(b, read)
           t == Stage(a, read)
           W == {}
<1>1. /\ phase = "build" /\ At("from subquery") /\ self.step = "from subquery"
      /\ Go(SubqueryRead, "from")
  BY DEF FromConsumed, At, SubqueryRead
<1>2. K \in Nat /\ Len(node) \in Nat /\ Len(node) < K
  BY <1>1, Start
<1>3. /\ c \in Pending(Here) /\ c \notin Range(self.constPlans)
      /\ Base(b, c, K) /\ b \in StateOf(K)
      /\ read \in Range(b.plan.graph) /\ read \in 1..Len(node)
      /\ ~node[read].passive /\ read # self.opTrue /\ read # self.opFalse
      /\ Bare(Here) => Bare(c)
      /\ self.query.sources # << >>
  BY <1>1, ChildRefs
<1>4. Fits(SubqueryRead, State, K, c)
  BY FromConsumedFits
<1>5. SubqueryRead = Further(t)
  BY DEF SubqueryRead
<1>6. "from subquery" \in ClauseSteps /\ "from" \in ClauseSteps \cap GoSteps
  BY DEF ClauseSteps, GoSteps
<1>7. Awaitable(W, c) /\ read \in 0..K /\ read \in Nat
  BY <1>2, <1>3, NothingAwaited
<1> HIDE DEF K, c, b, read, W
<1>8. Grows(a, b, K, W) /\ a.plan.current = read /\ a.plan.graph = b.plan.graph
  BY <1>2, <1>3, <1>7, AdvanceGrows
<1> HIDE DEF a
<1>9. LooseGrows(t, a, K, W) /\ t.plan.current = read
  BY <1>2, <1>7, <1>8, StageGrows DEF Grows
<1> HIDE DEF t
<1>10. LooseGrows(SubqueryRead, t, K, W) /\ SubqueryRead.plan.current = read
  BY <1>2, <1>5, <1>9, FurtherGrows DEF LooseGrows, Grows
<1>11. Grows(SubqueryRead, b, K, W)
  <2>1. Grows(t, b, K, W)
    BY <1>2, <1>3, <1>8, <1>9, GrowsTrans DEF LooseGrows
  <2>2. QED
    BY <1>2, <1>3, <1>10, <2>1, GrowsTrans DEF LooseGrows
<1>12. Kin(SubqueryRead, c) /\ c \in {Here} \cup Pending(Here)
  BY <1>3, <1>4 DEF Fits, Fit
<1>13. Follows(SubqueryRead)
  <2>1. SubqueryRead.plan.graph = b.plan.graph
    BY <1>8, <1>9, <1>10 DEF LooseGrows
  <2>2. QED
    BY <1>3, <1>10, <2>1 DEF Follows
<1>14. Ending(SubqueryRead, "from")
  <2>1. \A n \in DOMAIN node : Unmoved(SubqueryRead.node[n], node[n])
    BY <1>1, <1>2, <1>3, <1>11, <1>12, GrewRefs
  <2>2. read \in DOMAIN node
    BY <1>3, StateParts DEF PlanInv
  <2>3. ~SubqueryRead.node[read].passive
    BY <1>3, <2>1, <2>2 DEF Unmoved
  <2>4. QED
    BY <1>10, <2>3 DEF Ending
<1>15. QED
  BY <1>1, <1>2, <1>3, <1>6, <1>7, <1>11, <1>12, <1>13, <1>14, ClauseRefs

LEMMA CartesianJoinRefs ==
  ASSUME PlanInv, EdgesInv, RefsInv, At("from"), MoreSources, self.i > 1,
         Go(CartesianJoined, "from")
  PROVE  RefsInv'
<1> DEFINE K  == Len(node) + 4
           n  == Len(node) + 1
           p  == [Process(Here, "cartesian_join") EXCEPT !.root = TRUE, !.rootFifo = 1]
           u  == Logic(Paired, "logic", source.conditions, FALSE, {})
           W  == {}
<1>1. phase = "build" /\ self.step = "from" /\ self.i <= Len(self.query.sources)
  BY DEF At, MoreSources
<1>2. /\ K \in Nat /\ State \in StateOf(K) /\ Len(State.node) < K /\ State.node = node
      /\ Here \in Nat /\ Len(node) \in Nat /\ self \in PlanOf(K) /\ State.plan = self
      /\ self.query \in QueryType
  BY <1>1, Start
<1>3. "from" \in ClauseSteps \cap GoSteps
  BY DEF ClauseSteps, GoSteps
<1>4. self.i \in Nat /\ Len(self.query.sources) \in Nat /\ Len(self.query.sources) > 1
  BY <1>1, <1>2 DEF PlanOf, QueryType
<1>5. p \in NodeOf(K) /\ Newborn(p, W) /\ ~p.passive /\ n = Len(State.node) + 1
  <2>1. /\ p \in NodeOf(K) /\ p.plan = Here /\ p.waits = {} /\ p.unionEnds = << >>
        /\ p.action = "cartesian_join" /\ ~p.passive
    BY <1>2, CartesianProcess
  <2> HIDE DEF p
  <2>2. QED
    BY <1>2, <2>1 DEF Newborn
<1>6. Paired = Stage(Advance(Add(State, p), n), n) /\ CartesianJoined = Further(u)
  BY DEF Paired, CartesianJoined
<1>7. Fits(CartesianJoined, State, K, Here) /\ Paired \in StateOf(K)
      /\ Len(Paired.node) = Len(node) + 1
  BY CartesianJoinFits
<1> HIDE DEF p, n
<1>8. Grows(Paired, State, K, W)
  BY <1>2, <1>5, <1>6, ThenGrows
<1>9. Grows(u, Paired, K, W) /\ Leads(u, Paired, Len(Paired.node) + 2)
  <2>1. Len(Paired.node) + 2 <= K
    BY <1>2, <1>7
  <2>2. "logic" \in Actions \ {"read"} /\ FALSE \in BOOLEAN /\ W \in SUBSET (1..K) /\ W \subseteq W
    BY DEF Actions
  <2> HIDE DEF K
  <2>3. u = Logic(Paired, "logic", source.conditions, FALSE, W)
    OBVIOUS
  <2> HIDE DEF W, u
  <2>4. QED
    BY <1>2, <1>7, <2>1, <2>2, <2>3, LogicGrows
<1> HIDE DEF W, u
<1>10. LooseGrows(CartesianJoined, u, K, W) /\ CartesianJoined.plan.current = u.plan.current
  <2>1. u \in StateOf(K)
    BY <1>9 DEF Grows
  <2>2. QED
    BY <1>2, <1>6, <2>1, FurtherGrows
<1>11. Grows(CartesianJoined, State, K, W) /\ Leads(CartesianJoined, State, Len(Paired.node) + 2)
  <2>1. Grows(u, State, K, W) /\ Leads(u, State, Len(Paired.node) + 2)
    BY <1>2, <1>8, <1>9, GrowsTrans, LeadsOn
  <2>2. QED
    BY <1>2, <1>10, <2>1, GrowsTrans, LooseLeads DEF LooseGrows
<1>12. Ending(CartesianJoined, "from")
  <2>1. SameTask(CartesianJoined.plan, self)
    BY <1>2, <1>11 DEF Grows, Grew
  <2>2. QED
    BY <1>1, <1>4, <2>1, JoinEnding
<1>13. Awaitable(W, Here)
  BY NothingAwaited DEF W
<1>14. QED
  BY <1>1, <1>3, <1>7, <1>11, <1>12, <1>13, FollowedRefs

(* What a clause waits for: the op_true of values that are built. *)
LEMMA AwaitedNow ==
  ASSUME PlanInv, EdgesInv, RefsInv, phase = "build", self.step # "finish", NEW clause,
         NEW s, SameTask(s.plan, self)
  PROVE  Awaitable(WaitList(s, clause), Here)
<1>1. ASSUME NEW w \in WaitList(s, clause)
      PROVE  Fixed(w) /\ \E d \in ValuesOf(self) \ {Here} : w \in GraphOf(d)
  <2>1. PICK k \in DOMAIN self.constPlans : w = plans[self.constPlans[k]].opTrue
    BY <1>1 DEF WaitList, SameTask
  <2> DEFINE d == self.constPlans[k]
  <2>2. d \in Range(self.constPlans) /\ d \in ValuesOf(self) /\ w = plans[d].opTrue
    BY <2>1 DEF Range, ValuesOf
  <2> HIDE DEF d
  <2>3. d \in DOMAIN plans \ (Open \cup {Here}) /\ plans[d].step = "built" /\ ~plans[d].isUnion
    BY <2>2, ValuesDone
  <2>4. d \in Live /\ d # 1
    <3>1. d \in Pending(Here)
      BY <2>2, OthersThanValues
    <3>2. QED
      BY <2>3, <3>1, Place
  <2>5. InEnd(node, plans[d])
    BY <2>4 DEF RefsInv
  <2>6. w \in GraphOf(d) /\ ~node[w].passive
    BY <2>2, <2>3, <2>5 DEF InEnd, Stands, EndOf, GraphOf
  <2>7. w \in DOMAIN node /\ w # NULL
    <3>1. w \in DOMAIN node
      BY <2>4, <2>6 DEF EdgesInv, Homed
    <3>2. DOMAIN node = 1..Len(node)
      BY StateParts DEF PlanInv
    <3>3. QED
      BY <3>1, <3>2 DEF NULL
  <2>8. node[w].plan = d
    <3>1. Owned(d)
      BY <2>3 DEF EdgesInv
    <3>2. QED
      BY <2>2, <2>7, <3>1 DEF Owned
  <2>9. Fixed(w)
    BY <2>3, <2>6, <2>7, <2>8 DEF Fixed
  <2>10. QED
    BY <2>2, <2>3, <2>6, <2>9
<1>2. QED
  BY <1>1 DEF Awaitable

LEMMA SameGrows ==
  ASSUME NEW K \in Nat, NEW W, NEW s \in StateOf(K)
  PROVE  Grows(s, s, K, W)
<1>1. \A n \in 1..Len(s.node) : Unmoved(s.node[n], s.node[n])
  BY DEF Unmoved
<1>2. QED
  BY <1>1, StillGrows DEF SameTask, SameExits

(* A clause that the query does not have. *)
LEMMA StayRefs ==
  ASSUME PlanInv, EdgesInv, RefsInv, NEW now \in ClauseSteps, At(now),
         NEW step \in ClauseSteps \cap GoSteps, Go(State, step), Here # 1 => Ending(State, step)
  PROVE  RefsInv'
<1> DEFINE K == Len(node) + 4
           W == {}
<1>1. phase = "build" /\ self.step \in ClauseSteps
  BY DEF At
<1>2. K \in Nat /\ State \in StateOf(K) /\ Fit(State, Here, {}) /\ State.plan = self
  BY <1>1, Start
<1>3. Fits(State, State, K, Here)
  BY <1>2 DEF Fits, Grown
<1>4. Awaitable(W, Here)
  BY NothingAwaited
<1>5. Here # 1 => Follows(State)
  BY <1>1, <1>2, MemberHere DEF InClauses, Follows
<1> HIDE DEF W
<1>6. Grows(State, State, K, W)
  BY <1>2, SameGrows
<1>7. QED
  BY <1>3, <1>4, <1>5, <1>6, PlainRefs

(* WHERE and HAVING. *)
LEMMA ConditionRefs ==
  ASSUME PlanInv, EdgesInv, RefsInv, NEW now \in ClauseSteps, At(now), NEW K, K = Len(node) + 4,
         NEW waits \in SUBSET (1..K), Awaitable(waits, Here),
         NEW step \in ClauseSteps \cap GoSteps,
         Go(Logic(State, "logic", 1, FALSE, waits), step),
         Ending(Logic(State, "logic", 1, FALSE, waits), step)
  PROVE  RefsInv'
<1> DEFINE u == Logic(State, "logic", 1, FALSE, waits)
<1>1. phase = "build"
  BY DEF At
<1>2. K \in Nat /\ State \in StateOf(K) /\ Here \in Nat /\ Len(State.node) + 2 <= K
  BY <1>1, Start
<1>3. "logic" \in Actions \ {"read"} /\ FALSE \in BOOLEAN /\ waits \subseteq waits
  BY DEF Actions
<1>4. Grows(u, State, K, waits) /\ Leads(u, State, Len(State.node) + 2)
  BY <1>2, <1>3, LogicGrows
<1>5. Fits(u, State, K, Here)
  BY ConditionFits
<1>6. Go(u, step) /\ Ending(u, step)
  OBVIOUS
<1> HIDE DEF u
<1>7. QED
  BY <1>4, <1>5, <1>6, FollowedRefs

(* A member without GROUP BY and DISTINCT reads one table or subquery and has no WHERE. *)
LEMMA OneSource ==
  ASSUME PlanInv, EdgesInv, RefsInv, phase = "build", self.isUnion, ~Constant(self.query)
  PROVE  /\ ~self.query.having
         /\ ~self.query.group /\ ~self.query.distinct =>
              Len(self.query.sources) = 1 /\ ~self.query.where
BY MemberHere DEF EndsInProcess

LEMMA WhereRefs ==
  ASSUME PlanInv, EdgesInv, RefsInv, Where
  PROVE  RefsInv'
<1> DEFINE K == Len(node) + 4
           W == WaitList(State, "where")
           u == Logic(State, "logic", 1, FALSE, W)
<1>1. phase = "build" /\ At("from") /\ self.step = "from" /\ self.i > Len(self.query.sources)
  BY DEF Where, At
<1>2. K \in Nat /\ State \in StateOf(K) /\ State.plan = self
  BY <1>1, Start
<1>3. W \in SUBSET (1..K)
  <2>1. 4 \in Nat
    OBVIOUS
  <2>2. ValuesBuilt(State, K)
    BY <1>1, <1>2, <2>1, ValuesBuiltNow
  <2>3. QED
    BY <1>2, <2>2, WaitListType
<1>4. "from" \in ClauseSteps /\ "group" \in ClauseSteps \cap GoSteps
  BY DEF ClauseSteps, GoSteps
<1>5. Awaitable(W, Here)
  BY <1>1, <1>2, AwaitedNow DEF SameTask
<1>6. CASE self.query.where
  <2>1. Go(u, "group")
    BY <1>6 DEF Where
  <2>2. SameTask(u.plan, self)
    <3>1. "logic" \in Actions \ {"read"} /\ FALSE \in BOOLEAN /\ W \subseteq W
      BY DEF Actions
    <3>2. Here \in Nat /\ Len(State.node) + 2 <= K
      BY <1>1, Start
    <3> HIDE DEF W, K
    <3>3. Grows(u, State, K, W)
      BY <1>2, <1>3, <3>1, <3>2, LogicGrows
    <3> HIDE DEF u
    <3>4. QED
      BY <1>2, <3>3 DEF Grows, Grew
  <2> HIDE DEF u
  <2>3. Ending(u, "group")
    <3>1. ASSUME NEW P, AtStep(P, u.plan, "group"), self.isUnion, ~Constant(self.query), Real(P)
          PROVE  FALSE
      <4>1. P.query = self.query /\ P.step = "group"
        BY <2>2, <3>1 DEF AtStep, SameTask
      <4>2. ~self.query.group /\ ~self.query.distinct
        BY <3>1, <4>1 DEF Real
      <4>3. QED
        BY <1>1, <1>6, <3>1, <4>2, OneSource
    <3>2. QED
      BY <3>1 DEF Ending
  <2>4. QED
    BY <1>1, <1>3, <1>4, <1>5, <2>1, <2>3, ConditionRefs DEF u
<1>7. CASE ~self.query.where
  <2>1. Go(State, "group")
    BY <1>7 DEF Where
  <2>2. ASSUME Here # 1 PROVE Ending(State, "group")
    <3>1. ASSUME NEW P, AtStep(P, State.plan, "group"), self.isUnion, ~Constant(self.query), Real(P)
          PROVE  ~State.node[State.plan.current].passive
      <4>1. P.query = self.query /\ P.step = "group" /\ State.node = node
        BY <1>1, <1>2, <3>1, Start DEF AtStep
      <4>2. ~self.query.group /\ ~self.query.distinct
        BY <3>1, <4>1 DEF Real
      <4>3. self.i > 1
        BY <1>1, <3>1, <4>2, OneSource
      <4>4. Real(self)
        BY <1>1, <4>2, <4>3 DEF Real
      <4>5. InClauses(node, self)
        BY <1>1, <2>2, MemberHere
      <4>6. QED
        BY <1>1, <1>2, <1>4, <3>1, <4>1, <4>4, <4>5 DEF InClauses
    <3>2. QED
      BY <3>1 DEF Ending
  <2>3. QED
    BY <1>1, <1>4, <2>1, <2>2, StayRefs
<1>8. QED
  BY <1>6, <1>7

LEMMA HavingRefs ==
  ASSUME PlanInv, EdgesInv, RefsInv, Having
  PROVE  RefsInv'
<1> DEFINE K == Len(node) + 4
           W == {}
           u == Logic(State, "logic", 1, FALSE, W)
<1>1. phase = "build" /\ At("having") /\ self.step = "having"
  BY DEF Having, At
<1>2. State.plan = self /\ State.node = node
  BY <1>1, Start
<1>3. W \in SUBSET (1..K) /\ Awaitable(W, Here)
  BY NothingAwaited
<1>4. "having" \in ClauseSteps /\ "operation" \in ClauseSteps \cap GoSteps
  BY DEF ClauseSteps, GoSteps
<1>5. CASE self.query.having
  <2>1. Go(u, "operation")
    BY <1>5 DEF Having
  <2>2. Ending(u, "operation")
    <3>1. ~(self.isUnion /\ ~Constant(self.query))
      BY <1>1, <1>5, OneSource
    <3> HIDE DEF u
    <3>2. QED
      BY <3>1 DEF Ending
  <2> HIDE DEF W
  <2>3. QED
    BY <1>1, <1>3, <1>4, <2>1, <2>2, ConditionRefs
<1>6. CASE ~self.query.having
  <2>1. Go(State, "operation")
    BY <1>6 DEF Having
  <2>2. ASSUME Here # 1 PROVE Ending(State, "operation")
    <3>1. Real(self)
      BY <1>1 DEF Real
    <3>2. InClauses(node, self)
      BY <1>1, <2>2, MemberHere
    <3>3. self.isUnion /\ ~Constant(self.query) => ~node[self.current].passive
      BY <1>1, <1>4, <3>1, <3>2 DEF InClauses
    <3>4. QED
      BY <1>2, <3>3 DEF Ending
  <2>3. QED
    BY <1>1, <1>4, <2>1, <2>2, StayRefs
<1>7. QED
  BY <1>5, <1>6

(* A process is added behind the clauses so far. *)
LEMMA NextLeads ==
  ASSUME NEW K \in Nat, NEW W, NEW b \in StateOf(K), NEW s, Grows(s, b, K, W), Len(s.node) < K,
         NEW process \in NodeOf(K), Newborn(process, W), ~process.passive,
         NEW n, n = Len(s.node) + 1
  PROVE  LET t == Stage(Advance(Add(s, process), n), n)
         IN  Grows(t, b, K, W) /\ Leads(t, b, n) /\ ~t.node[t.plan.current].passive
<1> DEFINE t == Stage(Advance(Add(s, process), n), n)
<1>1. s \in StateOf(K)
  BY DEF Grows
<1>2. Grows(t, s, K, W) /\ Leads(t, s, n) /\ ~t.node[n].passive
  BY <1>1, ThenGrows
<1> HIDE DEF t
<1>3. Grows(t, b, K, W)
  BY <1>2, GrowsTrans
<1>4. Leads(t, b, n)
  BY <1>2, LeadsOn
<1>5. ~t.node[t.plan.current].passive
  BY <1>2 DEF Leads
<1>6. QED
  BY <1>3, <1>4, <1>5 DEF t

LEMMA GroupRefs ==
  ASSUME PlanInv, EdgesInv, RefsInv, Group
  PROVE  RefsInv'
<1> DEFINE K == Len(node) + 4
           n == Len(node) + 1
           m == Newest(Grouped) + 1
           q == Process(Here, "distinct")
           W == {}
<1>1. phase = "build" /\ At("group") /\ self.step = "group" /\ Go(Distinct, "having")
  BY DEF Group, At, Distinct, Grouped, GroupProcess
<1>2. /\ K \in Nat /\ State \in StateOf(K) /\ Len(State.node) < K /\ n = Len(State.node) + 1
      /\ Here \in Nat /\ Len(State.node) \in Nat /\ Len(State.node) + 1 < K /\ State.plan = self
      /\ State.node = node
  <2>1. State.node = node
    BY <1>1, Start
  <2>2. QED
    BY <1>1, <2>1, Start
<1>3. "group" \in ClauseSteps /\ "having" \in ClauseSteps \cap GoSteps
  BY DEF ClauseSteps, GoSteps
<1>4. Fits(Distinct, State, K, Here) /\ Len(Grouped.node) <= Len(State.node) + 1
      /\ Grouped \in StateOf(K)
  BY <1>1, DistinctFits, GroupFits DEF Fits
<1>5. Awaitable(W, Here)
  BY NothingAwaited
<1>6. GroupProcess \in NodeOf(K) /\ Newborn(GroupProcess, W) /\ ~GroupProcess.passive
  BY <1>2, GroupProcessType DEF Newborn
<1>7. q \in NodeOf(K) /\ Newborn(q, W) /\ ~q.passive
  <2>1. q \in NodeOf(K)
    BY <1>2, ProcessType DEF Actions
  <2>2. QED
    BY <2>1 DEF Process, Newborn
<1>8. m = Len(Grouped.node) + 1 /\ Len(Grouped.node) < K
  BY <1>2, <1>4, StateParts DEF Newest
<1> HIDE DEF W, q, n, m, K
<1>9. Grows(State, State, K, W)
  BY <1>2, SameGrows
<1>10. CASE self.query.group
  <2>1. Grouped = Stage(Advance(Add(State, GroupProcess), n), n)
    BY <1>10 DEF Grouped, n
  <2>2. Grows(Grouped, State, K, W) /\ Leads(Grouped, State, n)
        /\ ~Grouped.node[Grouped.plan.current].passive
    BY <1>2, <1>6, <1>9, <2>1, NextLeads
  <2>3. \E to : Grows(Distinct, State, K, W) /\ Leads(Distinct, State, to)
                /\ ~Distinct.node[Distinct.plan.current].passive
    <3>1. CASE self.query.distinct
      <4>1. Distinct = Stage(Advance(Add(Grouped, q), m), m)
        BY <3>1 DEF Distinct, q, m
      <4>2. QED
        BY <1>2, <1>7, <1>8, <2>2, <4>1, NextLeads
    <3>2. CASE ~self.query.distinct
      BY <2>2, <3>2 DEF Distinct
    <3>3. QED
      BY <3>1, <3>2
  <2>4. Ending(Distinct, "having")
    BY <2>3 DEF Ending
  <2>5. QED
    BY <1>1, <1>3, <1>4, <1>5, <2>3, <2>4, FollowedRefs DEF K
<1>11. CASE ~self.query.group
  <2>1. Grouped = State
    BY <1>11 DEF Grouped
  <2>2. CASE self.query.distinct
    <3>1. Distinct = Stage(Advance(Add(State, q), m), m)
      BY <2>1, <2>2 DEF Distinct, q, m
    <3>2. Grows(Distinct, State, K, W) /\ Leads(Distinct, State, m)
          /\ ~Distinct.node[Distinct.plan.current].passive
      BY <1>2, <1>7, <1>8, <1>9, <2>1, <3>1, NextLeads
    <3>3. Ending(Distinct, "having")
      BY <3>2 DEF Ending
    <3>4. QED
      BY <1>1, <1>3, <1>4, <1>5, <3>2, <3>3, FollowedRefs DEF K
  <2>3. CASE ~self.query.distinct
    <3>1. Distinct = State
      BY <2>1, <2>3 DEF Distinct
    <3>2. ASSUME Here # 1 PROVE Ending(State, "having")
      <4>1. Real(self)
        BY <1>1, <1>11, <2>3 DEF Real
      <4>2. InClauses(node, self)
        BY <1>1, <3>2, MemberHere
      <4>3. self.isUnion /\ ~Constant(self.query) => ~node[self.current].passive
        BY <1>1, <1>3, <4>1, <4>2 DEF InClauses
      <4>4. QED
        BY <1>2, <4>3 DEF Ending
    <3>3. QED
      BY <1>1, <1>3, <3>1, <3>2, StayRefs
  <2>4. QED
    BY <2>2, <2>3
<1>12. QED
  BY <1>10, <1>11

-----------------------------------------------------------------------------
(* The steps that call a plan, and the one that begins this one. *)

(* The nodes are as they were, and the graph has the same. *)
LEMMA QuietRefs ==
  ASSUME PlanInv, EdgesInv, phase = "build", NEW s, s.node = node, s.plan.graph = self.graph,
         NEW W
  PROVE  Carries(s, W) /\ Holds(s, Here) /\ Firm(s, Here)
<1>1. Here \in Live /\ self = plans[Here] /\ Range(s.plan.graph) = GraphOf(Here)
  BY Place DEF self, Here, GraphOf
<1>2. \A n \in GraphOf(Here) : n \in 1..Len(node)
  <2>1. DOMAIN node = 1..Len(node)
    BY StateParts DEF PlanInv
  <2>2. QED
    BY <1>1, <2>1 DEF EdgesInv, Homed
<1>3. Carries(s, W)
  BY <1>1, <1>2 DEF Carries, Refers
<1>4. Holds(s, Here)
  BY <1>1 DEF Holds
<1>5. Firm(s, Here)
  BY DEF Firm, Fixed
<1>6. QED
  BY <1>3, <1>4, <1>5

LEMMA ValuelessFacts ==
  ASSUME NEW q \in Valueless
  PROVE  q.consts = << >> /\ q.unions = << >> /\ SubqueriesOf(q) \subseteq Valueless
<1>1. PICK S \in SUBSET Nested :
        /\ q \in S
        /\ \A r \in S : r.consts = << >> /\ r.unions = << >> /\ SubqueriesOf(r) \subseteq S
  BY DEF Valueless
<1>2. S \subseteq Valueless
  BY <1>1 DEF Valueless
<1>3. QED
  BY <1>1, <1>2

(* The plan that is being built. *)
LEMMA HereKind ==
  ASSUME PlanInv, EdgesInv, RefsInv, phase = "build"
  PROVE  /\ self.query \in Queries \cup Nested /\ self.query \in QueryType
         /\ Here # 1 => self.query \in Nested
         /\ Here = 1 => self.query \in Queries /\ ~self.isUnion
         /\ self.step = "consts" => self.graph = << >>
         /\ self.query.consts = << >> => self.constPlans = << >>
         /\ "disable" \in {self.step, self.next} => self.query.op = "delete"
<1>1. Here \in Live /\ Here \in DOMAIN plans /\ self = plans[Here]
  BY Place DEF self, Here
<1>2. KindOf(Here)
  BY <1>1 DEF RefsInv
<1>3. self.query \in Queries \cup Nested
  BY <1>1, <1>2 DEF KindOf
<1>4. self.query \in QueryType
  BY Building
<1>5. QED
  BY <1>1, <1>2, <1>3, <1>4 DEF KindOf

LEMMA IndexIn ==
  ASSUME NEW S, NEW seq \in Seq(S), NEW i \in Nat \ {0}, i <= Len(seq)
  PROVE  i \in DOMAIN seq /\ seq[i] \in S /\ seq # << >>
<1>1. i \in DOMAIN seq
  OBVIOUS
<1>2. seq # << >>
  BY <1>1
<1>3. QED
  BY <1>1, <1>2, ElementOfSeq

LEMMA BuildConstRefs ==
  ASSUME PlanInv, EdgesInv, RefsInv, BuildConst
  PROVE  RefsInv'
<1> DEFINE K == Len(node) + 4
           q == self.query.consts[self.i].query
           W == {}
           s == ValueNoted
<1>1. /\ phase = "build" /\ At("consts") /\ self.step = "consts"
      /\ Call(s, "consts", q, NULL, FALSE) /\ self.i <= Len(self.query.consts)
  BY DEF BuildConst, At, ValueNoted
<1>2. K \in Nat /\ self \in PlanOf(K)
  BY <1>1, Start
<1>3. /\ s \in StateOf(K) /\ Fit(s, Here, {}) /\ s.node = node
      /\ s.plan.graph = self.graph /\ s.plan.query = self.query
      /\ s.plan.isUnion = self.isUnion /\ s.plan.entry = self.entry
      /\ s.plan.next = self.next
      /\ Noted(s, "consts") /\ Ready(s, "consts", NULL)
  BY <1>1, BuildConstFits
<1>4. Kin(s, Here)
  BY <1>3 DEF Fit
<1>5. q \in Nested /\ self.query.consts # << >> /\ self.graph = << >>
  <2>1. self.query \in QueryType /\ self.graph = << >>
    BY <1>1, HereKind
  <2>2. self.i \in Nat \ {0}
    BY <1>2 DEF PlanOf
  <2> DEFINE S == [query : Nested, at : {"where", "op"}]
  <2>3. self.query.consts \in Seq(S)
    BY <2>1 DEF QueryType
  <2>4. \A e \in S : e.query \in Nested
    OBVIOUS
  <2> HIDE DEF S
  <2>5. self.query.consts # << >> /\ self.query.consts[self.i] \in S
    BY <1>1, <2>2, <2>3, IndexIn
  <2>6. QED
    BY <2>1, <2>4, <2>5 DEF q
<1>6. Callable("consts", q, FALSE)
  BY <1>5 DEF Callable
<1>7. Beside("consts", NULL, s)
  BY DEF Beside
<1> HIDE DEF K, q, s
<1>8. Carries(s, W) /\ Holds(s, Here) /\ Firm(s, Here)
  BY <1>1, <1>3, QuietRefs
<1>9. \A P : P.step = "consts" /\ P.isUnion = s.plan.isUnion /\ SameNames(P, s.plan)
             /\ P.query = s.plan.query
           => InClauses(s.node, P) /\ InEnd(s.node, P)
  BY DEF InClauses, InEnd, ClauseSteps, AfterSteps
<1>10. "consts" \in {"consts"} \cup CallSteps /\ self.step \notin {"finish", "built"}
  BY <1>1
<1>11. QED
  BY <1>1, <1>2, <1>3, <1>4, <1>6, <1>7, <1>8, <1>9, <1>10, CallRefs

LEMMA BuildUnionRefs ==
  ASSUME PlanInv, EdgesInv, RefsInv, Supported, BuildUnion
  PROVE  RefsInv'
<1> DEFINE K == Len(node) + 4
           s == Further(State)
           q == self.query.unions[self.i]
           W == {}
<1>1. /\ phase = "build" /\ self.step = "union" /\ Call(s, "union member", q, NULL, TRUE)
      /\ self.i <= Len(self.query.unions)
  BY DEF BuildUnion, At
<1>2. K \in Nat /\ State \in StateOf(K) /\ Fit(State, Here, {}) /\ State.plan = self
      /\ State.node = node /\ self \in PlanOf(K)
  BY <1>1, Start
<1>3. q \in Nested /\ Member(q) /\ self.query.unions # << >>
  <2>1. self.query \in QueryType /\ self.query \in Queries \cup Nested
    BY <1>1, HereKind
  <2>2. self.i \in Nat \ {0}
    BY <1>2 DEF PlanOf
  <2>3. self.query.unions \in Seq(Nested)
    BY <2>1 DEF QueryType
  <2>4. self.i \in DOMAIN self.query.unions /\ q \in Nested /\ self.query.unions # << >>
    BY <1>1, <2>2, <2>3, IndexIn
  <2>5. Member(q)
    BY <2>1, <2>4 DEF Supported
  <2>6. QED
    BY <2>4, <2>5
<1> HIDE DEF K, q
<1>4. s \in StateOf(K) /\ Fit(s, Here, {}) /\ SameNames(s.plan, self) /\ s.node = node
  BY <1>2, FurtherFit
<1>5. s.plan.query = self.query /\ s.plan.isUnion = self.isUnion /\ s.plan.next = self.next
  BY <1>2 DEF Further, StateOf, PlanOf
<1> HIDE DEF s
<1>6. Noted(s, "union member") /\ Ready(s, "union member", NULL) /\ s.plan.entry = self.entry
  BY <1>4 DEF Noted, Ready, SameNames
<1>7. "union member" \in {"consts"} \cup CallSteps /\ self.step \notin {"finish", "built"}
  BY <1>1 DEF CallSteps
<1>8. Callable("union member", q, TRUE) /\ Beside("union member", NULL, s) /\ Kin(s, Here)
  BY <1>3, <1>4 DEF Callable, Beside, Fit
<1>9. Carries(s, W) /\ Holds(s, Here) /\ Firm(s, Here)
  BY <1>1, <1>4, QuietRefs DEF SameNames
<1>10. ASSUME Here # 1, NEW P, P.step = "union member", P.isUnion = s.plan.isUnion,
              SameNames(P, s.plan), P.query = s.plan.query
       PROVE  InClauses(s.node, P) /\ InEnd(s.node, P)
  <2>1. InEnd(node, self)
    BY <1>1, <1>10, MemberHere
  <2>2. /\ P.graph = self.graph /\ P.current = self.current /\ P.opTrue = self.opTrue
        /\ P.isUnion = self.isUnion /\ P.query = self.query
    BY <1>4, <1>5, <1>10 DEF SameNames
  <2>3. InEnd(node, P)
    BY <1>1, <1>10, <2>1, <2>2 DEF InEnd, AfterSteps, Stands, EndOf
  <2>4. InClauses(node, P)
    BY <1>10 DEF InClauses, ClauseSteps
  <2>5. QED
    BY <1>4, <2>3, <2>4
<1>11. QED
  BY <1>1, <1>2, <1>4, <1>5, <1>6, <1>7, <1>8, <1>9, <1>10, CallRefs

(* A source that is a subquery. *)
LEMMA SourceQuery ==
  ASSUME PlanInv, EdgesInv, RefsInv, Supported, phase = "build",
         self.i <= Len(self.query.sources), source.kind = "subquery"
  PROVE  /\ source.query \in Nested /\ self.query.sources # << >>
         /\ Bare(Here) => source.query \in Valueless
<1>1. /\ self.query \in QueryType /\ self.query \in Queries \cup Nested
      /\ Here # 1 => self.query \in Nested
      /\ Here = 1 => self.query \in Queries
  BY HereKind
<1>2. self.i \in Nat \ {0} /\ self = plans[Here]
  BY Start DEF PlanOf
<1>3. self.query.sources \in Seq(Sources)
  BY <1>1 DEF QueryType
<1>4. self.i \in DOMAIN self.query.sources /\ source \in Sources /\ self.query.sources # << >>
  BY <1>2, <1>3, IndexIn DEF source
<1>5. source.query \in SubqueriesOf(self.query)
  BY <1>4 DEF SubqueriesOf, source
<1>6. source.query \in Nested
  BY <1>4 DEF Sources
<1>7. ASSUME Bare(Here) PROVE source.query \in Valueless
  <2>1. CASE self.query \in Valueless
    BY <1>5, <2>1, ValuelessFacts
  <2>2. CASE self.query.op = "delete"
    <3>1. self.query \notin Nested
      BY <2>2 DEF Supported
    <3>2. self.query \in Queries
      BY <1>1, <3>1
    <3>3. SubqueriesOf(self.query) \subseteq Valueless
      BY <2>2, <3>2 DEF Supported
    <3>4. QED
      BY <1>5, <3>3
  <2>3. QED
    BY <1>2, <1>7, <2>1, <2>2 DEF Bare
<1>8. QED
  BY <1>4, <1>6, <1>7

(* Numbers of the plan that is being built. *)
LEMMA HereNumbers ==
  ASSUME PlanInv, EdgesInv, phase = "build"
  PROVE  /\ self.i \in Nat /\ Len(self.query.sources) \in Nat
         /\ self.i > 1 /\ self.i <= Len(self.query.sources) => Len(self.query.sources) > 1
         /\ DOMAIN node = 1..Len(node)
         /\ \A n \in GraphOf(Here) : n \in 1..Len(node) /\ n # Len(node) + 1
<1>1. self.i \in Nat /\ Len(self.query.sources) \in Nat /\ State.node = node /\ Len(node) \in Nat
  <2> DEFINE K == Len(node) + 4
  <2>1. self \in PlanOf(K) /\ self.query \in QueryType /\ State.node = node /\ Len(node) \in Nat
    BY Start
  <2> HIDE DEF K
  <2>2. self.i \in Nat
    BY <2>1 DEF PlanOf
  <2>3. Len(self.query.sources) \in Nat
    BY <2>1 DEF QueryType
  <2>4. QED
    BY <2>1, <2>2, <2>3
<1>2. self.i > 1 /\ self.i <= Len(self.query.sources) => Len(self.query.sources) > 1
  BY <1>1
<1>3. DOMAIN node = 1..Len(node)
  BY StateParts DEF PlanInv
<1>4. \A n \in GraphOf(Here) : n \in 1..Len(node)
  BY Start DEF Fit, Kin
<1>5. \A n \in 1..Len(node) : n # Len(node) + 1
  BY <1>1
<1>6. QED
  BY <1>1, <1>2, <1>3, <1>4, <1>5

LEMMA ReadSubqueryRefs ==
  ASSUME PlanInv, EdgesInv, RefsInv, Supported, MoreSources, source.kind = "subquery",
         NEW process, \A K \in Nat : process \in NodeOf(K),
         process.plan = Here, ~process.freed, ~process.passive,
         \A b \in 0..1 : process.out[b] = NULL, process.waits = {}, process.unionEnds = << >>,
         NEW step \in {"from subquery", "join subquery"}, step = "join subquery" => self.i > 1,
         Call(Add(State, process), step, source.query, Len(node) + 1, FALSE)
  PROVE  RefsInv'
<1> DEFINE K == Len(node) + 4
           W == {}
           s == Add(State, process)
<1>1. phase = "build" /\ self.step = "from" /\ self.i <= Len(self.query.sources)
  BY DEF MoreSources, At
<1>2. /\ K \in Nat /\ State \in StateOf(K) /\ Fit(State, Here, {}) /\ State.plan = self
      /\ State.node = node /\ Len(State.node) < K /\ Len(node) \in Nat
      /\ self.opTrue \in Range(self.graph) /\ self.opFalse \in Range(self.graph)
      /\ self \in PlanOf(K) /\ self.query \in QueryType /\ self = plans[Here]
  BY <1>1, Start DEF ClauseSteps
<1>3. process \in NodeOf(K)
  BY <1>2
<1>4. source.query \in Nested /\ self.query.sources # << >>
      /\ (Bare(Here) => source.query \in Valueless)
  BY <1>1, SourceQuery
<1>5. Newborn(process, W)
  BY <1>4 DEF Newborn
<1>6. Fits(s, State, K, Here) /\ Added(s, State, process)
  <2>1. /\ process.plan = Here /\ ~process.freed /\ \A b \in 0..1 : process.out[b] = NULL
        /\ State \in StateOf(K) /\ Fit(State, Here, {}) /\ Len(State.node) < K
    BY <1>2
  <2>2. QED
    BY ONLY <1>2, <1>3, <2>1, NewFit
<1>7. Base(State, Here, K) /\ Here \in {Here} \cup Pending(Here)
  BY <1>1, StartBase
<1>8. Call(s, step, source.query, Len(node) + 1, FALSE)
  OBVIOUS
<1>9. Grows(s, State, K, W) /\ s.plan.current = self.current
  <2>1. K \in Nat /\ State \in StateOf(K) /\ Len(State.node) < K /\ State.plan = self
    BY <1>2
  <2> HIDE DEF K, W
  <2>2. Grows(s, State, K, W)
    BY ONLY <1>3, <1>5, <2>1, AddGrows
  <2>3. s.plan.current = State.plan.current
    BY ONLY <1>3, <2>1, AddGrown
  <2>4. QED
    BY <2>1, <2>2, <2>3
<1> HIDE DEF K, s
<1>10. Carries(s, {}) /\ Holds(s, Here) /\ Firm(s, Here)
       /\ \A n \in DOMAIN node : Unmoved(s.node[n], node[n])
  BY <1>1, <1>2, <1>7, <1>9, GrewRefs
<1>11. s \in StateOf(K) /\ Fit(s, Here, {}) /\ Grown(s, State) /\ Kin(s, Here)
  BY <1>6 DEF Fits, Fit
<1>12. SameTask(s.plan, self) /\ SameExits(s.plan, self) /\ s.plan.next = self.next
       /\ Range(self.graph) \subseteq Range(s.plan.graph)
  BY <1>2, <1>9 DEF Grows, Grew
<1>13. Noted(s, step)
  BY <1>2, <1>11 DEF Noted, Grown
<1>14. Ready(s, step, Len(node) + 1)
  BY <1>2, <1>6, <1>11 DEF Ready, Grown, Added
<1>15. step \in {"consts"} \cup CallSteps /\ self.step \notin {"finish", "built"}
       /\ step # "consts" /\ step # "union member"
  BY <1>1 DEF CallSteps
<1>16. Callable(step, source.query, FALSE)
  <2>1. step = "join subquery" => Len(self.query.sources) > 1
    BY <1>1, HereNumbers
  <2>2. QED
    BY <1>4, <1>15, <2>1 DEF Callable
<1>17. Beside(step, Len(node) + 1, s)
  <2>1. self.opTrue # Len(node) + 1 /\ self.opFalse # Len(node) + 1
    BY <1>1, <1>2, HereNumbers DEF GraphOf
  <2>2. QED
    BY <1>12, <2>1 DEF Beside, SameExits
<1>18. ASSUME Here # 1, NEW P, P.step = step, P.isUnion = s.plan.isUnion,
              SameNames(P, s.plan), P.query = s.plan.query
       PROVE  InClauses(s.node, P) /\ InEnd(s.node, P)
  <2>1. InClauses(node, self)
    BY <1>1, <1>18, MemberHere
  <2>2. P.current = self.current /\ P.opTrue = self.opTrue /\ P.opFalse = self.opFalse
        /\ Range(self.graph) \subseteq Range(P.graph)
    BY <1>9, <1>12, <1>18 DEF SameNames, SameExits
  <2>3. /\ Stands(node, self, self.opTrue) /\ self.opTrue # self.opFalse
        /\ self.current \in Range(self.graph) \ {self.opTrue, self.opFalse}
    BY <1>1, <2>1 DEF InClauses, ClauseSteps
  <2>4. ~Real(P)
    BY <1>18 DEF Real
  <2>5. ~s.node[self.opTrue].passive
    <3>1. self.opTrue \in DOMAIN node
      BY <1>1, <1>2, HereNumbers DEF GraphOf
    <3>2. QED
      BY <1>10, <2>3, <3>1 DEF Unmoved, Stands
  <2>6. InClauses(s.node, P)
    BY <2>2, <2>3, <2>4, <2>5 DEF InClauses, Stands
  <2>7. InEnd(s.node, P)
    BY <1>18 DEF InEnd, AfterSteps
  <2>8. QED
    BY <2>6, <2>7
<1>19. s.plan.query = self.query /\ s.plan.isUnion = self.isUnion /\ s.plan.entry = self.entry
  BY <1>12 DEF SameTask
<1>20. QED
  BY <1>1, <1>2, <1>8, <1>10, <1>11, <1>12, <1>13, <1>14, <1>15, <1>16, <1>17, <1>18, <1>19, CallRefs

LEMMA SubqueryRefs ==
  ASSUME PlanInv, EdgesInv, RefsInv, Supported, FromSubquery \/ JoinSubquery
  PROVE  RefsInv'
<1>1. MoreSources /\ phase = "build" /\ Here \in Nat /\ source.kind = "subquery"
  BY Building DEF FromSubquery, JoinSubquery, MoreSources, At
<1> DEFINE read  == Process(Here, "read")
           other == [read EXCEPT !.secondary = TRUE]
<1>2. /\ \A K \in Nat : read \in NodeOf(K)
      /\ read.plan = Here /\ ~read.freed /\ ~read.passive /\ \A b \in 0..1 : read.out[b] = NULL
      /\ read.waits = {} /\ read.unionEnds = << >>
  BY <1>1, ProcessType DEF Process, Actions
<1>3. 0 \in Nat
  OBVIOUS
<1> HIDE DEF read
<1>4. /\ \A K \in Nat : other \in NodeOf(K)
      /\ other.plan = Here /\ ~other.freed /\ ~other.passive
      /\ \A b \in 0..1 : other.out[b] = NULL
      /\ other.waits = {} /\ other.unionEnds = << >>
  <2>1. \A K \in Nat : other \in NodeOf(K)
    BY <1>2, NodeFields
  <2>2. read \in NodeOf(0)
    BY <1>2, <1>3
  <2>3. other.plan = Here /\ ~other.freed /\ ~other.passive /\ other.out = read.out
    BY <1>2, <2>2 DEF NodeOf
  <2>4. other.waits = read.waits /\ other.unionEnds = read.unionEnds
    BY <2>2 DEF NodeOf
  <2>5. QED
    BY <1>2, <2>1, <2>3, <2>4
<1> HIDE DEF other
<1>5. CASE FromSubquery
  <2>1. Call(Add(State, read), "from subquery", source.query, Len(node) + 1, FALSE)
    BY <1>5 DEF FromSubquery, read
  <2>2. QED
    BY <1>1, <1>2, <2>1, ReadSubqueryRefs
<1>6. CASE JoinSubquery
  <2>1. Call(Add(State, other), "join subquery", source.query, Len(node) + 1, FALSE) /\ self.i > 1
    BY <1>6 DEF JoinSubquery, other, read
  <2>2. QED
    BY <1>1, <1>4, <2>1, ReadSubqueryRefs
<1>7. QED
  BY <1>5, <1>6

LEMMA SkeletonGrows ==
  ASSUME PlanInv, EdgesInv, phase = "build", NEW K, K = Len(node) + 4, NEW W
  PROVE  Grows(Skeleton, State, K, W)
<1> DEFINE p  == Process(Here, "no_op")
           e  == Passive(Here)
           a1 == Add(State, e)
           a2 == Add(a1, p)
           a3 == Add(a2, p)
<1>1. /\ K \in Nat /\ State \in StateOf(K) /\ Here \in Nat /\ Len(node) \in Nat
      /\ Len(State.node) = Len(node) /\ Len(State.node) < K
  BY Start
<1>2. p \in NodeOf(K) /\ Newborn(p, W) /\ e \in NodeOf(K) /\ Newborn(e, W)
  BY <1>1, ProcessType, PassiveType DEF Process, Passive, Actions, Newborn
<1> HIDE DEF p, e
<1>3. Grows(a1, State, K, W) /\ Len(a1.node) = Len(node) + 1 /\ a1 \in StateOf(K)
  BY <1>1, <1>2, AddGrows, AddGrown DEF Added
<1> HIDE DEF a1
<1>4. Len(a1.node) < K
  BY <1>1, <1>3
<1>5. Grows(a2, a1, K, W) /\ Len(a2.node) = Len(node) + 2 /\ a2 \in StateOf(K)
  <2>1. Len(a1.node) + 1 = Len(node) + 2
    BY <1>1, <1>3
  <2>2. QED
    BY <1>1, <1>2, <1>3, <1>4, <2>1, AddGrows, AddGrown DEF Added
<1> HIDE DEF a2
<1>6. Len(a2.node) < K
  BY <1>1, <1>5
<1>7. Grows(a3, a2, K, W)
  BY <1>1, <1>2, <1>5, <1>6, AddGrows
<1> HIDE DEF a3
<1>8. Grows(a2, State, K, W)
  BY <1>1, <1>3, <1>5, GrowsTrans
<1>9. Grows(a3, State, K, W)
  BY <1>1, <1>7, <1>8, GrowsTrans
<1>10. Skeleton = a3
  BY DEF Skeleton, a3, a2, a1, p, e
<1>11. QED
  BY <1>9, <1>10

LEMMA ConstructRefs ==
  ASSUME PlanInv, EdgesInv, RefsInv, Construct
  PROVE  RefsInv'
<1> DEFINE K == Len(node) + 4
           n == Len(node) + 1
           s == Constructed
           W == {}
<1>1. phase = "build" /\ At("consts") /\ self.step = "consts"
  BY DEF Construct, At
<1>2. K \in Nat /\ Len(node) \in Nat
  BY <1>1, Start
<1>3. Go(s, "from")
  <2>1. Len(node) + 1 + 1 = Len(node) + 2 /\ Len(node) + 1 + 2 = Len(node) + 3
    BY <1>2
  <2>2. QED
    BY <2>1 DEF Construct, Constructed, Skeleton
<1>4. /\ s \in StateOf(K) /\ Fit(s, Here, {})
      /\ s.node = Skeleton.node /\ s.plan.graph = Skeleton.plan.graph
      /\ s.plan.query = Skeleton.plan.query /\ s.plan.isUnion = Skeleton.plan.isUnion
      /\ s.plan.entry = Skeleton.plan.entry /\ s.plan.next = Skeleton.plan.next
      /\ s.plan.constPlans = self.constPlans
      /\ s.plan.i = 1 /\ s.plan.current = n /\ s.plan.opTrue = n + 1
      /\ s.plan.opFalse = n + 2 /\ {n, n + 1, n + 2} \subseteq Range(s.plan.graph)
      /\ ~s.node[n + 1].passive
  BY <1>1, ConstructFits
<1>5. Here \notin Range(self.constPlans) /\ Base(State, Here, K) /\ Here \in {Here} \cup Pending(Here)
  BY <1>1, OthersThanValues, StartBase
<1>6. Grows(Skeleton, State, K, W)
  BY <1>1, SkeletonGrows
<1>7. "disable" \in {self.step, self.next} => self.query.op = "delete"
  BY <1>1, HereKind
<1>8. n # n + 1 /\ n # n + 2 /\ n + 1 # n + 2
  BY <1>2
<1> HIDE DEF K, n, s, W
<1>9. /\ SameTask(Skeleton.plan, self) /\ Skeleton.plan.next = self.next
      /\ Carries(Skeleton, W) /\ Holds(Skeleton, Here) /\ Firm(Skeleton, Here) /\ Mean(Skeleton)
  BY <1>1, <1>2, <1>5, <1>6, GrewRefs
<1>10. Carries(s, W) /\ Holds(s, Here) /\ Firm(s, Here) /\ Mean(s)
  BY <1>4, <1>9 DEF Carries, Holds, Firm, Mean
<1>11. SameTask(s.plan, self) /\ Kin(s, Here)
  BY <1>4, <1>9 DEF SameTask, Fit
<1>12. ASSUME NEW P, AtStep(P, s.plan, "from")
       PROVE  InClauses(s.node, P) /\ InEnd(s.node, P)
  <2>1. /\ P.step = "from" /\ P.i = 1 /\ P.current = n /\ P.opTrue = n + 1 /\ P.opFalse = n + 2
        /\ P.graph = s.plan.graph
    BY <1>4, <1>12 DEF AtStep, SameNames
  <2>2. ~Real(P)
    BY <2>1 DEF Real
  <2>3. InClauses(s.node, P)
    BY <1>4, <1>8, <2>1, <2>2 DEF InClauses, Stands
  <2>4. InEnd(s.node, P)
    BY <2>1 DEF InEnd, AfterSteps
  <2>5. QED
    BY <2>3, <2>4
<1>13. "from" \in GoSteps /\ \A w \in W : FALSE
  BY DEF GoSteps, W
<1>14. "disable" \in {"from", s.plan.next} => self.query.op = "delete"
  BY <1>4, <1>7, <1>9
<1>15. QED
  BY <1>1, <1>2, <1>3, <1>4, <1>5, <1>10, <1>11, <1>12, <1>13, <1>14, GoRefs

-----------------------------------------------------------------------------
(* The steps after the clauses. *)

(* What a step keeps of the processes, apart from the plan that is built. *)
Keeps(s, c, W) ==
  /\ Kin(s, c) /\ SameTask(s.plan, self)
  /\ Carries(s, W) /\ Holds(s, c) /\ Firm(s, c) /\ Mean(s)

LEMMA KeepsOn ==
  ASSUME NEW s, NEW t, NEW c, NEW W, Keeps(s, c, W), t.node = s.node,
         t.plan.graph = s.plan.graph, SameTask(t.plan, s.plan)
  PROVE  Keeps(t, c, W)
<1>1. Kin(t, c)
  BY DEF Keeps, Kin
<1>2. SameTask(t.plan, self)
  BY DEF Keeps, SameTask
<1>3. Carries(t, W) /\ Holds(t, c) /\ Firm(t, c) /\ Mean(t)
  BY DEF Keeps, Carries, Holds, Firm, Mean
<1>4. QED
  BY <1>1, <1>2, <1>3 DEF Keeps

(* The end that the plan around this one will refer to. *)
EndsWell(s) ==
  /\ Stands(s.node, s.plan, EndOf(s.plan))
  /\ s.plan.isUnion => s.plan.current # s.plan.opTrue \/ Constant(self.query)

LEMMA AfterRefs ==
  ASSUME PlanInv, EdgesInv, RefsInv, phase = "build", self.step # "finish",
         NEW K \in Nat, NEW s \in StateOf(K), NEW c \in {Here} \cup Pending(Here),
         c \notin Range(self.constPlans), NEW W, Keeps(s, c, W),
         NEW step \in GoSteps \ ClauseSteps, Go(s, step), step = "finish" => s.plan.i = 1,
         c # Here => (Bare(Here) => Bare(c)),
         "disable" \in {step, s.plan.next} => self.query.op = "delete",
         \A w \in W : /\ Fixed(w) /\ ~s.node[w].passive
                      /\ \/ w \in Range(s.plan.graph) /\ ~Bare(Here)
                         \/ \E d \in ValuesOf(self) \ {c} : w \in GraphOf(d),
         Here # 1 => EndsWell(s)
  PROVE  RefsInv'
<1>1. ASSUME Here # 1, NEW P, AtStep(P, s.plan, step)
      PROVE  InClauses(s.node, P) /\ InEnd(s.node, P)
  <2>1. /\ P.step = step /\ P.isUnion = s.plan.isUnion /\ P.current = s.plan.current
        /\ P.opTrue = s.plan.opTrue /\ P.graph = s.plan.graph /\ P.query = self.query
    BY <1>1 DEF AtStep, SameNames, Keeps, SameTask
  <2>2. P.step \notin ClauseSteps /\ P.step # "built"
    BY <2>1 DEF GoSteps
  <2>3. InClauses(s.node, P)
    BY <2>2 DEF InClauses
  <2>4. EndOf(P) = EndOf(s.plan)
    BY <2>1 DEF EndOf
  <2>5. Stands(s.node, P, EndOf(P))
    BY <1>1, <2>1, <2>4 DEF EndsWell, Stands
  <2>6. InEnd(s.node, P)
    BY <1>1, <2>1, <2>2, <2>5 DEF InEnd, EndsWell
  <2>7. QED
    BY <2>3, <2>6
<1>2. step \in GoSteps
  OBVIOUS
<1>3. /\ Kin(s, c) /\ SameTask(s.plan, self)
      /\ Carries(s, W) /\ Holds(s, c) /\ Firm(s, c) /\ Mean(s)
  BY DEF Keeps
<1>4. QED
  BY <1>1, <1>2, <1>3, GoRefs

(* For the passive processes to be taken out. *)
LEMMA ClearingRefs ==
  ASSUME PlanInv, EdgesInv, RefsInv, phase = "build", self.step # "finish",
         NEW K \in Nat, NEW s \in StateOf(K), NEW W, Keeps(s, Here, W), Awaitable(W, Here),
         NEW next \in {"union", "disable", "finish"}, Go(Clearing(s, next), "clear"),
         next = "disable" => self.query.op = "delete", Here # 1 => EndsWell(s)
  PROVE  RefsInv'
<1> DEFINE t == Clearing(s, next)
           c == Here
<1>1. /\ t \in StateOf(K) /\ t.node = s.node /\ t.plan.next = next
      /\ t.plan.graph = s.plan.graph /\ SameTask(t.plan, s.plan)
      /\ t.plan.current = s.plan.current /\ t.plan.opTrue = s.plan.opTrue
  <2>1. t \in StateOf(K)
    BY ClearingFrom DEF From
  <2>2. t.node = s.node /\ t.plan.next = next
    BY DEF Clearing, StateOf, PlanOf
  <2>3. t.plan.graph = s.plan.graph /\ SameTask(t.plan, s.plan)
    BY DEF Clearing, StateOf, PlanOf, SameTask
  <2>4. t.plan.current = s.plan.current /\ t.plan.opTrue = s.plan.opTrue
    BY DEF Clearing, StateOf, PlanOf
  <2>5. QED
    BY <2>1, <2>2, <2>3, <2>4
<1>2. Go(t, "clear")
  OBVIOUS
<1> HIDE DEF t
<1>3. c \in {Here} \cup Pending(Here) /\ c \notin Range(self.constPlans) /\ c = Here
  BY OthersThanValues
<1>4. Keeps(t, c, W)
  BY <1>1, <1>3, KeepsOn
<1>5. ASSUME NEW w \in W
      PROVE  Fixed(w) /\ ~t.node[w].passive /\ \E d \in ValuesOf(self) \ {c} : w \in GraphOf(d)
  <2>1. Fixed(w) /\ \E d \in ValuesOf(self) \ {c} : w \in GraphOf(d)
    BY <1>3 DEF Awaitable
  <2>2. Here \in Open /\ self = plans[Here]
    BY Place DEF self, Here
  <2>3. Left(Here) = ValuesOf(self)
    BY <2>2 DEF Left
  <2>4. w \in Ahead(Here)
    BY <2>1, <2>3 DEF Ahead
  <2>5. QED
    BY <1>3, <1>4, <2>1, <2>4 DEF Keeps, Firm
<1>6. Here # 1 => EndsWell(t)
  BY <1>1 DEF EndsWell, Stands, EndOf, SameTask
<1>7. "clear" \in GoSteps \ ClauseSteps /\ "clear" # "finish"
  BY DEF GoSteps, ClauseSteps
<1>8. "disable" \in {"clear", t.plan.next} => self.query.op = "delete"
  BY <1>1
<1> HIDE DEF c
<1>9. QED
  BY <1>1, <1>2, <1>3, <1>4, <1>5, <1>6, <1>7, <1>8, AfterRefs

LEMMA GrewKeeps ==
  ASSUME PlanInv, EdgesInv, RefsInv, phase = "build", NEW K, K = Len(node) + 4, NEW W, NEW s,
         Grows(s, State, K, W), Kin(s, Here)
  PROVE  /\ s \in StateOf(K) /\ Keeps(s, Here, W) /\ SameExits(s.plan, self)
         /\ s.plan.next = self.next
         /\ \A n \in DOMAIN node : Unmoved(s.node[n], node[n])
<1> DEFINE c == Here
<1>1. K \in Nat
  BY Start
<1>2. Base(State, c, K) /\ c \in {Here} \cup Pending(Here) /\ c = Here
  BY StartBase
<1> HIDE DEF c
<1>3. /\ s \in StateOf(K) /\ SameTask(s.plan, self) /\ SameExits(s.plan, self)
      /\ s.plan.next = self.next
      /\ Carries(s, W) /\ Holds(s, c) /\ Firm(s, c)
      /\ c = Here \/ self.query.sources # << >> => Mean(s)
      /\ \A n \in DOMAIN node : Unmoved(s.node[n], node[n])
  BY <1>1, <1>2, GrewRefs
<1>4. QED
  BY <1>2, <1>3 DEF Keeps

LEMMA EndNow ==
  ASSUME PlanInv, EdgesInv, RefsInv, phase = "build", self.step \in AfterSteps, Here # 1
  PROVE  EndsWell(State)
<1>1. InEnd(node, self) /\ State.node = node /\ State.plan = self
  BY MemberHere DEF State
<1>2. QED
  BY <1>1 DEF InEnd, EndsWell

(* The nodes change in nothing that RefsInv is about. *)
LEMMA EndStays ==
  ASSUME PlanInv, EdgesInv, RefsInv, phase = "build", self.step \in AfterSteps, Here # 1, NEW s,
         \A n \in DOMAIN node : Unmoved(s.node[n], node[n]),
         s.plan.graph = self.graph, s.plan.isUnion = self.isUnion,
         s.plan.current = self.current, s.plan.opTrue = self.opTrue
  PROVE  EndsWell(s)
<1>1. EndsWell(State) /\ State.node = node /\ State.plan = self
  BY EndNow DEF State
<1>2. EndOf(s.plan) = EndOf(self)
  BY DEF EndOf
<1>3. EndOf(self) \in Range(self.graph) /\ ~node[EndOf(self)].passive
  BY <1>1 DEF EndsWell, Stands
<1>4. EndOf(self) \in DOMAIN node
  <2>1. Here \in Live /\ self = plans[Here]
    BY Place DEF self, Here
  <2>2. QED
    BY <1>3, <2>1 DEF EdgesInv, Homed, GraphOf
<1>5. QED
  BY <1>1, <1>2, <1>3, <1>4 DEF EndsWell, Stands, Unmoved

LEMMA RelinkRefs ==
  ASSUME PlanInv, EdgesInv, RefsInv, Relink
  PROVE  RefsInv'
<1> DEFINE K == Len(node) + 4
           n == self.graph[self.i]
           t == Bypass(State, n)
           u == Further(State)
           W == {}
           c == Here
<1>1. /\ phase = "build" /\ At("clear") /\ self.step = "clear" /\ self.i <= Len(self.graph)
      /\ \/ Go(t, "clear") /\ \E b \in 0..1 : ToPassive(State, n, b)
         \/ Go(u, "clear")
  BY DEF Relink, At
<1>2. /\ K \in Nat /\ State \in StateOf(K) /\ Fit(State, Here, {}) /\ State.plan = self
      /\ State.node = node /\ self \in PlanOf(K) /\ self = plans[Here] /\ Here \in Open
      /\ Len(node) \in Nat
  BY <1>1, Start, Building DEF Open
<1>3. n \in Range(State.plan.graph)
  <2>1. self.graph \in Seq(1..K) /\ self.i \in Nat \ {0}
    BY <1>2 DEF PlanOf
  <2>2. self.i \in DOMAIN self.graph
    BY <1>1, <2>1, IndexIn
  <2>3. QED
    BY <1>2, <2>2 DEF Range
<1>4. /\ c \in {Here} \cup Pending(Here) /\ c \notin Range(self.constPlans) /\ c = Here
      /\ "clear" \in GoSteps \ ClauseSteps /\ self.step \in AfterSteps /\ self.step # "finish"
  BY <1>1, OthersThanValues DEF GoSteps, ClauseSteps, AfterSteps
<1>5. "disable" \in {"clear", self.next} => self.query.op = "delete"
  BY <1>1, HereKind
<1>6. \A w \in W : FALSE
  OBVIOUS
<1> HIDE DEF K, W, c, n
<1>7. CASE Go(t, "clear") /\ \E b \in 0..1 : ToPassive(State, n, b)
  <2>1. State.plan.entry # NULL => ~State.node[State.plan.entry].passive
    BY <1>2 DEF EdgesInv, Entered
  <2>2. t \in StateOf(K) /\ Kin(t, Here)
    <3> DEFINE X == {}
    <3>1. Tuned(t, State, K, Here, {})
      BY <1>2, <1>3, <1>7, <2>1, BypassFit
    <3>2. QED
      BY <3>1 DEF Tuned, Fit
  <2>3. PICK b \in 0..1, to \in 0..K : t = Link(State, n, b, to)
    <3> DEFINE b == IF ToPassive(State, n, 0) THEN 0 ELSE 1
               to == Onward(State.node[State.node[n].out[b]], b)
    <3>1. t = Link(State, n, b, to) /\ b \in 0..1 /\ ToPassive(State, n, b)
      BY <1>7 DEF Bypass
    <3>2. State.node \in Seq(NodeOf(K)) /\ DOMAIN State.node = 1..Len(State.node)
      BY <1>2, StateParts
    <3>3. n \in DOMAIN node
      <4>1. Here \in Live /\ n \in GraphOf(Here)
        BY <1>1, <1>2, <1>3, Place DEF GraphOf
      <4>2. QED
        BY <4>1 DEF EdgesInv, Homed
    <3>4. node[n] \in NodeOf(Len(node))
      BY <3>3, ElementOfSeq DEF PlanInv
    <3> HIDE DEF b
    <3>5. node[n].out[b] \in 0..Len(node) /\ node[n].out[b] # NULL
      BY <1>2, <3>1, <3>4 DEF NodeOf, ToPassive
    <3>6. node[n].out[b] \in DOMAIN State.node
      BY <1>2, <3>2, <3>5 DEF NULL
    <3>7. State.node[node[n].out[b]] \in NodeOf(K)
      BY <3>2, <3>6, ElementOfSeq
    <3>8. to \in 0..K
      <4>1. ASSUME NEW v \in NodeOf(K) PROVE v.out[0] \in 0..K /\ v.out[1] \in 0..K
        BY <4>1 DEF NodeOf
      <4>2. ASSUME NEW v \in NodeOf(K) PROVE Onward(v, b) \in 0..K
        BY <4>1 DEF Onward
      <4>3. QED
        BY <1>2, <3>7, <4>2
    <3> HIDE DEF to
    <3>9. QED
      BY <3>1, <3>8
  <2> HIDE DEF t
  <2>4. Grows(t, State, K, W) /\ t.plan = self
    <3>1. b \in 0..1 /\ to \in 0..K
      BY <2>3
    <3>2. K \in Nat /\ State \in StateOf(K)
      BY <1>2
    <3>3. /\ Grows(Link(State, n, b, to), State, K, W)
          /\ Link(State, n, b, to).plan = State.plan
      BY ONLY <3>1, <3>2, LinkGrows
    <3>4. QED
      BY <1>2, <2>3, <3>3
  <2>5. Keeps(t, c, W) /\ \A m \in DOMAIN node : Unmoved(t.node[m], node[m])
    BY <1>1, <1>4, <2>2, <2>4, GrewKeeps DEF K
  <2>6. Here # 1 => EndsWell(t)
    BY <1>1, <1>4, <2>4, <2>5, EndStays
  <2>7. QED
    BY <1>1, <1>2, <1>4, <1>5, <1>6, <1>7, <2>2, <2>4, <2>5, <2>6, AfterRefs
<1>8. CASE Go(u, "clear")
  <2>1. LooseGrows(u, State, K, W) /\ u.plan.current = self.current
    BY <1>2, FurtherGrows
  <2>2. u \in StateOf(K) /\ u.node = node /\ SameNames(u.plan, self) /\ Kin(u, Here)
    <3> DEFINE X == {}
    <3>1. Fit(State, Here, X)
      BY <1>2
    <3> HIDE DEF X
    <3>2. u \in StateOf(K) /\ Fit(u, Here, X) /\ u.node = State.node /\ SameNames(u.plan, self)
      BY <1>2, <3>1, FurtherFit
    <3>3. QED
      BY <1>2, <3>2 DEF Fit
  <2> HIDE DEF u
  <2>3. /\ Keeps(u, c, W) /\ u.plan.next = self.next
        /\ \A m \in DOMAIN node : Unmoved(u.node[m], node[m])
    BY <1>1, <1>4, <2>1, <2>2, GrewKeeps DEF K, LooseGrows
  <2>4. Here # 1 => EndsWell(u)
    BY <1>1, <1>4, <2>2, <2>3, EndStays DEF SameNames, Keeps, SameTask
  <2>5. QED
    BY <1>1, <1>2, <1>4, <1>5, <1>6, <1>8, <2>2, <2>3, <2>4, AfterRefs
<1>9. QED
  BY <1>1, <1>7, <1>8

(* Processes leave the graph, passive ones. *)
LEMMA ShrunkKeeps ==
  ASSUME PlanInv, EdgesInv, RefsInv, phase = "build", NEW s, Kin(s, Here), SameTask(s.plan, self),
         \A n \in DOMAIN node : Unmoved(s.node[n], node[n]),
         Range(s.plan.graph) \subseteq GraphOf(Here),
         \A n \in GraphOf(Here) : ~node[n].passive => n \in Range(s.plan.graph), NEW W
  PROVE  Keeps(s, Here, W)
<1>1. Here \in Live /\ Here \in Open /\ self = plans[Here]
  BY Place DEF self, Here
<1>2. \A n \in GraphOf(Here) : n \in DOMAIN node
  BY <1>1 DEF EdgesInv, Homed
<1>3. DOMAIN node = 1..Len(node)
  BY StateParts DEF PlanInv
<1>4. Carries(s, W)
  BY <1>2, <1>3 DEF Carries, Refers, ReferIn, Unmoved
<1>5. Holds(s, Here)
  BY <1>2 DEF Holds, Unmoved
<1>6. Firm(s, Here)
  BY DEF Firm, Fixed, Unmoved
<1>7. Mean(s)
  <2>1. ASSUME Constant(self.query), NEW n \in Range(s.plan.graph)
        PROVE  s.node[n].plan = Here /\ s.node[n].action # "read"
    <3>1. n \in GraphOf(Here) /\ n \in DOMAIN node
      BY <1>2
    <3>2. node[n].plan = Here /\ node[n].action # "read"
      BY <1>1, <2>1, <3>1 DEF RefsInv, SelfMade
    <3>3. QED
      BY <3>1, <3>2 DEF Unmoved
  <2>2. QED
    BY <2>1 DEF Mean
<1>8. QED
  BY <1>4, <1>5, <1>6, <1>7 DEF Keeps

LEMMA FreePassiveParts ==
  ASSUME NEW K \in Nat, NEW s \in StateOf(K)
  PROVE  LET t == FreePassive(s)
         IN  /\ t \in StateOf(K) /\ SameTask(t.plan, s.plan) /\ t.plan.next = s.plan.next
             /\ t.plan.current = s.plan.current /\ t.plan.opTrue = s.plan.opTrue
             /\ Range(t.plan.graph) = {n \in Range(s.plan.graph) : ~s.node[n].passive}
             /\ \A n \in DOMAIN s.node : Unmoved(t.node[n], s.node[n])
<1> DEFINE gone == {n \in Range(s.plan.graph) : s.node[n].passive}
           f    == [n \in DOMAIN s.node |-> [s.node[n] EXCEPT !.freed = @ \/ n \in gone]]
           kept == Kept(s.plan.graph, Range(s.plan.graph) \ gone)
           t    == FreePassive(s)
<1>1. t \in StateOf(K)
  BY FreePassiveFrom DEF From
<1>2. s.plan \in PlanOf(K) /\ s.plan.graph \in Seq(1..K) /\ s.node \in Seq(NodeOf(K))
  BY StateParts DEF PlanOf
<1>3. Range(kept) = Range(s.plan.graph) \ gone
  BY <1>2, KeptProperties
<1>4. /\ t.node = f /\ t.plan.graph = kept /\ t.plan.next = s.plan.next
      /\ t.plan.current = s.plan.current /\ t.plan.opTrue = s.plan.opTrue
  BY <1>2 DEF FreePassive, StateOf, PlanOf
<1>5. SameTask(t.plan, s.plan)
  BY <1>2 DEF FreePassive, StateOf, PlanOf, SameTask
<1> HIDE DEF t, kept
<1>6. ASSUME NEW n \in DOMAIN s.node PROVE Unmoved(t.node[n], s.node[n])
  <2>1. s.node[n] \in NodeOf(K)
    BY <1>2, ElementOfSeq
  <2>2. t.node[n] = [s.node[n] EXCEPT !.freed = @ \/ n \in gone]
    BY <1>4
  <2> HIDE DEF gone
  <2>3. QED
    BY <2>1, <2>2 DEF NodeOf, Unmoved
<1>7. QED
  BY <1>1, <1>3, <1>4, <1>5, <1>6 DEF t

LEMMA ClearRefs ==
  ASSUME PlanInv, EdgesInv, RefsInv, Clear
  PROVE  RefsInv'
<1> DEFINE K == Len(node) + 4
           t == FreePassive(State)
           W == {}
           c == Here
<1>1. /\ phase = "build" /\ At("clear") /\ self.step = "clear" /\ self.i > Len(self.graph)
      /\ Go(t, "roots")
  BY DEF Clear, At
<1>2. /\ K \in Nat /\ State \in StateOf(K) /\ Fit(State, Here, {}) /\ State.plan = self
      /\ State.node = node /\ self \in PlanOf(K) /\ self = plans[Here] /\ Here \in Open
  BY <1>1, Start, Building DEF Open
<1>3. ASSUME NEW n \in Range(State.plan.graph), NEW b \in 0..1 PROVE ~ToPassive(State, n, b)
  <2>1. PassedIn(node, self)
    BY <1>2 DEF EdgesInv
  <2>2. self.graph \in Seq(1..K) /\ self.i \in Nat
    BY <1>2 DEF PlanOf
  <2>3. DOMAIN self.graph = 1..Len(self.graph) /\ Len(self.graph) \in Nat
    BY <2>2, LenProperties
  <2>4. PICK k \in DOMAIN self.graph : n = self.graph[k]
    BY <1>2 DEF Range
  <2>5. k < self.i
    BY <1>1, <2>2, <2>3
  <2>6. QED
    BY <1>1, <1>2, <2>1, <2>4, <2>5 DEF PassedIn, ToPassive
<1>4. t \in StateOf(K) /\ Kin(t, Here)
  BY <1>2, <1>3, FreePassiveFit DEF Fit
<1>5. /\ SameTask(t.plan, self) /\ t.plan.next = self.next
      /\ t.plan.current = self.current /\ t.plan.opTrue = self.opTrue
      /\ Range(t.plan.graph) = {n \in GraphOf(Here) : ~node[n].passive}
      /\ \A n \in DOMAIN node : Unmoved(t.node[n], node[n])
  BY <1>2, FreePassiveParts DEF GraphOf
<1> HIDE DEF K, t
<1>6. Keeps(t, Here, W)
  BY <1>1, <1>4, <1>5, ShrunkKeeps
<1>7. /\ c \in {Here} \cup Pending(Here) /\ c \notin Range(self.constPlans) /\ c = Here
      /\ "roots" \in GoSteps \ ClauseSteps /\ self.step \in AfterSteps /\ self.step # "finish"
  BY <1>1, OthersThanValues DEF GoSteps, ClauseSteps, AfterSteps
<1>8. "disable" \in {"roots", t.plan.next} => self.query.op = "delete"
  BY <1>1, <1>5, HereKind
<1>9. ASSUME Here # 1 PROVE EndsWell(t)
  <2>1. EndsWell(State)
    BY <1>1, <1>7, <1>9, EndNow
  <2>2. EndOf(t.plan) = EndOf(self)
    BY <1>5 DEF EndOf, SameTask
  <2>3. EndOf(self) \in GraphOf(Here) /\ ~node[EndOf(self)].passive
    BY <1>2, <2>1 DEF EndsWell, Stands, GraphOf
  <2>4. EndOf(self) \in DOMAIN node
    BY <1>1, <2>3, Place DEF EdgesInv, Homed
  <2>5. QED
    BY <1>2, <1>5, <2>1, <2>2, <2>3, <2>4 DEF EndsWell, Stands, Unmoved, SameTask
<1>10. \A w \in W : FALSE
  OBVIOUS
<1> HIDE DEF W, c
<1>11. Keeps(t, c, W)
  BY <1>6, <1>7
<1>12. QED
  BY <1>1, <1>2, <1>4, <1>7, <1>8, <1>9, <1>10, <1>11, AfterRefs

LEMMA GetRootsParts ==
  ASSUME NEW K \in Nat, NEW s \in StateOf(K)
  PROVE  /\ GetRoots(s) \in StateOf(K) /\ GetRoots(s).plan = s.plan
         /\ DOMAIN GetRoots(s).node = DOMAIN s.node
         /\ \A n \in DOMAIN s.node : Unmoved(GetRoots(s).node[n], s.node[n])
<1> DEFINE G       == Range(s.plan.graph)
           entered == {s.node[n].out[b] : n \in G, b \in 0..1}
           f       == [n \in DOMAIN s.node |-> [s.node[n] EXCEPT !.root = @ \/ (n \in G /\ n \notin entered)]]
<1>1. GetRoots(s) \in StateOf(K)
  BY GetRootsFrom DEF From
<1>2. CASE RootsOf(s) # {}
  BY <1>1, <1>2 DEF GetRoots, Unmoved
<1>3. CASE RootsOf(s) = {}
  <2>1. GetRoots(s) = [s EXCEPT !.node = f]
    BY <1>3 DEF GetRoots
  <2>2. GetRoots(s).node = f /\ GetRoots(s).plan = s.plan
    BY <2>1 DEF StateOf
  <2>3. ASSUME NEW n \in DOMAIN s.node PROVE Unmoved(f[n], s.node[n])
    <3>1. s.node[n] \in NodeOf(K)
      BY StateParts, ElementOfSeq
    <3>2. f[n] = [s.node[n] EXCEPT !.root = @ \/ (n \in G /\ n \notin entered)]
      OBVIOUS
    <3> HIDE DEF G, entered, f
    <3>3. QED
      BY <3>1, <3>2 DEF NodeOf, Unmoved
  <2>4. DOMAIN f = DOMAIN s.node
    OBVIOUS
  <2> HIDE DEF f
  <2>5. QED
    BY <1>1, <2>2, <2>3, <2>4
<1>4. QED
  BY <1>2, <1>3

LEMMA RootsRefs ==
  ASSUME PlanInv, EdgesInv, RefsInv, Roots
  PROVE  RefsInv'
<1> DEFINE K == Len(node) + 4
           t == GetRoots(State)
           u == [t EXCEPT !.plan.i = 1]
           X == {}
           W == {}
           c == Here
<1>1. phase = "build" /\ At("roots") /\ Go(u, self.next) /\ self.step = "roots"
  BY DEF Roots, At
<1>2. /\ K \in Nat /\ State \in StateOf(K) /\ Fit(State, Here, X) /\ State.plan = self
      /\ State.node = node /\ self \in PlanOf(K)
  BY <1>1, Start
<1> HIDE DEF K, X
<1>3. Tuned(t, State, K, Here, X)
  BY <1>2, GetRootsFit
<1>4. /\ t \in StateOf(K) /\ t.plan = self
      /\ \A n \in DOMAIN node : Unmoved(t.node[n], node[n])
  BY <1>2, GetRootsParts
<1> HIDE DEF t
<1>5. Kin(t, Here)
  BY <1>3 DEF Tuned, Fit
<1>6. u \in StateOf(K)
  <2>1. 1 \in Nat \ {0}
    OBVIOUS
  <2>2. QED
    BY <1>2, <1>4, <2>1, PlanFields DEF From
<1>7. /\ u.node = t.node /\ u.plan.graph = self.graph /\ u.plan.i = 1 /\ u.plan.next = self.next
      /\ u.plan.current = self.current /\ u.plan.opTrue = self.opTrue
  BY <1>2, <1>4 DEF StateOf, PlanOf
<1>8. SameTask(u.plan, self)
  BY <1>2, <1>4 DEF SameTask, StateOf, PlanOf
<1> HIDE DEF u
<1>9. Range(u.plan.graph) = GraphOf(Here)
  <2>1. self = plans[Here]
    BY DEF self, Here
  <2>2. QED
    BY <1>7, <2>1 DEF GraphOf
<1>10. Kin(u, Here)
  BY <1>4, <1>5, <1>7 DEF Kin
<1>11. Keeps(u, Here, W)
  BY <1>1, <1>4, <1>7, <1>8, <1>9, <1>10, ShrunkKeeps
<1>12. /\ c \in {Here} \cup Pending(Here) /\ c \notin Range(self.constPlans) /\ c = Here
       /\ self.next \in GoSteps \ ClauseSteps /\ self.step \in AfterSteps /\ self.step # "finish"
  BY <1>1, <1>2, OthersThanValues DEF GoSteps, ClauseSteps, AfterSteps, PlanOf
<1>13. "disable" \in {self.next, u.plan.next} => self.query.op = "delete"
  BY <1>1, <1>7, HereKind
<1>14. Here # 1 => EndsWell(u)
  BY <1>1, <1>4, <1>7, <1>8, <1>12, EndStays DEF SameTask
<1>15. \A w \in W : FALSE
  OBVIOUS
<1> HIDE DEF W, c
<1>16. Keeps(u, c, W)
  BY <1>11, <1>12
<1>17. QED
  BY <1>1, <1>2, <1>6, <1>7, <1>12, <1>13, <1>14, <1>15, <1>16, AfterRefs

LEMMA OrderRefs ==
  ASSUME PlanInv, EdgesInv, RefsInv, Order
  PROVE  RefsInv'
<1> DEFINE K      == Len(node) + 4
           n      == Len(node) + 1
           p      == Process(Here, "orderby")
           t      == Stage(Advance(Add(State, p), n), n)
           sorted == [t EXCEPT !.plan.opTrue = n]
           next   == IF self.query.op = "delete" THEN "disable" ELSE "finish"
           W      == {}
<1>1. /\ phase = "build" /\ At("union") /\ self.step = "union"
      /\ \/ Go(Clearing(sorted, next), "clear") /\ self.query.order
         \/ Go(Clearing(State, next), "clear")
  BY DEF Order, At
<1>2. /\ K \in Nat /\ State \in StateOf(K) /\ Fit(State, Here, {}) /\ State.plan = self
      /\ State.node = node
      /\ Len(State.node) < K /\ n = Len(State.node) + 1 /\ Here \in Nat /\ Len(State.node) \in Nat
  BY <1>1, Start
<1>3. /\ next \in {"union", "disable", "finish"}
      /\ next = "disable" => self.query.op = "delete"
      /\ self.step # "finish" /\ self.step \in AfterSteps /\ Awaitable(W, Here)
  BY <1>1, NothingAwaited DEF AfterSteps
<1> HIDE DEF n, next, W
<1>4. p \in NodeOf(K) /\ Newborn(p, W) /\ ~p.passive /\ p.plan = Here /\ ~p.freed
      /\ \A b \in 0..1 : p.out[b] = NULL
  BY <1>2, ProcessType DEF Actions, Process, Newborn
<1> HIDE DEF p
<1>5. Fits(t, State, K, Here)
  <2> DEFINE X == {}
  <2>1. X \subseteq {Len(State.node) + 1} /\ Fit(State, Here, X)
    BY <1>2
  <2>2. Newest(State) + 1 = n
    BY <1>2 DEF Newest
  <2> HIDE DEF X, K
  <2>3. LET u == Stage(Advance(Add(State, p), Newest(State) + 1), Newest(State) + 1)
        IN  Fits(u, State, K, Here) /\ u.plan.current = Len(State.node) + 1
    BY <1>2, <1>4, <2>1, ThenFit
  <2>4. QED
    BY <1>2, <2>2, <2>3
<1>6. /\ Grows(t, State, K, W) /\ Leads(t, State, n) /\ ~t.node[n].passive
  BY <1>2, <1>4, ThenGrows
<1> HIDE DEF t
<1>7. Kin(t, Here)
  BY <1>5 DEF Fits, Fit
<1>8. t \in StateOf(K) /\ Keeps(t, Here, W)
  BY <1>1, <1>6, <1>7, GrewKeeps
<1>9. n \in Range(t.plan.graph)
  BY <1>6 DEF Leads
<1> HIDE DEF K
<1>10. sorted \in StateOf(K)
  <2>1. n \in 1..K
    BY <1>2
  <2>2. QED
    BY <1>2, <1>8, <2>1, PlanFields DEF From
<1>11. /\ sorted.node = t.node /\ sorted.plan.graph = t.plan.graph /\ sorted.plan.opTrue = n
       /\ sorted.plan.isUnion = t.plan.isUnion
  BY <1>8 DEF StateOf, PlanOf
<1>12. SameTask(sorted.plan, t.plan)
  BY <1>8 DEF StateOf, PlanOf, SameTask
<1> HIDE DEF sorted
<1>13. Keeps(sorted, Here, W)
  BY <1>8, <1>11, <1>12, KeepsOn
<1>14. CASE Go(Clearing(sorted, next), "clear") /\ self.query.order
  <2>1. ~self.isUnion
    BY <1>1, <1>14, MemberHere
  <2>2. ~sorted.plan.isUnion
    BY <1>13, <2>1 DEF Keeps, SameTask
  <2>3. EndsWell(sorted)
    BY <1>6, <1>9, <1>11, <2>2 DEF EndsWell, Stands, EndOf
  <2>4. QED
    BY <1>1, <1>2, <1>3, <1>10, <1>13, <1>14, <2>3, ClearingRefs
<1>15. CASE Go(Clearing(State, next), "clear")
  <2>1. Keeps(State, Here, W)
    <3>1. Grows(State, State, K, W)
      BY <1>2, SameGrows
    <3>2. QED
      BY <1>1, <1>2, <3>1, GrewKeeps DEF K, Fit
  <2>2. Here # 1 => EndsWell(State)
    BY <1>1, <1>3, EndNow
  <2>3. QED
    BY <1>1, <1>2, <1>3, <1>15, <2>1, <2>2, ClearingRefs
<1>16. QED
  BY <1>1, <1>14, <1>15

LEMMA DisableRefs ==
  ASSUME PlanInv, EdgesInv, RefsInv, Supported, Disable
  PROVE  RefsInv'
<1> DEFINE K == Len(node) + 4
           t == DisableStranded(State)
           X == {}
           W == {}
           stranded == {n \in RootsOf(State) \ {self.opTrue, self.opFalse} :
                          node[n].out = [b \in 0..1 |-> NULL]}
           some == stranded # {}
           f == [n \in DOMAIN node |->
                   IF n \in stranded THEN [node[n] EXCEPT !.passive = TRUE]
                   ELSE IF n = self.opFalse THEN [node[n] EXCEPT !.dead = some]
                   ELSE node[n]]
<1>1. phase = "build" /\ At("disable") /\ Go(Clearing(t, "finish"), "clear") /\ self.step = "disable"
  BY DEF Disable, At
<1>2. K \in Nat /\ State \in StateOf(K) /\ Fit(State, Here, X) /\ State.plan = self
      /\ State.node = node
  BY <1>1, Start
<1>3. /\ Here \in Live /\ Here \in Open /\ self = plans[Here] /\ Here \in DOMAIN plans
      /\ Here \notin Pending(Here)
  BY <1>1, Place DEF self, Here
<1>4. stranded \subseteq GraphOf(Here)
  BY <1>2, <1>3 DEF RootsOf, GraphOf
<1>5. t = [State EXCEPT !.node = f]
  BY <1>2 DEF DisableStranded
<1>6. t.node = f /\ t.plan = self
  BY <1>2, <1>5 DEF StateOf
<1> HIDE DEF K, X, t, stranded
<1>7. Tuned(DisableStranded(State), State, K, Here, X)
  BY <1>2, DisableStrandedFit
<1>8. t \in StateOf(K) /\ Kin(t, Here)
  BY <1>7 DEF Tuned, Fit, t
<1>9. \A n \in GraphOf(Here) : n \in DOMAIN node
  BY <1>3 DEF EdgesInv, Homed
<1>10. ASSUME NEW n \in DOMAIN node
       PROVE  /\ t.node[n].plan = node[n].plan /\ t.node[n].action = node[n].action
              /\ t.node[n].waits = node[n].waits /\ t.node[n].unionEnds = node[n].unionEnds
              /\ n \notin stranded => t.node[n].passive = node[n].passive
              /\ node[n].passive => t.node[n].passive
  <2>1. node[n] \in NodeOf(Len(node))
    BY ElementOfSeq DEF PlanInv
  <2>2. t.node[n] = IF n \in stranded THEN [node[n] EXCEPT !.passive = TRUE]
                    ELSE IF n = self.opFalse THEN [node[n] EXCEPT !.dead = some]
                    ELSE node[n]
    BY <1>6
  <2> HIDE DEF some
  <2>3. QED
    BY <2>1, <2>2 DEF NodeOf
<1>11. Carries(t, W)
  <2>1. DOMAIN node = 1..Len(node)
    BY StateParts DEF PlanInv
  <2>2. QED
    BY <1>3, <1>6, <1>9, <1>10, <2>1 DEF Carries, Refers, ReferIn, GraphOf
<1>12. Holds(t, Here)
  BY <1>3, <1>6 DEF Holds, GraphOf
<1>13. self.query.op = "delete"
  BY <1>1, HereKind
<1>14. Firm(t, Here)
  <2>1. ASSUME NEW w \in Ahead(Here), Fixed(w) PROVE ~t.node[w].passive
    <3>1. Bare(Here)
      BY <1>1, <1>3, <1>13 DEF Bare
    <3>2. PICK d \in ValuesOf(self) : w \in GraphOf(d)
      BY <1>3, <2>1, <3>1 DEF Ahead, Left
    <3>3. d \in Live /\ d # Here
      <4>1. d \in Pending(Here)
        BY <1>3, <3>2 DEF Pending, PendingOf
      <4>2. QED
        BY <1>1, <1>3, <4>1, Place
    <3>4. w \notin GraphOf(Here)
      BY <1>3, <3>2, <3>3 DEF EdgesInv, Disjoint
    <3>5. w \in DOMAIN node /\ ~node[w].passive
      BY <2>1 DEF Fixed
    <3>6. QED
      BY <1>4, <1>10, <3>4, <3>5
  <2>2. QED
    BY <2>1 DEF Firm
<1>15. Mean(t)
  <2>1. ASSUME Constant(self.query), NEW n \in Range(t.plan.graph)
        PROVE  t.node[n].plan = Here /\ t.node[n].action # "read"
    <3>1. n \in GraphOf(Here)
      BY <1>3, <1>6 DEF GraphOf
    <3>2. node[n].plan = Here /\ node[n].action # "read"
      BY <1>3, <2>1, <3>1 DEF RefsInv, SelfMade
    <3>3. QED
      BY <1>9, <1>10, <3>1, <3>2
  <2>2. QED
    BY <2>1 DEF Mean
<1>16. Keeps(t, Here, W)
  BY <1>6, <1>8, <1>11, <1>12, <1>14, <1>15 DEF Keeps, SameTask
<1>17. Here = 1
  BY <1>1, <1>13, HereKind DEF Supported
<1>18. Awaitable(W, Here) /\ self.step # "finish" /\ "finish" # "disable"
       /\ "finish" \in {"union", "disable", "finish"}
  BY <1>1, NothingAwaited
<1>19. Go(Clearing(t, "finish"), "clear")
  BY <1>1 DEF t
<1> HIDE DEF W, f
<1>20. QED
  BY <1>1, <1>2, <1>8, <1>16, <1>17, <1>18, <1>19, ClearingRefs

LEMMA ConsumeConstRefs ==
  ASSUME PlanInv, EdgesInv, RefsInv, ConsumeConst
  PROVE  RefsInv'
<1> DEFINE K == Len(node) + 4
           c == self.constPlans[self.i]
           t == Joined(State, c)
           u == Further(t)
           P == [u.plan EXCEPT !.step = "finish"]
           W == {}
<1>1. /\ phase = "build" /\ self.step = "finish" /\ self.i <= Len(self.constPlans)
      /\ Go(u, "finish")
  BY DEF ConsumeConst, At, Joined
<1>2. /\ K \in Nat /\ State.plan = self /\ State \in StateOf(K) /\ State.node = node
      /\ self \in PlanOf(K) /\ self = plans[Here] /\ Here \in Open /\ Here \in Live
  BY <1>1, Start, Building, Place DEF Open
<1>3. /\ self.i \in DOMAIN self.constPlans /\ self.i \in Nat /\ self.constPlans # << >>
      /\ \A k \in DOMAIN self.constPlans : k \in Nat
  <2>1. self.constPlans \in Seq(Nat) /\ self.i \in Nat \ {0}
    BY <1>2 DEF PlanOf
  <2>2. self.i \in DOMAIN self.constPlans /\ self.constPlans # << >>
    BY <1>1, <2>1, IndexIn
  <2>3. DOMAIN self.constPlans = 1..Len(self.constPlans)
    BY <2>1, LenProperties
  <2>4. QED
    BY <2>1, <2>2, <2>3
<1>4. c \in Pending(Here) /\ c \in {Here} \cup Pending(Here)
  BY <1>1, <1>2, <1>3 DEF Pending, PendingOf, ValuesOf
<1>5. plans[c].entry \in {NULL} \cup GraphOf(Here)
  <2>1. Handed(Here)
    BY <1>2 DEF EdgesInv
  <2>2. \A k \in DOMAIN self.constPlans : plans[self.constPlans[k]].entry = NULL
    BY ONLY <1>2, <2>1 DEF Handed
  <2>3. QED
    BY <1>3, <2>2
<1>6. ValuesOf(self) \ {c} = {self.constPlans[k] : k \in {j \in DOMAIN self.constPlans : j >= self.i + 1}}
  <2>1. \A j \in DOMAIN self.constPlans : j # self.i => self.constPlans[j] # c
    BY <1>2, <1>3 DEF EdgesInv, Tree
  <2>2. \A j \in DOMAIN self.constPlans : j >= self.i + 1 <=> j >= self.i /\ j # self.i
    BY <1>3
  <2>3. ValuesOf(self) = {self.constPlans[k] : k \in {j \in DOMAIN self.constPlans : j >= self.i}}
    BY <1>1 DEF ValuesOf
  <2> HIDE DEF P
  <2>4. QED
    BY <2>1, <2>2, <2>3
<1>7. ~Bare(Here) /\ ~Constant(self.query)
  <2>1. self.query.consts # << >>
    BY <1>1, <1>3, HereKind
  <2>2. QED
    BY <1>1, <1>2, <2>1, ValuelessFacts DEF Bare, Constant
<1> HIDE DEF c
<1>8. Fits(t, State, K, c)
  BY <1>1, <1>4, <1>5, TakenFit
<1>9. /\ t.plan.i = self.i /\ t.node = node /\ t.plan.current = self.current
      /\ t.plan.opTrue = self.opTrue /\ t.plan.next = self.next
  BY <1>2 DEF Joined, StateOf, PlanOf
<1>10. SameTask(t.plan, self)
  BY <1>2 DEF Joined, StateOf, PlanOf, SameTask
<1>11. Range(t.plan.graph) = GraphOf(Here) \cup GraphOf(c)
  <2>1. t.plan.graph = self.graph \o plans[c].graph
    BY <1>2 DEF Joined, StateOf, PlanOf
  <2>2. c \in DOMAIN plans /\ plans \in Seq(PlanOf(Len(node)))
    BY <1>1, <1>4, Place DEF PlanInv
  <2>3. self.graph \in Seq(1..Len(node)) /\ plans[c].graph \in Seq(1..Len(node))
    <3>1. plans[c] \in PlanOf(Len(node)) /\ self \in PlanOf(Len(node))
      BY <1>1, <2>2, ElementOfSeq, Building
    <3>2. QED
      BY <3>1 DEF PlanOf
  <2>4. QED
    BY <1>2, <2>1, <2>3, RangeOfConcat DEF GraphOf
<1> HIDE DEF t, K
<1>12. t \in StateOf(K) /\ Fit(t, c, {})
  BY <1>2, <1>8 DEF Fits
<1>13. /\ u \in StateOf(K) /\ u.node = node /\ u.plan.graph = t.plan.graph
       /\ u.plan.current = self.current /\ u.plan.opTrue = self.opTrue
       /\ u.plan.next = self.next /\ u.plan.i = self.i + 1
  <2>1. u \in StateOf(K)
    BY <1>2, <1>12, FurtherFrom DEF From
  <2>2. QED
    BY <1>9, <1>12, <2>1 DEF Further, StateOf, PlanOf
<1>14. SameTask(u.plan, self)
  BY <1>10, <1>12 DEF Further, StateOf, PlanOf, SameTask
<1>15. Kin(u, c)
  BY <1>9, <1>12, <1>13 DEF Fit, Kin
<1>16. node' = u.node /\ plans' = [plans EXCEPT ![Here] = P] /\ stack' = stack
  BY <1>1 DEF Go
<1> HIDE DEF u
<1>17. /\ P.graph = u.plan.graph /\ P.step = "finish" /\ P.i = self.i + 1
       /\ P.current = self.current /\ P.opTrue = self.opTrue /\ P.next = self.next
       /\ P.constPlans = self.constPlans /\ SameKind(P)
  <2>1. u.plan \in PlanOf(K)
    BY <1>2, <1>13, StateParts
  <2>2. /\ P.graph = u.plan.graph /\ P.step = "finish" /\ P.i = u.plan.i
        /\ P.current = u.plan.current /\ P.opTrue = u.plan.opTrue /\ P.next = u.plan.next
        /\ P.constPlans = u.plan.constPlans
    BY <2>1 DEF PlanOf
  <2>3. P.query = u.plan.query /\ P.isUnion = u.plan.isUnion /\ P.entry = u.plan.entry
    BY <2>1 DEF PlanOf
  <2>4. QED
    BY <1>13, <1>14, <2>2, <2>3 DEF SameTask, SameKind
<1> HIDE DEF P
<1>18. ValuesOf(P) = ValuesOf(self) \ {c}
  BY <1>6, <1>17 DEF ValuesOf
<1>19. \A n \in Range(u.plan.graph) : n \in 1..Len(node)
  BY <1>11, <1>13, <1>15 DEF Kin
<1>20. Carries(u, W) /\ Holds(u, c) /\ Firm(u, c) /\ Mean(u)
  <2>1. Carries(u, W)
    BY <1>13, <1>19 DEF Carries, Refers
  <2>2. Holds(u, c)
    BY <1>11, <1>13 DEF Holds
  <2>3. Firm(u, c)
    BY <1>13 DEF Firm, Fixed
  <2>4. Mean(u)
    BY <1>7 DEF Mean
  <2>5. QED
    BY <2>1, <2>2, <2>3, <2>4
<1>21. Here # 1 => InClauses(u.node, P) /\ InEnd(u.node, P)
  <2>1. ASSUME Here # 1 PROVE InClauses(u.node, P) /\ InEnd(u.node, P)
    <3>1. InEnd(node, self)
      BY <1>1, <2>1, MemberHere
    <3>2. InClauses(u.node, P)
      BY <1>17 DEF InClauses, ClauseSteps
    <3>3. EndOf(P) = EndOf(self) /\ P.isUnion = self.isUnion /\ P.query = self.query
      BY <1>17 DEF EndOf, SameKind
    <3>4. Stands(node, self, EndOf(self))
      BY <1>1, <3>1 DEF InEnd, AfterSteps
    <3>5. Stands(u.node, P, EndOf(P))
      BY <1>2, <1>11, <1>13, <1>17, <3>3, <3>4 DEF Stands, GraphOf
    <3>6. InEnd(u.node, P)
      BY <1>1, <1>17, <3>1, <3>3, <3>5 DEF InEnd, AfterSteps
    <3>7. QED
      BY <3>2, <3>6
  <2>2. QED
    BY <2>1
<1>22. "disable" \in {P.step, P.next} => P.query.op = "delete"
  BY <1>1, <1>17, HereKind DEF SameKind
<1>23. P.step \notin CallSteps \cup {"consts", "built"} /\ \A w \in W : FALSE
  BY <1>17 DEF CallSteps
<1> HIDE DEF W
<1>24. QED
  BY <1>1, <1>2, <1>4, <1>7, <1>13, <1>15, <1>16, <1>17, <1>18, <1>20, <1>21, <1>22, <1>23,
     StepRefs

LEMMA MarkRootsConstParts ==
  ASSUME NEW K \in Nat, NEW s \in StateOf(K)
  PROVE  LET t == MarkRootsConst(s)
         IN  /\ t \in StateOf(K) /\ t.plan = s.plan
             /\ DOMAIN t.node = DOMAIN s.node
             /\ \A n \in DOMAIN s.node :
                  /\ Unmoved(t.node[n], s.node[n]) /\ t.node[n].root = s.node[n].root
                  /\ n \in RootsOf(s) /\ s.node[n].plan = Here /\ s.node[n].action # "read"
                       => t.node[n].const
<1> DEFINE R == {n \in RootsOf(s) : s.node[n].plan = Here /\ s.node[n].action # "read"}
           fifo(n) == IF s.node[n].rootFifo = -1 THEN 0 ELSE s.node[n].rootFifo
           f == [n \in DOMAIN s.node |->
                   IF n \in R THEN [s.node[n] EXCEPT !.const = TRUE, !.rootFifo = fifo(n)]
                   ELSE s.node[n]]
           t == MarkRootsConst(s)
<1>1. t \in StateOf(K)
  BY MarkRootsConstFrom DEF From
<1>2. t = [s EXCEPT !.node = f]
  BY DEF MarkRootsConst
<1>3. t.node = f /\ t.plan = s.plan
  BY <1>2 DEF StateOf
<1> HIDE DEF t
<1>4. ASSUME NEW n \in DOMAIN s.node
      PROVE  /\ Unmoved(t.node[n], s.node[n]) /\ t.node[n].root = s.node[n].root
             /\ n \in R => t.node[n].const
  <2>1. s.node[n] \in NodeOf(K)
    BY StateParts, ElementOfSeq
  <2>2. t.node[n] = IF n \in R THEN [s.node[n] EXCEPT !.const = TRUE, !.rootFifo = fifo(n)]
                    ELSE s.node[n]
    BY <1>3
  <2> HIDE DEF f, R, fifo
  <2>3. LET m == [s.node[n] EXCEPT !.const = TRUE, !.rootFifo = fifo(n)]
        IN  Unmoved(m, s.node[n]) /\ m.root = s.node[n].root /\ m.const
    BY <2>1 DEF NodeOf, Unmoved
  <2>4. QED
    BY <2>2, <2>3 DEF Unmoved
<1>5. DOMAIN t.node = DOMAIN s.node
  BY <1>3
<1>6. QED
  BY <1>1, <1>3, <1>4, <1>5 DEF t

LEMMA FinishRefs ==
  ASSUME PlanInv, EdgesInv, RefsInv, Finish
  PROVE  RefsInv'
<1> DEFINE K      == Len(node) + 4
           all    == GetRoots(State)
           done   == MarkRootsConst(all)
           marked == IF self.query.sources = << >> THEN done ELSE all
           const  == \A n \in RootsOf(marked) : marked.node[n].const
           P      == [marked.plan EXCEPT !.step = "built", !.isConst = const]
           X      == {}
           W      == {}
           c      == Here
<1>1. /\ phase = "build" /\ node' = marked.node /\ plans' = [plans EXCEPT ![Here] = P]
      /\ stack' = Tail(stack) /\ self.step = "finish" /\ self.i > Len(self.constPlans)
  BY DEF Finish, At
<1>2. /\ K \in Nat /\ State \in StateOf(K) /\ Fit(State, Here, X) /\ State.plan = self
      /\ State.node = node /\ self \in PlanOf(K) /\ self = plans[Here]
      /\ Here \in Open /\ Here \in Live /\ Here \in DOMAIN plans
  BY <1>1, Start, Place
<1>3. \A n \in GraphOf(Here) : n \in DOMAIN node
  BY <1>2 DEF EdgesInv, Homed
<1> HIDE DEF K, X
<1>4. Tuned(all, State, K, Here, X)
  BY <1>2, GetRootsFit
<1>5. /\ all \in StateOf(K) /\ all.plan = self /\ DOMAIN all.node = DOMAIN node
      /\ \A n \in DOMAIN node : Unmoved(all.node[n], node[n])
  BY <1>2, GetRootsParts
<1> HIDE DEF all
<1>6. Tuned(done, State, K, Here, X)
  <2>1. Fit(all, Here, X)
    BY <1>4 DEF Tuned
  <2>2. Tuned(MarkRootsConst(all), all, K, Here, X)
    BY <1>2, <1>5, <2>1, MarkRootsConstFit
  <2>3. QED
    BY <1>2, <1>4, <2>2, TunedTrans
<1>7. /\ done \in StateOf(K) /\ done.plan = self
      /\ \A n \in DOMAIN node :
           /\ Unmoved(done.node[n], all.node[n]) /\ done.node[n].root = all.node[n].root
           /\ n \in RootsOf(all) /\ all.node[n].plan = Here /\ all.node[n].action # "read"
                => done.node[n].const
  BY <1>2, <1>5, MarkRootsConstParts
<1> HIDE DEF done
<1>8. /\ marked \in StateOf(K) /\ marked.plan = self /\ Kin(marked, Here)
      /\ \A n \in DOMAIN node : Unmoved(marked.node[n], node[n])
  BY <1>4, <1>5, <1>6, <1>7 DEF Tuned, Fit, Unmoved
<1>9. Constant(self.query) => const
  <2>1. ASSUME Constant(self.query), NEW n \in RootsOf(marked) PROVE marked.node[n].const
    <3>1. marked = done
      BY <2>1 DEF Constant
    <3>2. n \in GraphOf(Here) /\ done.node[n].root
      BY <1>2, <1>7, <2>1, <3>1 DEF RootsOf, GraphOf
    <3>3. n \in DOMAIN node
      BY <1>3, <3>2
    <3>4. node[n].plan = Here /\ node[n].action # "read"
      BY <1>2, <2>1, <3>2 DEF RefsInv, SelfMade
    <3>5. all.node[n].plan = Here /\ all.node[n].action # "read"
      BY <1>5, <3>3, <3>4 DEF Unmoved
    <3>6. n \in RootsOf(all)
      BY <1>2, <1>5, <1>7, <3>2, <3>3 DEF RootsOf, GraphOf
    <3>7. QED
      BY <1>7, <3>1, <3>3, <3>5, <3>6
  <2>2. QED
    BY <2>1
<1> HIDE DEF marked, const
<1>10. /\ P.graph = self.graph /\ P.step = "built" /\ P.current = self.current
       /\ P.opTrue = self.opTrue /\ P.isConst = const /\ P.next = self.next
       /\ SameKind(P) /\ SameTask(marked.plan, self)
  <2>1. marked.plan \in PlanOf(K)
    BY <1>2, <1>8, StateParts
  <2>2. /\ P.graph = self.graph /\ P.step = "built" /\ P.current = self.current
        /\ P.opTrue = self.opTrue /\ P.isConst = const /\ P.next = self.next
    BY <1>8, <2>1 DEF PlanOf
  <2>3. SameKind(P)
    BY <1>8, <2>1 DEF PlanOf, SameKind
  <2>4. QED
    BY <1>8, <2>2, <2>3 DEF SameTask
<1> HIDE DEF P
<1>11. Range(stack') = Open \ {Here} /\ c \in {Here} \cup Pending(Here) /\ c = Here
  <2>1. stack \in Seq(1..Len(plans)) /\ Descends(stack) /\ stack # << >> /\ Len(plans) \in Nat
    BY <1>1, Building DEF PlanInv, Waiting
  <2>2. QED
    BY <1>1, <2>1, Pop DEF Here, Open
<1>12. Keeps(marked, Here, W)
  <2>1. Range(marked.plan.graph) = GraphOf(Here)
    BY <1>2, <1>8 DEF GraphOf
  <2>2. QED
    BY <1>1, <1>8, <1>10, <2>1, ShrunkKeeps
<1>13. ValuesOf(self) = {}
  <2>1. self.constPlans \in Seq(Nat) /\ self.i \in Nat
    BY <1>2 DEF PlanOf
  <2>2. DOMAIN self.constPlans = 1..Len(self.constPlans) /\ Len(self.constPlans) \in Nat
    BY <2>1, LenProperties
  <2>3. ASSUME NEW j \in DOMAIN self.constPlans PROVE ~(j >= self.i)
    BY <1>1, <2>1, <2>2
  <2>4. QED
    BY <1>1, <2>3 DEF ValuesOf
<1>14. Here # 1 => InClauses(marked.node, P) /\ InEnd(marked.node, P)
  <2>1. ASSUME Here # 1 PROVE InClauses(marked.node, P) /\ InEnd(marked.node, P)
    <3>1. InEnd(node, self)
      BY <1>1, <2>1, MemberHere
    <3>2. InClauses(marked.node, P)
      BY <1>10 DEF InClauses, ClauseSteps
    <3>3. EndOf(P) = EndOf(self) /\ P.isUnion = self.isUnion
      BY <1>10 DEF EndOf, SameKind
    <3>4. Stands(node, self, EndOf(self))
      BY <1>1, <3>1 DEF InEnd, AfterSteps
    <3>5. Stands(marked.node, P, EndOf(P))
      BY <1>2, <1>3, <1>8, <1>10, <3>3, <3>4 DEF Stands, GraphOf, Unmoved
    <3>6. P.isUnion => P.current # P.opTrue \/ P.isConst
      BY <1>1, <1>9, <1>10, <3>1, <3>3 DEF InEnd, AfterSteps
    <3>7. InEnd(marked.node, P)
      BY <1>10, <3>5, <3>6 DEF InEnd, AfterSteps
    <3>8. QED
      BY <3>2, <3>7
  <2>2. QED
    BY <2>1
<1>15. "disable" \in {P.step, P.next} => P.query.op = "delete"
  BY <1>1, <1>10, HereKind DEF SameKind
<1>16. P.graph = marked.plan.graph /\ P.step \in {"finish", "built"} /\ \A w \in W : FALSE
  BY <1>8, <1>10
<1> HIDE DEF W, c
<1>17. Kin(marked, c) /\ Carries(marked, W) /\ Holds(marked, c) /\ Firm(marked, c) /\ Mean(marked)
  BY <1>11, <1>12 DEF Keeps
<1>18. QED
  BY <1>1, <1>2, <1>8, <1>10, <1>11, <1>13, <1>14, <1>15, <1>16, <1>17, StepRefs

(* Another value in one field of a node. *)
LEMMA EndedParts ==
  ASSUME NEW K \in Nat, NEW s \in StateOf(K), NEW m, NEW x
  PROVE  LET t == [s EXCEPT !.node[m].unionEnds = Append(@, x)]
         IN  /\ t.plan = s.plan
             /\ \A n \in DOMAIN s.node :
                  /\ t.node[n].plan = s.node[n].plan /\ t.node[n].action = s.node[n].action
                  /\ t.node[n].passive = s.node[n].passive /\ t.node[n].waits = s.node[n].waits
                  /\ t.node[n].unionEnds \in {s.node[n].unionEnds, Append(s.node[n].unionEnds, x)}
<1> DEFINE t == [s EXCEPT !.node[m].unionEnds = Append(@, x)]
<1>1. t.plan = s.plan
  BY DEF StateOf
<1>2. ASSUME NEW n \in DOMAIN s.node
      PROVE  /\ t.node[n].plan = s.node[n].plan /\ t.node[n].action = s.node[n].action
             /\ t.node[n].passive = s.node[n].passive /\ t.node[n].waits = s.node[n].waits
             /\ t.node[n].unionEnds \in {s.node[n].unionEnds, Append(s.node[n].unionEnds, x)}
  <2>1. s.node[n] \in NodeOf(K)
    BY StateParts, ElementOfSeq
  <2>2. CASE n = m
    <3> DEFINE v == Append(s.node[n].unionEnds, x)
    <3>1. t.node[n] = [s.node[n] EXCEPT !.unionEnds = v]
      BY <1>2, <2>2 DEF StateOf
    <3> HIDE DEF t, v
    <3>2. /\ t.node[n].plan = s.node[n].plan /\ t.node[n].action = s.node[n].action
          /\ t.node[n].passive = s.node[n].passive /\ t.node[n].waits = s.node[n].waits
          /\ t.node[n].unionEnds = v
      BY <2>1, <3>1 DEF NodeOf
    <3>3. QED
      BY <3>2 DEF v
  <2>3. CASE n # m
    <3>1. t.node[n] = s.node[n]
      BY <1>2, <2>3 DEF StateOf
    <3> HIDE DEF t
    <3>2. QED
      BY <3>1
  <2>4. QED
    BY <2>2, <2>3
<1>3. QED
  BY <1>1, <1>2

Silenced(t, s, m) ==
  /\ t.plan = s.plan
  /\ \A n \in DOMAIN s.node :
       /\ t.node[n].plan = s.node[n].plan /\ t.node[n].action = s.node[n].action
       /\ t.node[n].waits = s.node[n].waits
       /\ t.node[n].unionEnds = s.node[n].unionEnds
       /\ n # m => t.node[n].passive = s.node[n].passive

LEMMA SilencedParts ==
  ASSUME NEW K \in Nat, NEW s \in StateOf(K), NEW m, NEW v \in BOOLEAN
  PROVE  Silenced([s EXCEPT !.node[m].passive = v], s, m)
<1> DEFINE t == [s EXCEPT !.node[m].passive = v]
<1>1. t.plan = s.plan
  BY DEF StateOf
<1>2. ASSUME NEW n \in DOMAIN s.node
      PROVE  /\ t.node[n].plan = s.node[n].plan /\ t.node[n].action = s.node[n].action
             /\ t.node[n].waits = s.node[n].waits
             /\ t.node[n].unionEnds = s.node[n].unionEnds
             /\ n # m => t.node[n].passive = s.node[n].passive
  <2>1. s.node[n] \in NodeOf(K)
    BY StateParts, ElementOfSeq
  <2>2. CASE n = m
    <3>1. t.node[n] = [s.node[n] EXCEPT !.passive = v]
      BY <1>2, <2>2 DEF StateOf
    <3> HIDE DEF t
    <3>2. QED
      BY <2>1, <2>2, <3>1 DEF NodeOf
  <2>3. CASE n # m
    <3>1. t.node[n] = s.node[n]
      BY <1>2, <2>3 DEF StateOf
    <3> HIDE DEF t
    <3>2. QED
      BY <3>1
  <2>4. QED
    BY <2>2, <2>3
<1>3. QED
  BY <1>1, <1>2 DEF Silenced

(* The processes of this plan refer to the end of a union member from now on. *)
LEMMA MemberParts ==
  ASSUME PlanInv, EdgesInv, UnionConsumed
  PROVE  LET c == self.child
             w == plans[c].current
         IN  /\ MemberTaken.plan = Consume(State).plan
             /\ \A n \in DOMAIN node :
                  /\ MemberTaken.node[n].plan = node[n].plan
                  /\ MemberTaken.node[n].action = node[n].action
                  /\ MemberTaken.node[n].waits = node[n].waits
                  /\ MemberTaken.node[n].unionEnds
                       \in {node[n].unionEnds, Append(node[n].unionEnds, w)}
                  /\ n # plans[c].opTrue \/ plans[c].isConst
                       => MemberTaken.node[n].passive = node[n].passive
<1> DEFINE K == Len(node) + 4
           c == self.child
           w == plans[c].current
           e == plans[c].opTrue
           m == self.opTrue
           s1 == Consume(State)
           s2 == [s1 EXCEPT !.node[m].unionEnds = Append(@, w)]
           s3 == [s2 EXCEPT !.node[e].passive = TRUE]
<1>1. /\ K \in Nat /\ s1 \in StateOf(K) /\ s1.node = node /\ MemberEnded \in StateOf(K)
  <2>1. phase = "build"
    BY DEF UnionConsumed, At
  <2>2. K \in Nat
    BY <2>1, Start
  <2>3. s1 \in StateOf(K) /\ s1.node = node /\ MemberEnded \in StateOf(K)
    BY UnionConsumedFits DEF Fits
  <2>4. QED
    BY <2>2, <2>3
<1>2. MemberEnded = s2 /\ MemberTaken = IF plans[c].isConst THEN s2 ELSE s3
  BY DEF MemberEnded, MemberTaken
<1> HIDE DEF K, c, w, e, m, s1
<1>3. /\ s2.plan = s1.plan
      /\ \A n \in DOMAIN s1.node :
           /\ s2.node[n].plan = s1.node[n].plan /\ s2.node[n].action = s1.node[n].action
           /\ s2.node[n].passive = s1.node[n].passive /\ s2.node[n].waits = s1.node[n].waits
           /\ s2.node[n].unionEnds \in {s1.node[n].unionEnds, Append(s1.node[n].unionEnds, w)}
  BY <1>1, EndedParts
<1>4. DOMAIN s2.node = DOMAIN s1.node
  BY <1>1 DEF StateOf
<1>5. s2 \in StateOf(K)
  BY <1>1, <1>2
<1> HIDE DEF s2
<1>6. Silenced(s3, s2, e)
  <2>1. TRUE \in BOOLEAN
    OBVIOUS
  <2>2. QED
    BY <1>1, <1>5, <2>1, SilencedParts
<1> HIDE DEF s3
<1>7. ASSUME NEW t, t = IF plans[c].isConst THEN s2 ELSE s3
      PROVE  /\ t.plan = s1.plan
             /\ \A n \in DOMAIN node :
                  /\ t.node[n].plan = node[n].plan /\ t.node[n].action = node[n].action
                  /\ t.node[n].waits = node[n].waits
                  /\ t.node[n].unionEnds \in {node[n].unionEnds, Append(node[n].unionEnds, w)}
                  /\ n # e \/ plans[c].isConst => t.node[n].passive = node[n].passive
  <2>1. CASE plans[c].isConst
    BY <1>1, <1>3, <1>7, <2>1
  <2>2. CASE ~plans[c].isConst
    BY <1>1, <1>3, <1>4, <1>6, <1>7, <2>2 DEF Silenced
  <2>3. QED
    BY <2>1, <2>2
<1>8. QED
  BY <1>2, <1>7 DEF c, w, e, s1

(* What is referred to from now on stays, in the graph or in that of a value. *)
Grounded(s, c, W) ==
  \A w \in W : /\ Fixed(w) /\ ~s.node[w].passive
               /\ \/ w \in Range(s.plan.graph) /\ ~Bare(Here)
                  \/ \E d \in ValuesOf(self) \ {c} : w \in GraphOf(d)

LEMMA GroundedRefs ==
  ASSUME PlanInv, EdgesInv, RefsInv, phase = "build", self.step # "finish",
         NEW K \in Nat, NEW s \in StateOf(K), NEW c \in {Here} \cup Pending(Here),
         c \notin Range(self.constPlans), NEW W, Keeps(s, c, W), Grounded(s, c, W),
         Go(s, "union"), ~Bare(Here), s.plan.next = self.next,
         Here # 1 => EndsWell(s)
  PROVE  RefsInv'
<1> DEFINE step == "union"
<1>1. /\ step \in GoSteps \ ClauseSteps /\ step # "finish" /\ Go(s, step)
      /\ "disable" \in {step, s.plan.next} => self.query.op = "delete"
  <2>1. step \in GoSteps \ ClauseSteps /\ step # "finish" /\ step # "disable" /\ Go(s, step)
    BY DEF GoSteps, ClauseSteps
  <2>2. s.plan.next = "disable" => self.query.op = "delete"
    BY HereKind
  <2>3. QED
    BY <2>1, <2>2
<1> HIDE DEF step
<1>2. QED
  BY <1>1, AfterRefs DEF Grounded

LEMMA UnionConsumedRefs ==
  ASSUME PlanInv, EdgesInv, RefsInv, Supported, UnionConsumed
  PROVE  RefsInv'
<1> DEFINE K == Len(node) + 4
           c == self.child
           w == plans[c].current
           e == plans[c].opTrue
           s == MemberTaken
           b == Consume(State)
           W == {w}
<1>1. phase = "build" /\ self.step = "union member" /\ Go(s, "union")
  BY DEF UnionConsumed, At, MemberTaken, MemberEnded
<1>2. /\ K \in Nat /\ State.plan = self /\ State.node = node /\ self \in PlanOf(K)
      /\ self = plans[Here] /\ Here \in Open /\ Here \in Live
      /\ DOMAIN node = 1..Len(node)
  BY <1>1, Start, Building, Place, StateParts DEF Open, PlanInv
<1>3. /\ c \in Pending(Here) /\ c \notin Range(self.constPlans) /\ c \in DOMAIN plans
      /\ e \in 1..Len(node) => node[e].plan = c
      /\ s \in StateOf(K) /\ Kin(s, c)
  BY UnionConsumedFits DEF Fit
<1>4. c \in Live \ {1} /\ c # Here /\ plans[c].step = "built"
  <2>1. c \in {Here} \cup Pending(Here)
    BY <1>3
  <2>2. c # Here /\ c \in Live /\ c \notin Open /\ c # 1
    BY <1>1, <1>3, <2>1, Place
  <2>3. QED
    BY <1>3, <2>2 DEF PlanInv, Waiting, Open
<1>5. plans[c].isUnion /\ self.query.unions # << >>
  <2>1. Calling(Here)
    BY <1>2 DEF RefsInv
  <2>2. QED
    BY <1>1, <1>2, <2>1 DEF Calling
<1>6. w \in GraphOf(c) /\ ~node[w].passive /\ (w # e \/ plans[c].isConst)
  <2>1. InEnd(node, plans[c])
    BY <1>4 DEF RefsInv
  <2>2. QED
    BY <1>4, <1>5, <2>1 DEF InEnd, EndOf, Stands, GraphOf
<1>7. w \in 1..Len(node) /\ node[w].plan = c
  <2>1. w \in DOMAIN node
    BY <1>4, <1>6 DEF EdgesInv, Homed
  <2>2. w # NULL
    BY <1>2, <2>1 DEF NULL
  <2>3. Owned(c)
    BY <1>3 DEF EdgesInv
  <2>4. QED
    BY <1>2, <2>1, <2>2, <2>3 DEF Owned
<1>8. Fixed(w)
  BY <1>2, <1>3, <1>4, <1>6, <1>7 DEF Fixed
<1>9. ~Bare(Here) /\ ~Constant(self.query)
  <2>1. self.query \notin Valueless
    BY <1>5, ValuelessFacts
  <2>2. self.query.op # "delete"
    <3>1. CASE Here = 1
      BY <1>1, <1>5, <3>1, HereKind DEF Supported
    <3>2. CASE Here # 1
      BY <1>1, <3>2, HereKind DEF Supported
    <3>3. QED
      BY <3>1, <3>2
  <2>3. QED
    BY <1>2, <1>5, <2>1, <2>2 DEF Bare, Constant
<1>10. /\ s.plan = b.plan
       /\ \A n \in DOMAIN node :
            /\ s.node[n].plan = node[n].plan
            /\ s.node[n].waits = node[n].waits
            /\ s.node[n].unionEnds \in {node[n].unionEnds, Append(node[n].unionEnds, w)}
            /\ n # e \/ plans[c].isConst => s.node[n].passive = node[n].passive
  BY MemberParts
<1>11. Base(b, c, K)
  <2>1. b = Joined(State, c)
    BY <1>2 DEF Consume, Joined
  <2> HIDE DEF b, c
  <2>2. QED
    BY <1>1, <1>3, <2>1, JoinedBase
<1> HIDE DEF K, c, w, e, s, b
<1>12. /\ Range(s.plan.graph) = GraphOf(Here) \cup GraphOf(c)
       /\ SameTask(s.plan, self) /\ s.plan.opTrue = self.opTrue
       /\ s.plan.current = self.current /\ s.plan.next = self.next
  BY <1>10, <1>11 DEF Base, SameExits
<1>13. Carries(s, W)
  <2>1. ASSUME NEW n \in Range(s.plan.graph) PROVE n \in 1..Len(node) /\ ReferIn(s.node[n]) \subseteq W \cup Refers(n)
    <3>1. n \in 1..Len(node)
      BY <1>3, <1>12, <2>1 DEF Kin
    <3>2. node[n].unionEnds \in Seq(Nat)
      <4>1. node[n] \in NodeOf(Len(node))
        BY <1>2, <3>1, ElementOfSeq DEF PlanInv
      <4>2. QED
        BY <4>1 DEF NodeOf
    <3>3. Range(Append(node[n].unionEnds, w)) = Range(node[n].unionEnds) \cup {w}
      <4>1. w \in Nat
        BY <1>7
      <4>2. QED
        BY <3>2, <4>1, RangeOfAppend
    <3>4. Range(s.node[n].unionEnds) \subseteq Range(node[n].unionEnds) \cup W
      <4>1. CASE s.node[n].unionEnds = node[n].unionEnds
        BY <4>1
      <4>2. CASE s.node[n].unionEnds = Append(node[n].unionEnds, w)
        BY <3>3, <4>2
      <4>3. QED
        BY <1>2, <1>10, <3>1, <4>1, <4>2
    <3>5. s.node[n].waits = node[n].waits
      BY <1>2, <1>10, <3>1
    <3>6. QED
      BY <3>1, <3>4, <3>5 DEF ReferIn, Refers
  <2> HIDE DEF W
  <2>2. QED
    BY <2>1 DEF Carries
<1>14. Holds(s, c)
  BY <1>12 DEF Holds
<1>15. Firm(s, c)
  <2>1. ASSUME NEW v, Fixed(v) PROVE ~s.node[v].passive
    <3>1. v \in DOMAIN node /\ ~node[v].passive
      BY <2>1 DEF Fixed
    <3>2. v = e => plans[c].isConst
      BY <1>2, <1>3, <1>5, <2>1, <3>1 DEF Fixed, e
    <3>3. QED
      BY <1>10, <3>1, <3>2
  <2>2. QED
    BY <2>1 DEF Firm
<1>16. Mean(s)
  BY <1>9 DEF Mean
<1>17. Keeps(s, c, W)
  BY <1>3, <1>12, <1>13, <1>14, <1>15, <1>16 DEF Keeps
<1>18. \A v \in W : /\ Fixed(v) /\ ~s.node[v].passive
                    /\ \/ v \in Range(s.plan.graph) /\ ~Bare(Here)
                       \/ \E d \in ValuesOf(self) \ {c} : v \in GraphOf(d)
  <2>1. ~s.node[w].passive
    BY <1>2, <1>6, <1>7, <1>10
  <2>2. w \in Range(s.plan.graph)
    BY <1>6, <1>12
  <2>3. QED
    BY <1>8, <1>9, <2>1, <2>2
<1>19. Here # 1 => EndsWell(s)
  <2>1. ASSUME Here # 1 PROVE EndsWell(s)
    <3>1. InEnd(node, self) /\ self.step \in AfterSteps
      BY <1>1, <2>1, MemberHere DEF AfterSteps
    <3>2. /\ EndOf(self) \in GraphOf(Here) /\ ~node[EndOf(self)].passive
          /\ self.isUnion => self.current # self.opTrue \/ Constant(self.query)
      BY <1>2, <3>1 DEF InEnd, Stands, GraphOf
    <3>3. EndOf(self) \in DOMAIN node
      BY <1>2, <3>2 DEF EdgesInv, Homed
    <3>4. EndOf(self) # NULL
      BY <1>2, <3>3 DEF NULL
    <3>5. node[EndOf(self)].plan = Here
      <4>1. Owned(Here)
        BY <1>1, Place DEF EdgesInv
      <4>2. EndOf(self) \in {self.current, self.opTrue}
        BY DEF EndOf
      <4>3. QED
        BY <1>2, <3>4, <4>1, <4>2 DEF Owned
    <3>6. EndOf(self) # e
      BY <1>2, <1>3, <1>4, <3>3, <3>5
    <3>7. ~s.node[EndOf(self)].passive
      BY <1>10, <3>2, <3>3, <3>6
    <3>8. s.plan.isUnion = self.isUnion
      BY <1>12 DEF SameTask
    <3>9. EndOf(s.plan) = EndOf(self)
      BY <1>12, <3>8 DEF EndOf
    <3>10. QED
      BY <1>12, <3>2, <3>7, <3>8, <3>9 DEF EndsWell, Stands
  <2>2. QED
    BY <2>1
<1>20. /\ K \in Nat /\ s \in StateOf(K) /\ self.step # "finish"
       /\ c \in {Here} \cup Pending(Here)
  BY <1>1, <1>2, <1>3
<1>21. Grounded(s, c, W)
  BY <1>18 DEF Grounded
<1> HIDE DEF W
<1>22. QED
  BY <1>1, <1>3, <1>9, <1>12, <1>17, <1>19, <1>20, <1>21, GroundedRefs

-----------------------------------------------------------------------------
(* The operation. *)

(* A process of the clauses after one of the changes that it makes: no references but W. *)
Mild(m, o, W) ==
  /\ m.plan = o.plan /\ m.unionEnds = o.unionEnds /\ m.waits \subseteq W \cup o.waits
  /\ m.action = "read" => o.action = "read"

(* Only processes of S become passive. *)
Turn(t, s, S, W) ==
  /\ Len(s.node) <= Len(t.node) /\ SameTask(t.plan, s.plan)
  /\ \A n \in 1..Len(s.node) :
       Mild(t.node[n], s.node[n], W) /\ (t.node[n].passive => s.node[n].passive \/ n \in S)
  /\ \A n \in (Len(s.node) + 1)..Len(t.node) : Newborn(t.node[n], W)
  /\ Range(s.plan.graph) \subseteq Range(t.plan.graph)
  /\ Range(t.plan.graph) \subseteq Range(s.plan.graph) \cup ((Len(s.node) + 1)..Len(t.node))

Turned(t, s, K, S, W) == t \in StateOf(K) /\ Turn(t, s, S, W)

LEMMA TurnedTrans ==
  ASSUME NEW K \in Nat, NEW S, NEW W, NEW s \in StateOf(K), NEW t, NEW u,
         Turned(t, s, K, S, W), Turned(u, t, K, S, W)
  PROVE  Turned(u, s, K, S, W)
<1>1. Len(s.node) \in Nat /\ Len(t.node) \in Nat /\ Len(u.node) \in Nat
  BY StateParts DEF Turned
<1>2. Len(s.node) <= Len(t.node) /\ Len(t.node) <= Len(u.node)
  BY DEF Turned, Turn
<1>3. \A n \in 1..Len(s.node) : n \in 1..Len(t.node)
  BY <1>1, <1>2
<1>4. ASSUME NEW n \in 1..Len(s.node)
      PROVE  Mild(u.node[n], s.node[n], W) /\ (u.node[n].passive => s.node[n].passive \/ n \in S)
  <2>1. /\ Mild(t.node[n], s.node[n], W) /\ (t.node[n].passive => s.node[n].passive \/ n \in S)
        /\ Mild(u.node[n], t.node[n], W) /\ (u.node[n].passive => t.node[n].passive \/ n \in S)
    BY <1>3, <1>4 DEF Turned, Turn
  <2>2. Mild(u.node[n], s.node[n], W)
    BY <2>1 DEF Mild
  <2>3. QED
    BY <2>1, <2>2
<1>5. ASSUME NEW n \in (Len(s.node) + 1)..Len(u.node) PROVE Newborn(u.node[n], W)
  <2>1. CASE n \in (Len(t.node) + 1)..Len(u.node)
    BY <2>1 DEF Turned, Turn
  <2>2. CASE n \notin (Len(t.node) + 1)..Len(u.node)
    <3>1. n \in 1..Len(t.node) /\ n \in (Len(s.node) + 1)..Len(t.node)
      BY <1>1, <1>2, <2>2
    <3>2. Mild(u.node[n], t.node[n], W) /\ Newborn(t.node[n], W)
      BY <3>1 DEF Turned, Turn
    <3>3. QED
      BY <3>2 DEF Mild, Newborn
  <2>3. QED
    BY <2>1, <2>2
<1>6. /\ (Len(s.node) + 1)..Len(t.node) \subseteq (Len(s.node) + 1)..Len(u.node)
      /\ (Len(t.node) + 1)..Len(u.node) \subseteq (Len(s.node) + 1)..Len(u.node)
      /\ Len(s.node) <= Len(u.node)
  BY <1>1, <1>2
<1>7. Range(u.plan.graph) \subseteq Range(s.plan.graph) \cup ((Len(s.node) + 1)..Len(u.node))
  BY <1>6 DEF Turned, Turn
<1>8. Range(s.plan.graph) \subseteq Range(u.plan.graph)
  BY DEF Turned, Turn
<1>9. SameTask(u.plan, s.plan)
  BY DEF Turned, Turn, SameTask
<1>10. QED
  BY <1>4, <1>5, <1>6, <1>7, <1>8, <1>9 DEF Turned, Turn

LEMMA GrowsTurned ==
  ASSUME NEW K \in Nat, NEW S, NEW W, NEW s \in StateOf(K), NEW t, Grows(t, s, K, W)
  PROVE  Turned(t, s, K, S, W)
<1>1. \A n \in 1..Len(s.node) :
        Mild(t.node[n], s.node[n], W) /\ (t.node[n].passive => s.node[n].passive \/ n \in S)
  BY DEF Grows, Grew, Unmoved, Mild
<1>2. QED
  BY <1>1 DEF Grows, Grew, Turned, Turn

(* One process changes. *)
LEMMA NodeTurned ==
  ASSUME NEW K \in Nat, NEW S, NEW W, NEW s \in StateOf(K), NEW m, NEW v,
         [s EXCEPT !.node[m] = v] \in StateOf(K),
         m \in DOMAIN s.node =>
           Mild(v, s.node[m], W) /\ (v.passive => s.node[m].passive \/ m \in S)
  PROVE  /\ Turned([s EXCEPT !.node[m] = v], s, K, S, W)
         /\ [s EXCEPT !.node[m] = v].plan = s.plan
<1> DEFINE t == [s EXCEPT !.node[m] = v]
<1>1. t.plan = s.plan /\ t.node = [s.node EXCEPT ![m] = v] /\ t \in StateOf(K)
  BY DEF StateOf
<1> HIDE DEF t
<1>2. DOMAIN s.node = 1..Len(s.node) /\ Len(s.node) \in Nat
      /\ DOMAIN t.node = 1..Len(t.node) /\ Len(t.node) \in Nat
  BY <1>1, StateParts
<1>3. Len(t.node) = Len(s.node)
  <2>1. DOMAIN t.node = DOMAIN s.node
    BY <1>1
  <2>2. QED
    BY <1>2, <2>1
<1>4. (Len(s.node) + 1)..Len(t.node) = {} /\ Len(s.node) <= Len(t.node)
  BY <1>2, <1>3
<1>5. ASSUME NEW n \in 1..Len(s.node)
      PROVE  Mild(t.node[n], s.node[n], W) /\ (t.node[n].passive => s.node[n].passive \/ n \in S)
  <2>1. CASE n = m
    BY <1>1, <1>2, <2>1
  <2>2. CASE n # m
    BY <1>1, <1>2, <2>2 DEF Mild
  <2>3. QED
    BY <2>1, <2>2
<1>6. SameTask(t.plan, s.plan)
  BY <1>1 DEF SameTask
<1>7. QED
  BY <1>1, <1>4, <1>5, <1>6 DEF Turned, Turn, t

LEMMA NodeFieldTurned ==
  ASSUME NEW K \in Nat, NEW S, NEW W, NEW s \in StateOf(K), NEW m
  PROVE  /\ \A v \in Actions \ {"read"} : Turned([s EXCEPT !.node[m].action = v], s, K, S, W)
         /\ \A v \in BOOLEAN : Turned([s EXCEPT !.node[m].secondary = v], s, K, S, W)
         /\ \A v \in BOOLEAN : Turned([s EXCEPT !.node[m].dual = v], s, K, S, W)
         /\ \A v \in BOOLEAN : Turned([s EXCEPT !.node[m].second = v], s, K, S, W)
         /\ \A v \in BOOLEAN : Turned([s EXCEPT !.node[m].killed = v], s, K, S, W)
         /\ m \in S => \A v \in BOOLEAN : Turned([s EXCEPT !.node[m].passive = v], s, K, S, W)
         /\ \A v \in SUBSET (1..K) : v \subseteq W \cup s.node[m].waits =>
              Turned([s EXCEPT !.node[m].waits = v], s, K, S, W)
<1>1. m \in DOMAIN s.node => s.node[m] \in NodeOf(K)
  BY StateParts, ElementOfSeq
<1>2. ASSUME NEW v \in Actions \ {"read"}
      PROVE  Turned([s EXCEPT !.node[m].action = v], s, K, S, W)
  <2> DEFINE w == [s.node[m] EXCEPT !.action = v]
  <2>1. m \in DOMAIN s.node =>
          Mild(w, s.node[m], W) /\ (w.passive => s.node[m].passive \/ m \in S)
    BY <1>1, <1>2 DEF Mild, NodeOf
  <2>2. [s EXCEPT !.node[m] = w] \in StateOf(K)
    BY NodeFieldFrom DEF From
  <2> HIDE DEF w
  <2>3. Turned([s EXCEPT !.node[m] = w], s, K, S, W)
    BY <2>1, <2>2, NodeTurned
  <2>4. QED
    BY <2>3 DEF w
<1>3. ASSUME NEW v \in BOOLEAN
      PROVE  Turned([s EXCEPT !.node[m].secondary = v], s, K, S, W)
  <2> DEFINE w == [s.node[m] EXCEPT !.secondary = v]
  <2>1. m \in DOMAIN s.node =>
          Mild(w, s.node[m], W) /\ (w.passive => s.node[m].passive \/ m \in S)
    BY <1>1, <1>3 DEF Mild, NodeOf
  <2>2. [s EXCEPT !.node[m] = w] \in StateOf(K)
    BY NodeFieldFrom DEF From
  <2> HIDE DEF w
  <2>3. Turned([s EXCEPT !.node[m] = w], s, K, S, W)
    BY <2>1, <2>2, NodeTurned
  <2>4. QED
    BY <2>3 DEF w
<1>4. ASSUME NEW v \in BOOLEAN
      PROVE  Turned([s EXCEPT !.node[m].dual = v], s, K, S, W)
  <2> DEFINE w == [s.node[m] EXCEPT !.dual = v]
  <2>1. m \in DOMAIN s.node =>
          Mild(w, s.node[m], W) /\ (w.passive => s.node[m].passive \/ m \in S)
    BY <1>1, <1>4 DEF Mild, NodeOf
  <2>2. [s EXCEPT !.node[m] = w] \in StateOf(K)
    BY NodeFieldFrom DEF From
  <2> HIDE DEF w
  <2>3. Turned([s EXCEPT !.node[m] = w], s, K, S, W)
    BY <2>1, <2>2, NodeTurned
  <2>4. QED
    BY <2>3 DEF w
<1>5. ASSUME NEW v \in BOOLEAN
      PROVE  Turned([s EXCEPT !.node[m].second = v], s, K, S, W)
  <2> DEFINE w == [s.node[m] EXCEPT !.second = v]
  <2>1. m \in DOMAIN s.node =>
          Mild(w, s.node[m], W) /\ (w.passive => s.node[m].passive \/ m \in S)
    BY <1>1, <1>5 DEF Mild, NodeOf
  <2>2. [s EXCEPT !.node[m] = w] \in StateOf(K)
    BY NodeFieldFrom DEF From
  <2> HIDE DEF w
  <2>3. Turned([s EXCEPT !.node[m] = w], s, K, S, W)
    BY <2>1, <2>2, NodeTurned
  <2>4. QED
    BY <2>3 DEF w
<1>6. ASSUME NEW v \in BOOLEAN
      PROVE  Turned([s EXCEPT !.node[m].killed = v], s, K, S, W)
  <2> DEFINE w == [s.node[m] EXCEPT !.killed = v]
  <2>1. m \in DOMAIN s.node =>
          Mild(w, s.node[m], W) /\ (w.passive => s.node[m].passive \/ m \in S)
    BY <1>1, <1>6 DEF Mild, NodeOf
  <2>2. [s EXCEPT !.node[m] = w] \in StateOf(K)
    BY NodeFieldFrom DEF From
  <2> HIDE DEF w
  <2>3. Turned([s EXCEPT !.node[m] = w], s, K, S, W)
    BY <2>1, <2>2, NodeTurned
  <2>4. QED
    BY <2>3 DEF w
<1>7. ASSUME m \in S, NEW v \in BOOLEAN
      PROVE  Turned([s EXCEPT !.node[m].passive = v], s, K, S, W)
  <2> DEFINE w == [s.node[m] EXCEPT !.passive = v]
  <2>1. m \in DOMAIN s.node =>
          Mild(w, s.node[m], W) /\ (w.passive => s.node[m].passive \/ m \in S)
    BY <1>1, <1>7 DEF Mild, NodeOf
  <2>2. [s EXCEPT !.node[m] = w] \in StateOf(K)
    BY NodeFieldFrom DEF From
  <2> HIDE DEF w
  <2>3. Turned([s EXCEPT !.node[m] = w], s, K, S, W)
    BY <2>1, <2>2, NodeTurned
  <2>4. QED
    BY <2>3 DEF w
<1>8. ASSUME NEW v \in SUBSET (1..K), v \subseteq W \cup s.node[m].waits
      PROVE  Turned([s EXCEPT !.node[m].waits = v], s, K, S, W)
  <2> DEFINE w == [s.node[m] EXCEPT !.waits = v]
  <2>1. m \in DOMAIN s.node =>
          Mild(w, s.node[m], W) /\ (w.passive => s.node[m].passive \/ m \in S)
    BY <1>1, <1>8 DEF Mild, NodeOf
  <2>2. [s EXCEPT !.node[m] = w] \in StateOf(K)
    BY NodeFieldFrom DEF From
  <2> HIDE DEF w
  <2>3. Turned([s EXCEPT !.node[m] = w], s, K, S, W)
    BY <2>1, <2>2, NodeTurned
  <2>4. QED
    BY <2>3 DEF w
<1>9. QED
  BY <1>2, <1>3, <1>4, <1>5, <1>6, <1>7, <1>8

LEMMA TurnedKeeps ==
  ASSUME PlanInv, EdgesInv, RefsInv, phase = "build", NEW K, K = Len(node) + 4, NEW W, NEW S,
         S \subseteq {self.opTrue, self.opFalse}, NEW s, Turned(s, State, K, S, W), Kin(s, Here)
  PROVE  s \in StateOf(K) /\ Keeps(s, Here, W)
<1> DEFINE c == Here
<1>1. /\ Here \in Live /\ Here \in Open /\ self = plans[Here] /\ State.node = node
      /\ State.plan = self /\ plans[Here].step # "built" /\ Here \in DOMAIN plans
  <2>1. Here \in Open /\ Here \in Live /\ Here \in DOMAIN plans
    BY Place
  <2>2. QED
    BY <2>1, Start DEF PlanInv, Waiting, Open
<1>2. s \in StateOf(K) /\ Turn(s, State, S, W)
  BY DEF Turned
<1>3. DOMAIN node = 1..Len(node) /\ Len(node) \in Nat /\ Len(s.node) \in Nat
  <2>1. K \in Nat
    BY Start
  <2>2. QED
    BY <1>2, <2>1, StateParts DEF PlanInv
<1>4. \A n \in DOMAIN node :
        Mild(s.node[n], node[n], W) /\ (s.node[n].passive => node[n].passive \/ n \in S)
  BY <1>1, <1>2, <1>3 DEF Turn
<1>5. \A n \in GraphOf(Here) : n \in DOMAIN node
  BY <1>1 DEF EdgesInv, Homed
<1>6. SameTask(s.plan, self) /\ GraphOf(Here) \subseteq Range(s.plan.graph)
  BY <1>1, <1>2 DEF Turn, GraphOf
<1>7. \A n \in Range(s.plan.graph) :
        \/ n \in DOMAIN node /\ n \in GraphOf(Here)
        \/ n \notin DOMAIN node /\ Newborn(s.node[n], W)
  BY <1>1, <1>2, <1>3, <1>5 DEF Turn, GraphOf
<1>8. Carries(s, W)
  BY <1>3, <1>4, <1>7 DEF Carries, ReferIn, Refers, Mild, Newborn, Range
<1>9. Holds(s, c)
  BY <1>6 DEF Holds
<1>10. Firm(s, c)
  <2>1. ASSUME NEW w, Fixed(w) PROVE ~s.node[w].passive
    <3>1. w \in DOMAIN node /\ ~node[w].passive /\ node[w].plan # Here
      BY <1>1, <2>1 DEF Fixed
    <3>2. w \notin S
      <4>1. Owned(Here)
        BY <1>1 DEF EdgesInv
      <4>2. w # NULL
        BY <1>3, <3>1 DEF NULL
      <4>3. QED
        BY <1>1, <3>1, <4>1, <4>2 DEF Owned
    <3>3. QED
      BY <1>4, <3>1, <3>2
  <2>2. QED
    BY <2>1 DEF Firm
<1>11. Mean(s)
  <2>1. ASSUME Constant(self.query), NEW n \in Range(s.plan.graph)
        PROVE  s.node[n].plan = Here /\ s.node[n].action # "read"
    <3>1. self.query.sources = << >>
      BY <2>1 DEF Constant
    <3>2. CASE n \in DOMAIN node /\ n \in GraphOf(Here)
      <4>1. node[n].plan = Here /\ node[n].action # "read"
        BY <1>1, <2>1, <3>2 DEF RefsInv, SelfMade
      <4>2. QED
        BY <1>4, <3>2, <4>1 DEF Mild
    <3>3. CASE Newborn(s.node[n], W)
      BY <3>1, <3>3 DEF Newborn
    <3>4. QED
      BY <1>7, <3>2, <3>3
  <2>2. QED
    BY <2>1 DEF Mean
<1>12. QED
  BY <1>2, <1>6, <1>8, <1>9, <1>10, <1>11 DEF Keeps

LEMMA DeleteTableTurned ==
  ASSUME NEW K \in Nat, NEW S, NEW W, NEW s \in StateOf(K), s.plan.opTrue \in S
  PROVE  Turned(DeleteTable(s), s, K, S, W)
<1> DEFINE t == [s EXCEPT !.node[s.plan.opFalse].action = "delete"]
           u == [t EXCEPT !.node[s.plan.opTrue].passive = TRUE]
<1>1. Turned(t, s, K, S, W)
  <2>1. "delete" \in Actions \ {"read"}
    BY DEF Actions, Operations
  <2>2. QED
    BY <2>1, NodeFieldTurned
<1> HIDE DEF t
<1>2. Turned(u, t, K, S, W)
  BY <1>1, NodeFieldTurned DEF Turned
<1> HIDE DEF u
<1>3. Turned(u, s, K, S, W)
  BY <1>1, <1>2, TurnedTrans
<1>4. QED
  BY <1>3 DEF DeleteTable, u, t

LEMMA UpdateTableTurned ==
  ASSUME NEW K \in Nat, NEW S, NEW W, NEW s \in StateOf(K), s.plan.opFalse \in S
  PROVE  Turned(UpdateTable(s), s, K, S, W)
<1> DEFINE n  == s.plan.opTrue
           t1 == [s EXCEPT !.node[n].action = "update"]
           t2 == [t1 EXCEPT !.node[n].second = TRUE]
           t3 == [t2 EXCEPT !.node[s.plan.opFalse].passive = TRUE]
           u  == [t3 EXCEPT !.node[n].dual = TRUE]
           v1 == [t3 EXCEPT !.node[s.plan.stages[1]].secondary = TRUE]
           v2 == [v1 EXCEPT !.node[n].killed = TRUE]
<1>1. Turned(t1, s, K, S, W)
  <2>1. "update" \in Actions \ {"read"}
    BY DEF Actions, Operations
  <2>2. QED
    BY <2>1, NodeFieldTurned
<1> HIDE DEF n, t1
<1>2. Turned(t2, t1, K, S, W)
  <2>1. t1 \in StateOf(K)
    BY <1>1 DEF Turned
  <2>2. QED
    BY <2>1, NodeFieldTurned
<1> HIDE DEF t2
<1>3. Turned(t3, t2, K, S, W)
  <2>1. t2 \in StateOf(K)
    BY <1>2 DEF Turned
  <2>2. QED
    BY <2>1, NodeFieldTurned
<1> HIDE DEF t3
<1>4. t3 \in StateOf(K)
  BY <1>3 DEF Turned
<1>5. Turned(u, t3, K, S, W)
  BY <1>4, NodeFieldTurned
<1>6. Turned(v1, t3, K, S, W)
  BY <1>4, NodeFieldTurned
<1> HIDE DEF u, v1
<1>7. Turned(v2, v1, K, S, W)
  <2>1. v1 \in StateOf(K)
    BY <1>6 DEF Turned
  <2>2. QED
    BY <2>1, NodeFieldTurned
<1> HIDE DEF v2
<1>8. Turned(t3, s, K, S, W)
  <2>1. Turned(t2, s, K, S, W)
    BY <1>1, <1>2, TurnedTrans
  <2>2. QED
    BY <1>3, <2>1, TurnedTrans
<1>9. Turned(u, s, K, S, W)
  BY <1>5, <1>8, TurnedTrans
<1>10. Turned(v2, s, K, S, W)
  <2>1. Turned(v1, s, K, S, W)
    BY <1>6, <1>8, TurnedTrans
  <2>2. QED
    BY <1>7, <2>1, TurnedTrans
<1>11. UpdateTable(s) = IF s.plan.query.where THEN u ELSE v2
  BY DEF UpdateTable, n, t1, t2, t3, u, v1, v2
<1>12. QED
  BY <1>9, <1>10, <1>11

LEMMA ApplyOtherTurned ==
  ASSUME NEW K \in Nat, NEW S, NEW W, NEW s \in StateOf(K), s.plan.opFalse \in S,
         s.plan.query \in QueryType
  PROVE  LET t == ApplyOther(s)
         IN  /\ Turned(t, s, K, S, W) /\ t.plan.opTrue = s.plan.opTrue
             /\ t.plan.current = s.plan.current /\ t.plan.graph = s.plan.graph
<1> DEFINE t1 == [s EXCEPT !.node[s.plan.opTrue].action = s.plan.query.op]
           t2 == [t1 EXCEPT !.node[s.plan.opFalse].passive = TRUE]
           t3 == Stage(t2, s.plan.opTrue)
<1>1. Turned(t1, s, K, S, W) /\ t1.plan = s.plan
  <2>1. s.plan.query.op \in Actions \ {"read"}
    BY DEF Actions, Operations, QueryType
  <2>2. Turned(t1, s, K, S, W)
    BY <2>1, NodeFieldTurned
  <2>3. QED
    BY <2>2 DEF StateOf
<1> HIDE DEF t1
<1>2. Turned(t2, t1, K, S, W) /\ t2.plan = t1.plan
  <2>1. t1 \in StateOf(K)
    BY <1>1 DEF Turned
  <2>2. Turned(t2, t1, K, S, W)
    BY <2>1, NodeFieldTurned
  <2>3. QED
    BY <2>1, <2>2 DEF StateOf
<1> HIDE DEF t2
<1>3. s.plan.opTrue \in Nat /\ t2 \in StateOf(K)
  BY <1>2, StateParts DEF PlanOf, Turned
<1>4. LooseGrows(t3, t2, K, W) /\ t3.plan.current = t2.plan.current
  BY <1>3, StageGrows
<1>5. t3.plan.opTrue = t2.plan.opTrue /\ t3.plan.graph = t2.plan.graph
  BY <1>4 DEF LooseGrows, Grows, Grew, SameExits
<1> HIDE DEF t3
<1>6. Turned(t3, t2, K, S, W)
  BY <1>3, <1>4, GrowsTurned DEF LooseGrows
<1>7. Turned(t2, s, K, S, W)
  BY <1>1, <1>2, TurnedTrans
<1>8. Turned(t3, s, K, S, W)
  BY <1>6, <1>7, TurnedTrans
<1>9. QED
  BY <1>1, <1>2, <1>4, <1>5, <1>8 DEF ApplyOther, t1, t2, t3

LEMMA RewriteJoinTurned ==
  ASSUME NEW K \in Nat, NEW S, NEW W, NEW s \in StateOf(K), Len(s.node) < K,
         s.plan.opTrue \in S, s.plan.opFalse \in S, Here \in Nat
  PROVE  Turned(RewriteJoin(s), s, K, S, W)
<1> DEFINE update == s.plan.query.op = "update"
           filter == Newest(s) + 1
           p0     == Process(Here, IF update THEN "update_filter" ELSE "delete_filter")
           p1     == [p0 EXCEPT !.dual = TRUE]
           p2     == [p1 EXCEPT !.second = TRUE]
           added  == Add(s, p2)
           half   == Link(added, s.plan.opFalse, 0, filter)
           linked == Link(half, s.plan.opTrue, 0, filter)
           t1     == [linked EXCEPT !.node[s.plan.opFalse].passive = TRUE]
           t2     == [t1 EXCEPT !.node[s.plan.opTrue].passive = TRUE]
           r      == [t2 EXCEPT !.plan.opTrue = IF update THEN filter ELSE @]
<1>1. filter = Len(s.node) + 1 /\ Len(s.node) \in Nat
  BY StateParts DEF Newest
<1>2. p2 \in NodeOf(K) /\ Newborn(p2, W)
  <2>1. (IF update THEN "update_filter" ELSE "delete_filter") \in Actions \ {"read"}
    BY DEF Actions, Operations
  <2>2. /\ p0 \in NodeOf(K) /\ p0.plan = Here /\ p0.action # "read"
        /\ p0.waits = {} /\ p0.unionEnds = << >>
    BY <2>1, ProcessType DEF Process
  <2> HIDE DEF p0
  <2>3. p1 \in NodeOf(K)
    BY <2>2, NodeFields
  <2>4. /\ p1.plan = Here /\ p1.action # "read" /\ p1.waits = {} /\ p1.unionEnds = << >>
    BY <2>2 DEF NodeOf
  <2> HIDE DEF p1
  <2>5. p2 \in NodeOf(K)
    BY <2>3, NodeFields
  <2>6. /\ p2.plan = Here /\ p2.action # "read" /\ p2.waits = {} /\ p2.unionEnds = << >>
    BY <2>3, <2>4 DEF NodeOf
  <2>7. QED
    BY <2>5, <2>6 DEF Newborn
<1> HIDE DEF p2, filter
<1>3. Turned(added, s, K, S, W)
  <2>1. Grows(added, s, K, W)
    BY <1>2, AddGrows
  <2> HIDE DEF added
  <2>2. QED
    BY <2>1, GrowsTurned
<1> HIDE DEF added
<1>4. added \in StateOf(K) /\ filter \in 0..K /\ filter \in 1..K /\ 0 \in 0..1
  BY <1>1, <1>3 DEF Turned
<1>5. Turned(half, added, K, S, W)
  <2>1. Grows(half, added, K, W)
    BY <1>4, LinkGrows
  <2> HIDE DEF half
  <2>2. QED
    BY <1>4, <2>1, GrowsTurned
<1> HIDE DEF half
<1>6. half \in StateOf(K)
  BY <1>5 DEF Turned
<1>7. Turned(linked, half, K, S, W)
  <2>1. Grows(linked, half, K, W)
    BY <1>4, <1>6, LinkGrows
  <2> HIDE DEF linked
  <2>2. QED
    BY <1>6, <2>1, GrowsTurned
<1> HIDE DEF linked
<1>8. Turned(t1, linked, K, S, W)
  <2>1. linked \in StateOf(K)
    BY <1>7 DEF Turned
  <2>2. QED
    BY <2>1, NodeFieldTurned
<1> HIDE DEF t1
<1>9. Turned(t2, t1, K, S, W)
  <2>1. t1 \in StateOf(K)
    BY <1>8 DEF Turned
  <2>2. QED
    BY <2>1, NodeFieldTurned
<1> HIDE DEF t2
<1>10. Turned(t2, s, K, S, W)
  <2>1. Turned(half, s, K, S, W)
    BY <1>3, <1>5, TurnedTrans
  <2>2. Turned(linked, s, K, S, W)
    BY <1>7, <2>1, TurnedTrans
  <2>3. Turned(t1, s, K, S, W)
    BY <1>8, <2>2, TurnedTrans
  <2>4. QED
    BY <1>9, <2>3, TurnedTrans
<1>11. t2 \in StateOf(K)
  BY <1>10 DEF Turned
<1>12. r \in StateOf(K)
  <2>1. CASE update
    BY <1>4, <1>11, <2>1, PlanFields DEF From
  <2>2. CASE ~update
    BY <1>11, <2>2 DEF StateOf, PlanOf
  <2>3. QED
    BY <2>1, <2>2
<1>13. r.node = t2.node /\ r.plan.graph = t2.plan.graph
  BY <1>11 DEF StateOf, PlanOf
<1>14. SameTask(r.plan, t2.plan)
  BY <1>11 DEF StateOf, PlanOf, SameTask
<1>15. r = RewriteJoin(s)
  BY DEF RewriteJoin, r, t2, t1, linked, half, added, p2, filter
<1> HIDE DEF r
<1>16. Turned(r, s, K, S, W)
  BY <1>10, <1>12, <1>13, <1>14 DEF Turned, Turn, SameTask
<1>17. QED
  BY <1>15, <1>16

LEMMA ApplyProcessTurned ==
  ASSUME NEW K \in Nat, NEW S, NEW W, NEW s \in StateOf(K), Len(s.node) < K,
         s.plan.opTrue \in S, s.plan.opFalse \in S, Here \in Nat, s.plan.query \in QueryType
  PROVE  Turned(ApplyProcess(s), s, K, S, W)
<1>1. CASE Filters(s)
  <2>1. ApplyProcess(s) = RewriteJoin(s)
    BY <1>1 DEF ApplyProcess, Filters
  <2>2. QED
    BY <2>1, RewriteJoinTurned
<1>2. CASE ~Filters(s)
  <2>1. ApplyProcess(s) \in {UpdateTable(s), DeleteTable(s), ApplyOther(s)}
    BY <1>2 DEF ApplyProcess, Filters
  <2>2. QED
    BY <2>1, UpdateTableTurned, DeleteTableTurned, ApplyOtherTurned
<1>3. QED
  BY <1>1, <1>2

LEMMA AwaitTurned ==
  ASSUME NEW K \in Nat, NEW S, NEW W, NEW s \in StateOf(K), ValuesBuilt(s, K),
         WaitList(s, "op") \subseteq W
  PROVE  Turned(Await(s), s, K, S, W) /\ Await(s).plan = s.plan
<1> DEFINE m == s.plan.opTrue
           v == s.node[m].waits \cup WaitList(s, "op")
<1>1. Await(s).plan = s.plan
  BY DEF Await, StateOf
<1>2. CASE m \in DOMAIN s.node
  <2>1. s.node[m] \in NodeOf(K)
    BY <1>2, StateParts, ElementOfSeq
  <2>2. v \in SUBSET (1..K) /\ v \subseteq W \cup s.node[m].waits
    BY <2>1, WaitListType DEF NodeOf
  <2>3. Turned([s EXCEPT !.node[m].waits = v], s, K, S, W)
    <3> HIDE DEF v, m
    <3>1. QED
      BY <2>2, NodeFieldTurned
  <2>4. QED
    BY <1>1, <2>3 DEF Await
<1>3. CASE m \notin DOMAIN s.node
  <2>1. [s.node EXCEPT ![m].waits = v] = s.node
    BY <1>3, StateParts
  <2>2. Await(s) = [s EXCEPT !.node = s.node]
    BY <1>3, <2>1 DEF Await
  <2>3. s.node \in Seq(NodeOf(K)) /\ s \in [node : Seq(NodeOf(K)), plan : PlanOf(K)]
    BY StateParts DEF StateOf
  <2>4. [s EXCEPT !.node = s.node] = s
    BY <2>3
  <2>5. Turned(s, s, K, S, W)
    <3>1. Grows(s, s, K, W)
      BY SameGrows
    <3>2. QED
      BY <3>1, GrowsTurned
  <2>6. QED
    BY <1>1, <2>2, <2>4, <2>5
<1>4. QED
  BY <1>2, <1>3

LEMMA EnterTurned ==
  ASSUME NEW K \in Nat, NEW S, NEW W, NEW s \in StateOf(K)
  PROVE  Turned(Enter(s), s, K, S, W) /\ Enter(s).plan = s.plan
<1>1. CASE s.plan.entry = NULL
  <2>1. Grows(s, s, K, W)
    BY SameGrows
  <2>2. QED
    BY <1>1, <2>1, GrowsTurned DEF Enter
<1>2. CASE s.plan.entry # NULL
  <2>1. s.plan.entry \in 0..K /\ 0 \in 0..1
    BY StateParts DEF PlanOf
  <2>2. /\ Grows(Link(s, s.plan.opTrue, 0, s.plan.entry), s, K, W)
        /\ Link(s, s.plan.opTrue, 0, s.plan.entry).plan = s.plan
    BY <2>1, LinkGrows
  <2>3. Enter(s) = Link(s, s.plan.opTrue, 0, s.plan.entry)
    BY <1>2 DEF Enter
  <2>4. QED
    BY <2>2, <2>3, GrowsTurned
<1>3. QED
  BY <1>1, <1>2

LEMMA OperationQuietRefs ==
  ASSUME PlanInv, EdgesInv, Operation, NEW S, self.opFalse \in S, NEW W
  PROVE  LET K == Len(node) + 4
         IN  Turned(OperationQuiet, State, K, S, W) /\ Turned(OperationMoved, State, K, S, W)
<1> DEFINE K == Len(node) + 4
           l == OperationLinked
           u == OperationSilent
           q == OperationQuiet
           m == OperationMoved
<1>1. phase = "build" /\ self.step = "operation"
  BY DEF Operation, At
<1>2. K \in Nat /\ State \in StateOf(K) /\ State.plan = self
  BY <1>1, Start
<1>3. self.opTrue \in 0..K /\ self.opTrue \in 1..K /\ 0 \in 0..1
  <2>1. self.opTrue \in Range(self.graph) /\ self \in PlanOf(K)
    BY <1>1, Start DEF ClauseSteps
  <2>2. self.graph \in Seq(1..K)
    BY <2>1 DEF PlanOf
  <2>3. QED
    BY <1>2, <2>1, <2>2 DEF Range
<1>4. q \in StateOf(K) /\ q.plan = self
  BY OperationFits
<1>5. l = Link(State, self.current, 0, self.opTrue)
  BY DEF OperationLinked
<1>6. u = [l EXCEPT !.node[self.opFalse].passive = TRUE] /\ q \in {l, u}
  BY DEF OperationSilent, OperationQuiet
<1>7. m = [q EXCEPT !.plan.current = self.opTrue]
  BY DEF OperationMoved
<1> HIDE DEF K, l, u, q, m
<1>8. Turned(l, State, K, S, W)
  <2>1. Grows(Link(State, self.current, 0, self.opTrue), State, K, W)
    BY <1>2, <1>3, LinkGrows
  <2>2. QED
    BY <1>2, <1>5, <2>1, GrowsTurned
<1>9. Turned(u, State, K, S, W)
  <2>1. l \in StateOf(K) /\ TRUE \in BOOLEAN
    BY <1>8 DEF Turned
  <2>2. Turned(u, l, K, S, W)
    BY <1>2, <1>6, <2>1, NodeFieldTurned
  <2>3. QED
    BY <1>2, <1>8, <2>2, TurnedTrans
<1>10. Turned(q, State, K, S, W)
  BY <1>6, <1>8, <1>9
<1>11. Turned(m, q, K, S, W)
  <2>1. LooseGrows([q EXCEPT !.plan.current = self.opTrue], q, K, W)
    BY <1>2, <1>3, <1>4, CurrentGrows
  <2>2. QED
    BY <1>2, <1>4, <1>7, <2>1, GrowsTurned DEF LooseGrows
<1>12. Turned(m, State, K, S, W)
  BY <1>2, <1>10, <1>11, TurnedTrans
<1>13. QED
  BY <1>10, <1>12 DEF K, q, m

LEMMA OperationMovedParts ==
  ASSUME PlanInv, EdgesInv, Operation
  PROVE  LET K == Len(node) + 4
             m == OperationMoved
         IN  /\ K \in Nat /\ m \in StateOf(K) /\ Len(m.node) < K
             /\ m.plan.opTrue = self.opTrue /\ m.plan.opFalse = self.opFalse
             /\ m.plan.current = self.opTrue /\ m.plan.graph = self.graph
             /\ SameTask(m.plan, self)
<1> DEFINE K == Len(node) + 4
           q == OperationQuiet
           m == OperationMoved
<1>1. phase = "build" /\ self.step = "operation"
  BY DEF Operation, At
<1>2. K \in Nat /\ Len(node) < K
  BY <1>1, Start
<1>3. q \in StateOf(K) /\ q.plan = self /\ Len(m.node) = Len(node)
  BY OperationFits
<1>4. m = [q EXCEPT !.plan.current = self.opTrue]
  BY DEF OperationMoved
<1>5. m \in StateOf(K)
  <2> DEFINE S == {self.opFalse}
             W == {}
  <2>1. self.opFalse \in S
    OBVIOUS
  <2> HIDE DEF S, W
  <2>2. QED
    BY <2>1, OperationQuietRefs DEF Turned
<1> HIDE DEF K, m, q
<1>6. /\ m.plan.opTrue = self.opTrue /\ m.plan.opFalse = self.opFalse
      /\ m.plan.current = self.opTrue /\ m.plan.graph = self.graph
  BY <1>3, <1>4 DEF StateOf, PlanOf
<1>7. SameTask(m.plan, self)
  BY <1>3, <1>4 DEF StateOf, PlanOf, SameTask
<1>8. QED
  BY <1>2, <1>3, <1>5, <1>6, <1>7 DEF K, m

LEMMA WaitListSame ==
  ASSUME NEW s, NEW t, SameTask(s.plan, t.plan), NEW clause
  PROVE  WaitList(s, clause) = WaitList(t, clause)
BY DEF WaitList, SameTask

LEMMA OperationTurned ==
  ASSUME PlanInv, EdgesInv, RefsInv, Operation, NEW S, self.opFalse \in S,
         self.opTrue \in S \/ self.query.op = "select", NEW W, WaitList(State, "op") \subseteq W
  PROVE  LET K == Len(node) + 4
             t == OperationDone
         IN  /\ Turned(t, State, K, S, W)
             /\ self.query.op = "select" =>
                  /\ t.plan.opTrue = self.opTrue /\ t.plan.current = self.opTrue
                  /\ t.plan.graph = self.graph
<1> DEFINE K == Len(node) + 4
           m == OperationMoved
           a == ApplyProcess(m)
           w == Await(a)
           t == OperationDone
<1>1. /\ phase = "build" /\ self.query \in QueryType /\ Here \in Nat /\ State.plan = self
      /\ State \in StateOf(K)
  BY Start DEF Operation, At
<1>2. /\ K \in Nat /\ m \in StateOf(K) /\ Len(m.node) < K
      /\ m.plan.opTrue = self.opTrue /\ m.plan.opFalse = self.opFalse
      /\ m.plan.current = self.opTrue /\ m.plan.graph = self.graph
      /\ SameTask(m.plan, self)
  BY OperationMovedParts
<1>3. Turned(m, State, K, S, W)
  BY OperationQuietRefs
<1>4. m.plan.query = self.query
  BY <1>2 DEF SameTask
<1>5. t = Enter(w)
  BY DEF OperationDone
<1>6. self.query.op = "select" => a = ApplyOther(m)
  BY <1>4 DEF ApplyProcess
<1> HIDE DEF m, t
<1>7. /\ Turned(a, m, K, S, W)
      /\ self.query.op = "select" =>
           /\ a.plan.opTrue = self.opTrue /\ a.plan.current = self.opTrue
           /\ a.plan.graph = self.graph
  <2> HIDE DEF K, a
  <2>1. CASE self.query.op = "select"
    BY <1>1, <1>2, <1>4, <1>6, <2>1, ApplyOtherTurned
  <2>2. CASE self.query.op # "select"
    <3>1. self.opTrue \in S
      BY <2>2
    <3>2. Turned(ApplyProcess(m), m, K, S, W)
      BY <1>1, <1>2, <1>4, <3>1, ApplyProcessTurned
    <3>3. QED
      BY <2>2, <3>2 DEF a
  <2>3. QED
    BY <2>1, <2>2
<1> HIDE DEF a
<1>8. a \in StateOf(K) /\ SameTask(a.plan, self)
  BY <1>2, <1>7 DEF Turned, Turn, SameTask
<1>9. ValuesBuilt(a, K)
  <2>1. 4 \in Nat /\ a.plan.constPlans = self.constPlans
    BY <1>8 DEF SameTask
  <2>2. QED
    BY <1>1, <2>1, ValuesBuiltNow DEF K
<1>10. WaitList(a, "op") \subseteq W
  <2>1. SameTask(a.plan, State.plan)
    BY <1>1, <1>8
  <2>2. WaitList(a, "op") = WaitList(State, "op")
    BY <2>1, WaitListSame
  <2>3. QED
    BY <2>2
<1> HIDE DEF K
<1>11. Turned(w, a, K, S, W) /\ w.plan = a.plan
  BY <1>2, <1>8, <1>9, <1>10, AwaitTurned
<1> HIDE DEF w
<1>12. Turned(t, w, K, S, W) /\ t.plan = w.plan
  BY <1>2, <1>5, <1>11, EnterTurned DEF Turned
<1>13. Turned(t, State, K, S, W)
  <2>1. Turned(a, State, K, S, W)
    BY <1>1, <1>2, <1>3, <1>7, TurnedTrans
  <2>2. Turned(w, State, K, S, W)
    BY <1>1, <1>2, <1>11, <2>1, TurnedTrans
  <2>3. QED
    BY <1>1, <1>2, <1>12, <2>2, TurnedTrans
<1>14. QED
  BY <1>7, <1>11, <1>12, <1>13 DEF K, t

LEMMA OperationRefs ==
  ASSUME PlanInv, EdgesInv, RefsInv, Supported, Operation, ~Fail
  PROVE  RefsInv'
<1> DEFINE K == Len(node) + 4
           q == OperationQuiet
           t == OperationDone
           prev == self.current
<1>1. /\ phase = "build" /\ self.step = "operation" /\ self.step # "finish"
      /\ \/ Go(Clearing(q, "union"), "clear") /\ self.isUnion /\ ~node[prev].passive
         \/ Go(Clearing(t, "union"), "clear") /\ (self.isUnion => node[prev].passive)
  BY DEF Operation, At, OperationQuiet, OperationLinked, OperationSilent, OperationMoved,
         OperationDone
<1>2. /\ K \in Nat /\ self = plans[Here] /\ State.plan = self /\ State.node = node
      /\ DOMAIN node = 1..Len(node) /\ Here \in Live
  BY <1>1, Start, Place, StateParts DEF PlanInv
<1>3. Kin(q, Here) /\ q.plan = self /\ Kin(t, Here)
  BY OperationFits DEF Fit
<1>4. Here # 1 =>
        /\ Stands(node, self, self.opTrue) /\ self.opTrue # self.opFalse
        /\ prev \in Range(self.graph) \ {self.opTrue, self.opFalse}
        /\ self.isUnion /\ ~Constant(self.query) => ~node[prev].passive
  <2>1. Here # 1 => InClauses(node, self)
    BY <1>1, MemberHere
  <2>2. self.step \in ClauseSteps /\ Real(self)
    BY <1>1 DEF ClauseSteps, Real
  <2>3. QED
    BY <2>1, <2>2 DEF InClauses
<1>5. self.isUnion => Here # 1
  BY <1>1, MemberHere
<1>6. \A n \in Range(self.graph) : n \in 1..Len(node)
  BY <1>2 DEF EdgesInv, Homed, GraphOf
<1>7. "union" \in {"union", "disable", "finish"} /\ "union" # "disable"
  OBVIOUS
<1> HIDE DEF q, t, prev
<1>8. CASE Go(Clearing(q, "union"), "clear") /\ self.isUnion /\ ~node[prev].passive
  <2> DEFINE S == {self.opFalse}
             W == {}
  <2>1. S \subseteq {self.opTrue, self.opFalse} /\ self.opFalse \in S /\ Awaitable(W, Here)
    BY NothingAwaited
  <2>2. \A n \in S : n = self.opFalse
    OBVIOUS
  <2> HIDE DEF S, W
  <2>3. Turned(q, State, K, S, W)
    BY <2>1, OperationQuietRefs DEF q
  <2>4. q \in StateOf(K) /\ Keeps(q, Here, W)
    BY <1>1, <1>3, <2>1, <2>3, TurnedKeeps
  <2>5. EndsWell(q)
    <3>1. prev \in Range(self.graph) /\ prev # self.opTrue /\ prev # self.opFalse
      BY <1>4, <1>5, <1>8
    <3>2. ~q.node[prev].passive
      BY <1>2, <1>6, <1>8, <2>2, <2>3, <3>1 DEF Turned, Turn
    <3>3. q.plan.current = prev /\ EndOf(q.plan) = prev
      BY <1>3, <1>8 DEF EndOf, prev
    <3>4. QED
      BY <1>3, <3>1, <3>2, <3>3 DEF EndsWell, Stands
  <2> HIDE DEF K
  <2>6. QED
    BY <1>1, <1>2, <1>7, <1>8, <2>1, <2>4, <2>5, ClearingRefs
<1>9. CASE Go(Clearing(t, "union"), "clear") /\ (self.isUnion => node[prev].passive)
  <2> DEFINE W == WaitList(State, "op")
  <2>1. Awaitable(W, Here)
    <3>1. SameTask(State.plan, self)
      BY <1>2 DEF SameTask
    <3>2. QED
      BY <1>1, <3>1, AwaitedNow
  <2>2. WaitList(State, "op") \subseteq W
    OBVIOUS
  <2> HIDE DEF W
  <2>3. t \in StateOf(K) /\ Keeps(t, Here, W)
    <3> DEFINE S == {self.opTrue, self.opFalse}
    <3>1. S \subseteq {self.opTrue, self.opFalse} /\ self.opFalse \in S /\ self.opTrue \in S
      OBVIOUS
    <3> HIDE DEF S
    <3>2. Turned(t, State, K, S, W)
      BY <2>2, <3>1, OperationTurned DEF t
    <3>3. QED
      BY <1>1, <1>3, <3>1, <3>2, TurnedKeeps
  <2>4. ASSUME Here # 1 PROVE EndsWell(t)
    <3> DEFINE S == {self.opFalse}
    <3>1. self.query.op = "select"
      BY <1>1, <2>4, HereKind DEF Supported
    <3>2. self.opFalse \in S /\ \A n \in S : n = self.opFalse
      OBVIOUS
    <3> HIDE DEF S
    <3>3. /\ Turned(t, State, K, S, W)
          /\ t.plan.opTrue = self.opTrue /\ t.plan.current = self.opTrue
          /\ t.plan.graph = self.graph
      BY <2>2, <3>1, <3>2, OperationTurned DEF t
    <3>4. /\ self.opTrue \in Range(self.graph) /\ ~node[self.opTrue].passive
          /\ self.opTrue # self.opFalse
          /\ self.isUnion => Constant(self.query)
      BY <1>4, <1>9, <2>4 DEF Stands
    <3>5. ~t.node[self.opTrue].passive
      BY <1>2, <1>6, <3>2, <3>3, <3>4 DEF Turned, Turn
    <3>6. EndOf(t.plan) = self.opTrue
      BY <3>3 DEF EndOf
    <3>7. t.plan.isUnion = self.isUnion
      BY <2>3 DEF Keeps, SameTask
    <3>8. QED
      BY <3>3, <3>4, <3>5, <3>6, <3>7 DEF EndsWell, Stands
  <2> HIDE DEF K
  <2>5. QED
    BY <1>1, <1>2, <1>7, <1>9, <2>1, <2>3, <2>4, ClearingRefs
<1>10. QED
  BY <1>1, <1>8, <1>9

(* Nothing changes that RefsInv is about. *)
LEMMA SameRefs ==
  ASSUME RefsInv, UNCHANGED <<node, plans, stack>>
  PROVE  RefsInv'
<1>1. Open' = Open /\ Live' = Live /\ Here' = Here
  BY DEF Open, Live, Pending, Here
<1>2. \A p \in DOMAIN plans : KindOf(p)'
  BY DEF RefsInv, KindOf
<1>3. ASSUME NEW p \in Live PROVE Referred(p)'
  <2>1. GraphOf(p)' = GraphOf(p) /\ Ahead(p)' = Ahead(p)
    BY <1>1 DEF Ahead, Bare, Left, GraphOf
  <2>2. \A n \in GraphOf(p) : Refers(n)' = Refers(n)
    BY DEF Refers, ReferIn
  <2>3. \A w : Fixed(w) => Fixed(w)'
    BY DEF Fixed
  <2>4. QED
    BY <2>1, <2>2, <2>3 DEF RefsInv, Referred
<1>4. \A p \in Open : Calling(p)'
  BY DEF RefsInv, Calling, Bare
<1>5. \A p \in Live \ {1} : InClauses(node, plans[p])' /\ InEnd(node, plans[p])'
  BY DEF RefsInv, InClauses, InEnd, Stands
<1>6. SelfMade'
  BY <1>1 DEF RefsInv, SelfMade, GraphOf
<1>7. QED
  BY <1>1, <1>2, <1>3, <1>4, <1>5, <1>6 DEF RefsInv

LEMMA CartesianRefs ==
  ASSUME PlanInv, EdgesInv, RefsInv, CartesianJoin
  PROVE  RefsInv'
<1>1. CASE Fail
  BY <1>1, SameRefs DEF Fail
<1>2. CASE At("from") /\ MoreSources /\ self.i > 1 /\ Go(CartesianJoined, "from")
  BY <1>2, CartesianJoinRefs
<1>3. At("from") /\ MoreSources /\ self.i > 1
  BY DEF CartesianJoin, MoreSources
<1>4. Fail \/ Go(CartesianJoined, "from")
  BY DEF CartesianJoin, CartesianJoined, Paired
<1>5. QED
  BY <1>1, <1>2, <1>3, <1>4

(* Once the statement is built, nothing of it changes that RefsInv is about. *)
LEMMA BuiltRefs ==
  ASSUME PlanInv, EdgesInv, RefsInv, phase \notin {"build", "failed"},
         UNCHANGED <<plans, stack>>,
         DOMAIN node' = DOMAIN node, \A n \in DOMAIN node : Unmoved(node'[n], node[n])
  PROVE  RefsInv'
<1>1. stack = << >>
  BY DEF PlanInv
<1>2. Open = {} /\ Open' = {}
  BY <1>1 DEF Open, Range
<1>3. Live = {1} /\ Live' = {1}
  BY <1>2 DEF Live
<1>4. \A n \in GraphOf(1) : n \in DOMAIN node
  BY <1>3 DEF EdgesInv, Homed
<1>5. \A p \in DOMAIN plans : KindOf(p)'
  BY DEF RefsInv, KindOf
<1>6. Referred(1)'
  <2>1. GraphOf(1)' = GraphOf(1) /\ Ahead(1)' = Ahead(1)
    BY <1>2 DEF Ahead, Bare, Left, GraphOf
  <2>2. \A n \in GraphOf(1) : Refers(n)' = Refers(n)
    BY <1>4 DEF Refers, ReferIn, Unmoved
  <2>3. \A w : Fixed(w) => Fixed(w)'
    BY DEF Fixed, Unmoved
  <2>4. QED
    BY <1>3, <2>1, <2>2, <2>3 DEF RefsInv, Referred
<1>7. SelfMade'
  BY <1>2 DEF SelfMade
<1>8. QED
  BY <1>2, <1>3, <1>5, <1>6, <1>7 DEF RefsInv

LEMMA WireRefs ==
  ASSUME PlanInv, EdgesInv, RefsInv, Wire
  PROVE  RefsInv'
<1>1. node \in Seq(NodeOf(Len(node)))
  BY DEF PlanInv
<1>2. \A n \in DOMAIN node : node[n] \in NodeOf(Len(node))
  BY <1>1, ElementOfSeq
<1>3. CASE Activate \/ NextRoot \/ Ordered
  BY <1>3, SameRefs DEF Activate, NextRoot, Ordered
<1>4. ASSUME NEW v, NEW n \in DOMAIN node
      PROVE  Unmoved([node[n] EXCEPT !.visits = v], node[n])
  BY <1>2 DEF Unmoved, NodeOf
<1>5. CASE MakePipes \/ UpdatePipes
  <2>1. phase \notin {"build", "failed"} /\ UNCHANGED <<plans, stack>>
        /\ node' = [n \in DOMAIN node |-> [node[n] EXCEPT !.visits = 0]]
    BY <1>5 DEF MakePipes, UpdatePipes, Reset
  <2>2. DOMAIN node' = DOMAIN node /\ \A n \in DOMAIN node : Unmoved(node'[n], node[n])
    BY <1>4, <2>1
  <2>3. QED
    BY <2>1, <2>2, BuiltRefs
<1>6. CASE Visit
  <2>1. phase \notin {"build", "failed"} /\ UNCHANGED <<plans, stack>>
        /\ node' = [node EXCEPT ![Head(trav)].visits = @ + 1]
    BY <1>6 DEF Visit, Traversing
  <2>2. ASSUME NEW n \in DOMAIN node PROVE Unmoved(node'[n], node[n])
    <3>1. CASE n = Head(trav)
      <4>1. node'[n] = [node[n] EXCEPT !.visits = node[n].visits + 1]
        BY <2>1, <3>1
      <4>2. QED
        BY <1>4, <4>1
    <3>2. CASE n # Head(trav)
      BY <2>1, <3>2 DEF Unmoved
    <3>3. QED
      BY <3>1, <3>2
  <2>3. DOMAIN node' = DOMAIN node
    BY <2>1
  <2>4. QED
    BY <2>1, <2>2, <2>3, BuiltRefs
<1>7. QED
  BY <1>3, <1>5, <1>6 DEF Wire

LEMMA InitRefs == Init => RefsInv
<1> SUFFICES ASSUME Init PROVE RefsInv
  OBVIOUS
<1> DEFINE P == NewPlan(query, NULL, FALSE)
<1>1. plans = <<P>> /\ stack = <<1>> /\ query \in Queries
  BY DEF Init
<1>2. /\ P.step = "consts" /\ P.next = "union" /\ P.constPlans = << >> /\ P.graph = << >>
      /\ P.query = query /\ ~P.isUnion
  BY DEF NewPlan
<1> HIDE DEF P
<1>3. plans[1] = P /\ DOMAIN plans = {1} /\ Open = {1} /\ Here = 1
  BY <1>1 DEF Open, Here, Range
<1>4. DOMAIN << >> = {}
  OBVIOUS
<1>5. GraphOf(1) = {} /\ Range(P.constPlans) = {}
  BY <1>2, <1>3, <1>4 DEF GraphOf, Range
<1>6. Pending(1) = {}
  BY <1>2, <1>3, <1>4 DEF Pending, PendingOf, ValuesOf, CallSteps
<1>7. Live = {1}
  BY <1>3, <1>6 DEF Live
<1>8. KindOf(1)
  BY <1>1, <1>2, <1>3 DEF KindOf
<1>9. Referred(1) /\ SelfMade
  BY <1>3, <1>5 DEF Referred, SelfMade
<1>10. Calling(1)
  BY <1>2, <1>3, <1>5 DEF Calling
<1>11. QED
  BY <1>3, <1>7, <1>8, <1>9, <1>10 DEF RefsInv

LEMMA NextRefs ==
  ASSUME PlanInv, EdgesInv, RefsInv, Supported, [Next]_vars
  PROVE  RefsInv'
<1>1. CASE UNCHANGED vars
  BY <1>1, SameRefs DEF vars
<1>2. CASE Operation
  <2>1. CASE Fail
    BY <2>1, SameRefs DEF Fail
  <2>2. CASE ~Fail
    BY <1>2, <2>2, OperationRefs
  <2>3. QED
    BY <2>1, <2>2
<1>3. CASE \/ BuildConst \/ Construct \/ FromTable \/ FromSubquery \/ FromConsumed
           \/ JoinTable \/ JoinSubquery \/ JoinConsumed \/ CartesianJoin
  BY <1>3, BuildConstRefs, ConstructRefs, FromTableRefs, SubqueryRefs, FromConsumedRefs,
     JoinTableRefs, JoinConsumedRefs, CartesianRefs
<1>4. CASE \/ Where \/ Group \/ Having \/ Relink \/ Clear \/ Roots \/ BuildUnion
           \/ UnionConsumed \/ Order \/ Disable \/ ConsumeConst \/ Finish
  BY <1>4, WhereRefs, GroupRefs, HavingRefs, RelinkRefs, ClearRefs, RootsRefs, BuildUnionRefs,
     UnionConsumedRefs, OrderRefs, DisableRefs, ConsumeConstRefs, FinishRefs
<1>5. CASE Wire
  BY <1>5, WireRefs
<1>6. QED
  BY <1>1, <1>2, <1>3, <1>4, <1>5 DEF Next, Build

(* RefsInv holds in every state, for every set of statements the grammar has and _build keeps
   the references of: it is inductive together with PlanInv and EdgesInv. *)
THEOREM RefsInvariant == Supported => (Spec => []RefsInv)
<1> SUFFICES ASSUME Supported PROVE Spec => []RefsInv
  OBVIOUS
<1>1. Init => PlanInv /\ EdgesInv /\ RefsInv
  BY InitInv, InitEdges, InitRefs
<1>2. PlanInv /\ EdgesInv /\ RefsInv /\ [Next]_vars => (PlanInv /\ EdgesInv /\ RefsInv)'
  BY NextInv, NextEdges, NextRefs
<1>3. QED
  BY <1>1, <1>2, PTL DEF Spec

LEMMA BuiltReferred == PlanInv /\ EdgesInv /\ RefsInv => NoDangling
<1> SUFFICES ASSUME PlanInv, EdgesInv, RefsInv, phase \notin {"build", "failed"},
                    NEW n \in graph
             PROVE  /\ ~node[n].freed
                    /\ ({node[n].out[b] : b \in 0..1} \ {NULL}) \cup node[n].waits
                         \cup Range(node[n].unionEnds) \subseteq graph
  BY DEF NoDangling
<1>1. Referred(1)
  BY DEF RefsInv, Live
<1>2. graph = GraphOf(1)
  BY DEF graph, main, GraphOf
<1>3. Left(1) = {}
  <2>1. stack = << >>
    BY DEF PlanInv
  <2>2. Open = {}
    BY <2>1 DEF Open, Range
  <2>3. QED
    BY <2>2 DEF Left
<1>4. UNION {GraphOf(d) : d \in Left(1)} = {}
  BY <1>3
<1>5. Refers(n) \subseteq graph
  BY <1>1, <1>2, <1>4 DEF Referred, Ahead
<1>6. ~node[n].freed /\ \A b \in 0..1 : node[n].out[b] \in {NULL} \cup graph
  BY BuiltWithin DEF NoDanglingEdge
<1>7. QED
  BY <1>5, <1>6 DEF Refers, ReferIn

(* Once a statement is built, all that the processes of its graph refer to is in the graph
   and has not been freed: the next process on each side, the processes of the values and
   subqueries they wait for (fqlprocess.c: process_add_to_wait_list) and the ends of the
   members of their union. *)
THEOREM NothingDangles == Supported => (Spec => []NoDangling)
<1> SUFFICES ASSUME Supported PROVE Spec => []NoDangling
  OBVIOUS
<1>1. Spec => []RefsInv
  BY RefsInvariant
<1>2. PlanInv /\ EdgesInv /\ RefsInv => NoDangling
  BY BuiltReferred
<1>3. QED
  BY <1>1, <1>2, PlanInvariant, EdgesInvariant, PTL
=============================================================================
