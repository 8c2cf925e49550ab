------------------------------ MODULE Script ------------------------------
(***************************************************************************)
(* Control flow of a script.  The listener of the parser walks the tree of *)
(* the script and lays its statements out as a list of queries, where each *)
(* query has the index of the next (query_enter_query .. query_exit_query, *)
(* fqlbranch_construct); fql_exec_plans then follows the indexes and       *)
(* fql_if sets the one of an IF or WHILE from its condition.  Everything   *)
(* the layout knows of the structure is branch_state, the scopes and the   *)
(* stack of active queries.                                                *)
(*                                                                         *)
(* Indexes start at 1; the code's start at 0, so its -1 is 0 here.  A NULL *)
(* that is followed and an assertion that fails end the program.           *)
(***************************************************************************)
EXTENDS Naturals, Sequences, SequencesExt

CONSTANTS MaxQueries, MaxDepth  (* bounds: statements, constructs within each other *)

ASSUME ScriptAssumption == MaxQueries \in Nat /\ MaxDepth \in Nat

VARIABLES
  walk,          (* the constructs the walker of the tree is in            *)
  script,        (* the statements it has come by: see Structured          *)
  phase,
  query_vec, query_stack,
  scopes, scope,         (* the scopes and _scope; 1 is global_scope       *)
  branch_state,
  entering, exiting,     (* _entering_block_stmt, _exiting_block_stmt      *)
  query_idx,
  took                   (* history: the value of the last condition       *)

flags  == <<entering, exiting>>
layout == <<query_vec, query_stack, scopes, scope, branch_state>>
vars   == <<walk, script, phase, layout, flags, query_idx, took>>

NULL   == 0
Global == 1

(* Mutant: the index of the next query is taken after this one was pushed. *)
NewQueryPastIt(i) == [op |-> "none", next_idx |-> i + 2, true_idx |-> i + 1, false_idx |-> 0,
                      last_true |-> NULL, scope |-> NULL, expect_else |-> FALSE, is_elseif |-> FALSE]

NewQuery(i) == [op |-> "none", next_idx |-> i + 1, true_idx |-> i + 1, false_idx |-> 0,
                last_true |-> NULL, scope |-> NULL, expect_else |-> FALSE, is_elseif |-> FALSE]

NewScope(parent) == [parent |-> parent, is_in_block |-> FALSE]

Frame(kind, of, arm, blocks) ==
  [kind |-> kind, of |-> of, arm |-> arm, blocks |-> blocks, seen |-> 0, else |-> FALSE]

Init ==
  /\ walk = <<Frame("script", 0, "script", 0)>> /\ script = << >> /\ phase = "parse"
  /\ query_vec = << >> /\ query_stack = << >>
  /\ scopes = <<NewScope(NULL)>> /\ scope = Global
  /\ branch_state \in {"EXPECT_EXPR", "NO_BRANCH"}  (* a new handle; one that was used *)
  /\ entering = FALSE /\ exiting = FALSE
  /\ query_idx = 1 /\ took = FALSE

Inner == Last(walk)
Query == IF query_stack = << >> THEN NULL ELSE Head(query_stack)
Size  == Len(query_vec) + 1  (* the index of the query that comes next *)

Enter(f) == walk' = Append(walk, f)
Leave    == walk' = LET out == Front(walk) IN [out EXCEPT ![Len(out)].seen = @ + 1]

Crash == phase' = "crashed" /\ UNCHANGED <<layout, flags, query_idx, took>>

(***************************************************************************)
(* The clause of a statement.  A block has no query of its own: the one    *)
(* that was made for it goes to its first statement.                       *)
(***************************************************************************)
Accepts(f) ==
  CASE f.kind = "clause"             -> FALSE
    [] f.kind \in {"script", "block"} -> TRUE
    [] f.kind = "if"                 -> f.seen = 0 \/ (f.seen = 1 /\ f.else)
    [] f.kind = "while"              -> f.seen = 0

ArmOf(f) == CASE f.kind = "if"    -> IF f.seen = 0 THEN "then" ELSE "else"
              [] f.kind = "while" -> "body"
              [] OTHER            -> f.arm

EnterSql ==
  /\ phase = "parse" /\ Accepts(Inner)
  /\ entering \/ Len(query_vec) < MaxQueries
  /\ Enter(Frame("clause", Inner.of, ArmOf(Inner), Inner.blocks))
  /\ entering' = FALSE
  /\ IF entering THEN UNCHANGED <<query_vec, query_stack>>
     ELSE /\ query_vec' = Append(query_vec, NewQuery(Size))
          /\ query_stack' = <<Size>> \o query_stack
  /\ UNCHANGED <<script, phase, scopes, scope, branch_state, exiting, query_idx, took>>

(***************************************************************************)
(* query_exit_query: self is the query around the one that ends, or NULL.  *)
(***************************************************************************)
(* Mutant: an IF is linked like a loop. *)
LinkedBack(prev) ==
  IF query_vec[prev].op \in {"if", "while"}
    THEN [query_vec EXCEPT ![query_vec[prev].last_true].next_idx = prev]
    ELSE query_vec

Linked(prev) ==
  LET q == query_vec[prev]
  IN  IF q.op = "if" THEN [query_vec EXCEPT ![q.last_true].next_idx = Size]
      ELSE IF q.op = "while" THEN [query_vec EXCEPT ![q.last_true].next_idx = prev]
      ELSE query_vec

(* Mutant: an ELSE IF passes for the last statement of the arm before it. *)
IsLastTrueAny(prev) == TRUE

IsLastTrue(prev) == ~(query_vec[prev].op = "if" /\ query_vec[prev].is_elseif)

Follow(self, prev) ==
  LET linked == Linked(prev)
      kept   == IF IsLastTrue(prev) THEN [linked EXCEPT ![self].last_true = prev] ELSE linked
  IN  IF self = NULL
        THEN query_vec' = linked /\ branch_state' = "NO_BRANCH"
      ELSE IF branch_state # "EXPECT_EXPR"
        THEN query_vec' = linked /\ UNCHANGED branch_state
      ELSE IF scopes[scope].is_in_block
        THEN query_vec' = kept /\ UNCHANGED branch_state
      ELSE IF query_vec[self].expect_else
        THEN query_vec' = kept /\ branch_state' = "EXPECT_ELSE"
      ELSE query_vec' = [kept EXCEPT ![self].false_idx = Size] /\ branch_state' = "EXPECT_EXIT"

(* A branch none of whose statements was taken for the last; no scope. *)
FollowsNull ==
  \/ query_vec[Query].op \in {"if", "while"} /\ query_vec[Query].last_true = NULL
  \/ Len(query_stack) > 1 /\ branch_state = "EXPECT_EXPR" /\ scope = NULL

ExitSql ==
  /\ phase = "parse" /\ Inner.kind = "clause" /\ Inner.seen = 1
  /\ Leave /\ UNCHANGED script
  /\ IF exiting
       THEN exiting' = FALSE /\ UNCHANGED <<layout, phase, entering, query_idx, took>>
     ELSE IF FollowsNull THEN Crash
     ELSE /\ query_stack' = Tail(query_stack)
          /\ Follow(IF Len(query_stack) = 1 THEN NULL ELSE query_stack[2], Query)
          /\ UNCHANGED <<scopes, scope, phase, flags, query_idx, took>>

(***************************************************************************)
(* query_init_op (and for an IF query_enter_if): a statement begins.  The first one after an ELSE is told *)
(* by branch_state; the branch is the query below it on the stack.         *)
(***************************************************************************)
BranchScopes == LET parent == IF branch_state = "EXPECT_ELSE" THEN scopes[scope].parent ELSE scope
                IN  Append(scopes, NewScope(parent))

Constructed(op, else) ==
  [query_vec EXCEPT ![Query] =
     [@ EXCEPT !.op = op, !.expect_else = else,
               !.scope = IF op = "simple" THEN NULL ELSE Len(scopes) + 1]]

AssertFails == branch_state = "EXPECT_ELSE" /\ query_vec[query_stack[2]].op # "if"

InitElse(op, else) ==
  LET branch == query_stack[2]
      before == IF op = "simple" THEN scopes ELSE BranchScopes
      bare   == Append(before, NewScope(scopes[query_vec[branch].scope].parent))
  IN  /\ query_vec' = [Constructed(op, else) EXCEPT ![branch].false_idx = Query,
                                              ![Query].is_elseif = (op = "if")]
      /\ scopes' = IF op = "if" THEN before ELSE bare
      /\ branch_state' = IF op = "if" THEN "EXPECT_EXPR" ELSE branch_state
      /\ scope' = Len(scopes')

InitFirst(op, else) ==
  /\ query_vec' = Constructed(op, else)
  /\ IF op = "simple" THEN UNCHANGED <<scopes, scope, branch_state>>
     ELSE scopes' = BranchScopes /\ scope' = Len(scopes') /\ branch_state' = "EXPECT_EXPR"

InitOp(op, else) ==
  IF AssertFails \/ (op # "simple" /\ branch_state = "EXPECT_ELSE" /\ scope = NULL) THEN Crash
  ELSE /\ IF branch_state = "EXPECT_ELSE" THEN InitElse(op, else) ELSE InitFirst(op, else)
       /\ UNCHANGED <<phase, query_stack, flags, query_idx, took>>

AtStatement == phase = "parse" /\ Inner.kind = "clause" /\ Inner.seen = 0

Read(kind) == script' = Append(script, [kind |-> kind, of |-> Inner.of, arm |-> Inner.arm,
                                        blocks |-> Inner.blocks])

SeenInner == walk' = [walk EXCEPT ![Len(walk)].seen = 1]

(* SELECT, DELETE, UPDATE, SET or DECLARE. *)
Simple == AtStatement /\ SeenInner /\ Read("simple") /\ InitOp("simple", FALSE)

(* A SELECT with a subquery: the subquery begins too, on top of the stack.  If branch_state
   still says ELSE, the query below it should be an IF and is the SELECT; otherwise nothing
   comes of it. *)
Subquery ==
  /\ AtStatement /\ branch_state = "EXPECT_ELSE"
  /\ SeenInner /\ Read("subquery") /\ Crash

EnterIf(else) ==
  /\ AtStatement /\ Len(walk) < MaxDepth /\ Read("if")
  /\ Enter([Frame("if", Len(script) + 1, "then", 0) EXCEPT !.else = else])
  /\ InitOp("if", else)

EnterWhile ==
  /\ AtStatement /\ Len(walk) < MaxDepth /\ Read("while")
  /\ Enter(Frame("while", Len(script) + 1, "body", 0))
  /\ InitOp("while", FALSE)

(***************************************************************************)
(* query_enter_block, query_exit_block: the active query is the branch     *)
(* around the block once a statement of the block has ended.               *)
(***************************************************************************)
EnterBlock ==
  /\ AtStatement /\ Len(walk) < MaxDepth
  /\ Enter(Frame("block", Inner.of, Inner.arm, Inner.blocks + 1))
  /\ UNCHANGED script
  /\ IF scope = NULL THEN Crash
     ELSE /\ entering' = TRUE
          /\ scopes' = [scopes EXCEPT ![scope].is_in_block = TRUE]
          /\ UNCHANGED <<phase, query_vec, query_stack, scope, branch_state, exiting, query_idx, took>>

ExitBlock ==
  /\ phase = "parse" /\ Inner.kind = "block" /\ Inner.seen > 0
  /\ Leave /\ UNCHANGED script
  /\ IF Query = NULL \/ scope = NULL THEN Crash
     ELSE /\ exiting' = TRUE
          /\ scopes' = [scopes EXCEPT ![scope].is_in_block = FALSE]
          /\ query_vec' = [query_vec EXCEPT ![Query].false_idx = Size]
          /\ branch_state' = IF query_vec[Query].expect_else THEN "EXPECT_ELSE" ELSE "EXPECT_EXIT"
          /\ UNCHANGED <<phase, query_stack, scope, entering, query_idx, took>>

(* BEGIN END: the active query is the one made for the block, without an operation. *)
ExitEmptyBlock ==
  /\ phase = "parse" /\ Inner.kind = "block" /\ Inner.seen = 0
  /\ Leave /\ Read("empty") /\ Crash

(***************************************************************************)
(* query_exit_branch: what ran last in each arm of an IF, ELSE IF, ... is  *)
(* sent behind it.  The IFs of the chain are the ones with its scope.      *)
(***************************************************************************)
Outer == scopes[query_vec[Query].scope].parent

Chain == {i \in Query .. Len(query_vec) :
            query_vec[i].op = "if" /\ scopes[query_vec[i].scope].parent = Outer}

LastOfArms == {query_vec[i].last_true : i \in Chain}

ExitBranch ==
  /\ phase = "parse"
  /\ \/ Inner.kind = "if" /\ Inner.seen = IF Inner.else THEN 2 ELSE 1
     \/ Inner.kind = "while" /\ Inner.seen = 1
  /\ Leave /\ UNCHANGED script
  /\ IF query_vec[Query].op = "if" /\ NULL \in LastOfArms THEN Crash
     ELSE /\ scope' = Outer
          /\ branch_state' = IF Outer = Global THEN "NO_BRANCH" ELSE "EXPECT_EXPR"
          /\ query_vec' = IF query_vec[Query].op # "if" THEN query_vec
                          ELSE [i \in DOMAIN query_vec |->
                                  IF i \in LastOfArms THEN [query_vec[i] EXCEPT !.next_idx = Size]
                                  ELSE query_vec[i]]
          /\ UNCHANGED <<phase, query_stack, scopes, flags, query_idx, took>>

(***************************************************************************)
(* fql_exec_plans runs the queries by their indexes, an index that is none *)
(* (-1 too) ends the script, and fql_reset forgets it.                     *)
(***************************************************************************)
ExecPlans ==
  /\ phase = "parse" /\ Len(walk) = 1 /\ Inner.seen > 0
  /\ phase' = "run"
  /\ UNCHANGED <<walk, script, layout, flags, query_idx, took>>

Advance(queries, next) ==
  IF next \in DOMAIN query_vec
    THEN query_vec' = queries /\ query_idx' = next /\ UNCHANGED <<phase, scopes, scope>>
    ELSE query_vec' = << >> /\ query_idx' = 1 /\ phase' = "done"
         /\ scopes' = <<NewScope(NULL)>> /\ scope' = Global

Run ==
  /\ phase = "run" /\ query_vec[query_idx].op = "simple"
  /\ Advance(query_vec, query_vec[query_idx].next_idx)
  /\ took' = FALSE
  /\ UNCHANGED <<walk, script, query_stack, branch_state, flags>>

NextOfBranch(q, cond) == IF cond THEN q.true_idx ELSE q.false_idx

RunBranch(cond) ==
  /\ phase = "run" /\ query_vec[query_idx].op # "simple"
  /\ LET next == NextOfBranch(query_vec[query_idx], cond)
     IN  Advance([query_vec EXCEPT ![query_idx].next_idx = next], next)
  /\ took' = cond
  /\ UNCHANGED <<walk, script, query_stack, branch_state, flags>>

Exec == Run \/ \E cond \in BOOLEAN : RunBranch(cond)

Next ==
  \/ EnterSql \/ ExitSql
  \/ Simple \/ Subquery
  \/ \E else \in BOOLEAN : EnterIf(else)
  \/ EnterWhile
  \/ EnterBlock \/ ExitBlock \/ ExitEmptyBlock
  \/ ExitBranch
  \/ ExecPlans \/ Exec

(* The program executes what it has laid out. *)
Spec == Init /\ [][Next]_vars /\ WF_vars(Exec)

(***************************************************************************)
(* The kinds of every part of the layout; in particular the indexes stay   *)
(* among the queries and the scope is one that was made.                   *)
(***************************************************************************)
TypeOK ==
  /\ phase \in {"parse", "run", "done", "crashed"}
  /\ branch_state \in {"NO_BRANCH", "EXPECT_EXPR", "EXPECT_ELSE", "EXPECT_EXIT"}
  /\ scope \in {NULL} \cup DOMAIN scopes
  /\ \A s \in DOMAIN scopes : scopes[s].parent \in 0 .. s - 1
  /\ query_idx \in 1 .. Size
  /\ \A i \in DOMAIN query_vec :
       LET q == query_vec[i]
       IN  /\ {q.next_idx, q.true_idx, q.false_idx} \subseteq 0 .. Size
           /\ q.last_true \in {NULL} \cup (i + 1 .. Len(query_vec))
  /\ \A i \in DOMAIN query_stack : query_stack[i] \in DOMAIN query_vec

(***************************************************************************)
(* A script of a supported form runs as its structure says: after each     *)
(* statement comes the one that follows it in its block, its loop or its   *)
(* branch, and the program neither fails while it lays the script out nor  *)
(* stops before its end.                                                   *)
(***************************************************************************)
Laid == INSTANCE Structured WITH
          at <- IF phase = "done" THEN Len(script) + 1 ELSE query_idx

FollowsScript == Laid!Spec

(* Every script without a loop ends, whatever its form: no index leads back. *)
NoLoop == \A i \in DOMAIN script : script[i].kind # "while"
Ends   == phase = "run" /\ NoLoop ~> phase = "done"
=============================================================================
