---------------------------- MODULE ScriptProofs ----------------------------
(***************************************************************************)
(* What the layout of a script relies on, for scripts of every size: the   *)
(* stack of active queries holds the branches the walker is in and, above  *)
(* them, the query of the statement it is at.                              *)
(***************************************************************************)
EXTENDS Script, SequenceTheorems, TLAPS

-----------------------------------------------------------------------------
(* The invariant. *)

Queries == [op : {"none", "simple", "if", "while"}, next_idx : Nat, true_idx : Nat, false_idx : Nat,
            last_true : Nat, scope : Nat, expect_else : BOOLEAN, is_elseif : BOOLEAN]

Frames == [kind : {"script", "clause", "block", "if", "while"}, of : Nat,
           arm : {"script", "then", "else", "body"}, blocks : Nat, seen : Nat, else : BOOLEAN]

Scopes == [parent : Nat, is_in_block : BOOLEAN]

Lines == [kind : {"simple", "subquery", "if", "while", "empty"}, of : Nat,
          arm : {"script", "then", "else", "body"}, blocks : Nat]

Kinded ==
  /\ walk \in Seq(Frames) /\ script \in Seq(Lines)
  /\ query_vec \in Seq(Queries) /\ query_stack \in Seq(Nat) /\ scopes \in Seq(Scopes)
  /\ scope \in Nat /\ query_idx \in Nat
  /\ entering \in BOOLEAN /\ exiting \in BOOLEAN
  /\ phase \in {"parse", "run", "done", "crashed"}
  /\ branch_state \in {"NO_BRANCH", "EXPECT_EXPR", "EXPECT_ELSE", "EXPECT_EXIT"}

(* Query i of n leads to one of them, or past them, and has a scope if it is a branch;
   there are m scopes. *)
InRange(q, i, n, m) ==
  /\ q.next_idx <= n + 1 /\ q.true_idx <= n + 1 /\ q.false_idx <= n + 1
  /\ q.last_true = NULL \/ (i < q.last_true /\ q.last_true <= n)
  /\ q.op \in {"if", "while"} => q.scope \in 1 .. m

AllInRange(v, m) == \A i \in 1 .. Len(v) : InRange(v[i], i, Len(v), m)

(* It leads on, or nowhere. *)
Ahead(i, next) == next = 0 \/ i < next

Onward(q, i) == q.op # "while" /\ Ahead(i, q.next_idx) /\ Ahead(i, q.true_idx) /\ Ahead(i, q.false_idx)

AllOnward(v) == \A i \in 1 .. Len(v) : Onward(v[i], i)

Indexed == AllInRange(query_vec, Len(scopes))

Forward == NoLoop => AllOnward(query_vec)

(* A scope is within one that was made before. *)
Rooted(v) == \A s \in 1 .. Len(v) : v[s].parent < s

Parented == scope <= Len(scopes) /\ Rooted(scopes)

Listed == \A k \in 1 .. Len(query_stack) : query_stack[k] \in 1 .. Len(query_vec)

(* A statement of a script is a clause; it may be a branch or a block, which have clauses
   in turn. *)
Proper(w) ==
  /\ w # << >> /\ w[1].kind = "script"
  /\ \A k \in 2 .. Len(w) :
       w[k].kind # "script" /\ (w[k].kind = "clause" <=> w[k - 1].kind # "clause")

Nested ==
  /\ Proper(walk)
  /\ entering => Inner.kind = "block" /\ Inner.seen = 0
  /\ exiting => Inner.kind = "clause" /\ Inner.seen > 0

InBranch(f) == f.kind \in {"if", "while"}

(* A query that was made and has no operation yet. *)
Waiting == entering \/ (Inner.kind = "clause" /\ Inner.seen = 0)

(* The query of the statement the walker is at is on the stack; a block gave it away. *)
Leaf == entering \/ (Inner.kind = "clause" /\ ~exiting)

Below == IF Leaf THEN Tail(query_stack) ELSE query_stack

Branches(w) == {w[k].of : k \in {j \in 1 .. Len(w) : InBranch(w[j])}}

Members(s) == {s[k] : k \in 1 .. Len(s)}

Decreasing(s) == \A j, k \in 1 .. Len(s) : j < k => s[k] < s[j]

(* A branch comes after the one it is in, and has its query. *)
Climbing(w) == \A j, k \in 1 .. Len(w) :
                 j < k /\ InBranch(w[j]) /\ InBranch(w[k]) => w[j].of < w[k].of

Active(w, v) == \A k \in 1 .. Len(w) :
                  InBranch(w[k]) => w[k].of \in 1 .. Len(v) /\ v[w[k].of].op = w[k].kind

(* The branches around the walker, from the inside, are what is on the stack. *)
Stacked ==
  /\ Decreasing(query_stack)
  /\ Leaf => query_stack # << >>
  /\ Members(Below) = Branches(walk)

(* The queries are the statements of the script, in the order of the text. *)
Numbered ==
  IF Waiting THEN Len(script) + 1 = Len(query_vec) /\ Head(query_stack) = Len(query_vec)
             ELSE Len(script) = Len(query_vec)

(* When an ELSE comes next, the IF it belongs to is still active. *)
ElseActive ==
  branch_state = "EXPECT_ELSE" =>
    query_stack # << >> /\ (Waiting => Len(query_stack) > 1)

Begun == Len(walk) > 1 \/ walk[1].seen > 0 => query_vec # << >>

Parsing ==
  phase = "parse" =>
    /\ Nested /\ Climbing(walk) /\ Active(walk, query_vec) /\ Stacked
    /\ Numbered /\ ElseActive /\ Begun /\ query_idx = 1

Running ==
  /\ phase = "run" => query_idx \in 1 .. Len(query_vec)
  /\ phase \in {"run", "done"} => query_stack = << >>
  /\ query_idx \in 1 .. Len(query_vec) + 1

ScriptInv == Kinded /\ Indexed /\ Forward /\ Parented /\ Listed /\ Parsing /\ Running

-----------------------------------------------------------------------------
(* Sequences: what the parts of the layout look like after a step. *)

LEMMA Updated ==
  ASSUME NEW S, NEW s \in Seq(S), NEW i, NEW e, i \in 1 .. Len(s) => e \in S
  PROVE  /\ [s EXCEPT ![i] = e] \in Seq(S)
         /\ Len([s EXCEPT ![i] = e]) = Len(s)
         /\ \A k \in 1 .. Len(s) : [s EXCEPT ![i] = e][k] = IF k = i THEN e ELSE s[k]
<1> DEFINE t == [s EXCEPT ![i] = e]
<1>1. Len(s) \in Nat /\ s \in [1 .. Len(s) -> S] /\ DOMAIN s = 1 .. Len(s)
  BY LenProperties
<1>2. t \in [1 .. Len(s) -> S]
  BY <1>1
<1>3. t \in Seq(S)
  BY <1>1, <1>2, SeqDef
<1>4. Len(t) = Len(s)
  <2>1. DOMAIN t = 1 .. Len(s) /\ DOMAIN t = 1 .. Len(t) /\ Len(t) \in Nat
    BY <1>2, <1>3, LenProperties
  <2>2. QED
    BY <1>1, <2>1
<1>5. QED
  BY <1>1, <1>3, <1>4

LEMMA MembersOf ==
  ASSUME NEW s \in Seq(Nat), s # << >>
  PROVE  /\ Head(s) \in Members(s) /\ Tail(s) \in Seq(Nat) /\ Len(Tail(s)) = Len(s) - 1
         /\ \A k \in 1 .. Len(Tail(s)) : Tail(s)[k] = s[k + 1]
         /\ Members(s) = Members(Tail(s)) \cup {Head(s)}
         /\ Decreasing(s) => /\ Decreasing(Tail(s))
                             /\ \A x \in Members(Tail(s)) : x < Head(s)
<1> DEFINE t == Tail(s)
<1>1. /\ Len(s) \in Nat \ {0} /\ Head(s) = s[1] /\ t \in Seq(Nat) /\ Len(t) = Len(s) - 1
      /\ \A k \in 1 .. Len(t) : t[k] = s[k + 1]
  BY HeadTailProperties, EmptySeq
<1> HIDE DEF t
<1>2. \A k \in 1 .. Len(t) : k + 1 \in 1 .. Len(s) /\ 1 < k + 1
  BY <1>1
<1>3. \A k \in 1 .. Len(s) : k = 1 \/ (k - 1 \in 1 .. Len(t) /\ t[k - 1] = s[k])
  BY <1>1
<1>4. Head(s) \in Members(s)
  BY <1>1 DEF Members
<1>5. \A k \in 1 .. Len(t) : t[k] \in Members(s)
  BY <1>1, <1>2 DEF Members
<1>6. \A k \in 1 .. Len(s) : s[k] \in Members(t) \cup {Head(s)}
  BY <1>1, <1>3 DEF Members
<1>7. Members(s) = Members(t) \cup {Head(s)}
  BY <1>4, <1>5, <1>6 DEF Members
<1>8. ASSUME Decreasing(s), NEW j \in 1 .. Len(t), NEW k \in 1 .. Len(t), j < k
      PROVE  t[k] < t[j]
  <2>1. s[k + 1] < s[j + 1]
    BY <1>1, <1>2, <1>8 DEF Decreasing
  <2>2. QED
    BY <1>1, <2>1
<1>9. ASSUME Decreasing(s), NEW k \in 1 .. Len(t) PROVE t[k] < Head(s)
  <2>1. s[k + 1] < s[1]
    BY <1>1, <1>2, <1>9 DEF Decreasing
  <2>2. QED
    BY <1>1, <2>1
<1>10. QED
  BY <1>1, <1>4, <1>7, <1>8, <1>9 DEF t, Members, Decreasing

LEMMA Pushed ==
  ASSUME NEW s \in Seq(Nat), NEW n \in Nat
  PROVE  /\ <<n>> \o s \in Seq(Nat) /\ <<n>> \o s # << >>
         /\ Len(<<n>> \o s) = Len(s) + 1
         /\ \A k \in 1 .. Len(s) + 1 : (<<n>> \o s)[k] = IF k <= 1 THEN n ELSE s[k - 1]
         /\ Head(<<n>> \o s) = n /\ Tail(<<n>> \o s) = s
         /\ Decreasing(s) /\ (\A x \in Members(s) : x < n) => Decreasing(<<n>> \o s)
<1> DEFINE t == <<n>> \o s
<1>1. <<n>> \in Seq(Nat) /\ Len(<<n>>) = 1 /\ <<n>>[1] = n /\ Len(s) \in Nat
  BY LenProperties
<1>2. /\ t \in Seq(Nat) /\ Len(t) = Len(s) + 1
      /\ \A k \in 1 .. Len(s) + 1 : t[k] = IF k <= 1 THEN n ELSE s[k - 1]
  BY <1>1, ConcatProperties
<1> HIDE DEF t
<1>3. t # << >> /\ Head(t) = n
  BY <1>1, <1>2, EmptySeq
<1>4. Tail(t) = s
  <2>1. Tail(t) \in Seq(Nat) /\ Len(Tail(t)) = Len(s) /\ \A k \in 1 .. Len(s) : Tail(t)[k] = t[k + 1]
    BY <1>1, <1>2, <1>3, HeadTailProperties
  <2>2. \A k \in 1 .. Len(s) : Tail(t)[k] = s[k]
    BY <1>1, <1>2, <2>1
  <2>3. QED
    BY <2>1, <2>2, SeqEqual
<1>5. ASSUME Decreasing(s), \A x \in Members(s) : x < n,
             NEW j \in 1 .. Len(t), NEW k \in 1 .. Len(t), j < k
      PROVE  t[k] < t[j]
  <2>1. k - 1 \in 1 .. Len(s) /\ t[k] = s[k - 1]
    BY <1>1, <1>2, <1>5
  <2>2. CASE j = 1
    BY <1>1, <1>2, <1>5, <2>1, <2>2 DEF Members
  <2>3. CASE j # 1
    <3>1. j - 1 \in 1 .. Len(s) /\ t[j] = s[j - 1] /\ j - 1 < k - 1
      BY <1>1, <1>2, <1>5, <2>3
    <3>2. QED
      BY <1>5, <2>1, <3>1 DEF Decreasing
  <2>4. QED
    BY <2>2, <2>3
<1>6. QED
  BY <1>2, <1>3, <1>4, <1>5 DEF t, Decreasing

-----------------------------------------------------------------------------
(* The walker's constructs: what entering and leaving one does. *)

Alike(w, g) == Len(g) = Len(w) /\ \A k \in 1 .. Len(w) : g[k].kind = w[k].kind /\ g[k].of = w[k].of

LEMMA AlikeKeeps ==
  ASSUME NEW w \in Seq(Frames), NEW g \in Seq(Frames), Alike(w, g)
  PROVE  /\ Branches(g) = Branches(w)
         /\ Proper(w) => Proper(g)
         /\ Climbing(w) => Climbing(g)
         /\ \A v : Active(w, v) => Active(g, v)
<1>1. Len(w) \in Nat /\ Len(g) = Len(w)
  BY LenProperties DEF Alike
<1>2. \A k \in 1 .. Len(w) : (InBranch(g[k]) <=> InBranch(w[k])) /\ g[k].of = w[k].of /\ g[k].kind = w[k].kind
  BY DEF Alike, InBranch
<1>3. Branches(g) = Branches(w)
  BY <1>1, <1>2 DEF Branches
<1>4. Climbing(w) => Climbing(g)
  BY <1>1, <1>2 DEF Climbing
<1>5. \A v : Active(w, v) => Active(g, v)
  BY <1>1, <1>2 DEF Active
<1>6. ASSUME Proper(w) PROVE Proper(g)
  <2>1. Len(w) > 0 /\ g # << >>
    BY <1>1, <1>6, EmptySeq DEF Proper
  <2>2. g[1].kind = "script"
    BY <1>1, <1>2, <1>6, <2>1 DEF Proper
  <2>3. \A k \in 2 .. Len(w) : k \in 1 .. Len(w) /\ k - 1 \in 1 .. Len(w)
    BY <1>1
  <2>4. QED
    BY <1>1, <1>2, <1>6, <2>1, <2>2, <2>3 DEF Proper
<1>7. QED
  BY <1>3, <1>4, <1>5, <1>6

(* A construct is entered: it is the innermost one. *)
LEMMA Grown ==
  ASSUME NEW w \in Seq(Frames), w # << >>, NEW f \in Frames
  PROVE  /\ Append(w, f) \in Seq(Frames)
         /\ Len(Append(w, f)) = Len(w) + 1 /\ Last(Append(w, f)) = f
         /\ Branches(Append(w, f)) = Branches(w) \cup (IF InBranch(f) THEN {f.of} ELSE {})
         /\ Proper(w) /\ f.kind # "script" /\ (f.kind = "clause" <=> Last(w).kind # "clause")
              => Proper(Append(w, f))
         /\ Climbing(w) /\ (InBranch(f) => \A x \in Branches(w) : x < f.of)
              => Climbing(Append(w, f))
         /\ \A v : Active(w, v) /\ (InBranch(f) => f.of \in 1 .. Len(v) /\ v[f.of].op = f.kind)
              => Active(Append(w, f), v)
<1> DEFINE g == Append(w, f)
           n == Len(w)
<1>1. n \in Nat \ {0} /\ n > 0 /\ Last(w) = w[n]
  BY LenProperties, EmptySeq DEF Last
<1>2. /\ g \in Seq(Frames) /\ Len(g) = n + 1 /\ g[n + 1] = f
      /\ \A k \in 1 .. n : g[k] = w[k]
  BY AppendProperties
<1>3. g # << >> /\ Last(g) = f
  BY <1>1, <1>2, EmptySeq DEF Last
<1> HIDE DEF g, n
<1>4. \A k \in 1 .. Len(g) : (k \in 1 .. n /\ g[k] = w[k]) \/ (k = n + 1 /\ g[k] = f)
  BY <1>1, <1>2
<1>5. \A k \in 1 .. n : k \in 1 .. Len(g)
  BY <1>1, <1>2
<1>6. n + 1 \in 1 .. Len(g)
  BY <1>1, <1>2
<1>7. \A k \in 1 .. n : InBranch(w[k]) => w[k].of \in Branches(w)
  BY DEF Branches, n
<1>8. Branches(g) = Branches(w) \cup (IF InBranch(f) THEN {f.of} ELSE {})
  <2>1. \A x \in Branches(w) : x \in Branches(g)
    BY <1>2, <1>5 DEF Branches, n
  <2>2. InBranch(f) => f.of \in Branches(g)
    BY <1>2, <1>6 DEF Branches
  <2>3. \A x \in Branches(g) : x \in Branches(w) \/ (InBranch(f) /\ x = f.of)
    BY <1>4, <1>7 DEF Branches
  <2>4. QED
    BY <2>1, <2>2, <2>3
<1>9. ASSUME Proper(w), f.kind # "script", f.kind = "clause" <=> Last(w).kind # "clause"
      PROVE  Proper(g)
  <2>1. g[1].kind = "script"
    BY <1>1, <1>2, <1>9 DEF Proper
  <2>2. ASSUME NEW k \in 2 .. Len(g)
        PROVE  g[k].kind # "script" /\ (g[k].kind = "clause" <=> g[k - 1].kind # "clause")
    <3>1. CASE k = n + 1
      BY <1>1, <1>2, <1>9, <3>1
    <3>2. CASE k # n + 1
      <4>1. k \in 2 .. n /\ k \in 1 .. n /\ k - 1 \in 1 .. n
        BY <1>1, <1>2, <3>2
      <4>2. QED
        BY <1>2, <1>9, <4>1 DEF Proper, n
    <3>3. QED
      BY <3>1, <3>2
  <2>3. QED
    BY <1>3, <2>1, <2>2 DEF Proper
<1>10. ASSUME Climbing(w), InBranch(f) => \A x \in Branches(w) : x < f.of
       PROVE  Climbing(g)
  <2>1. SUFFICES ASSUME NEW j \in 1 .. Len(g), NEW k \in 1 .. Len(g), j < k,
                        InBranch(g[j]), InBranch(g[k])
                 PROVE  g[j].of < g[k].of
    BY DEF Climbing
  <2>2. j \in 1 .. n /\ g[j] = w[j]
    BY <1>1, <1>2, <2>1
  <2>3. CASE k \in 1 .. n
    BY <1>2, <1>10, <2>1, <2>2, <2>3 DEF Climbing, n
  <2>4. CASE k = n + 1
    BY <1>2, <1>7, <1>10, <2>1, <2>2, <2>4
  <2>5. QED
    BY <1>4, <2>3, <2>4
<1>11. ASSUME NEW v, Active(w, v), InBranch(f) => f.of \in 1 .. Len(v) /\ v[f.of].op = f.kind
       PROVE  Active(g, v)
  BY <1>4, <1>11 DEF Active, n
<1>12. QED
  BY <1>2, <1>3, <1>8, <1>9, <1>10, <1>11 DEF g, n

LEMMA Innermost ==
  ASSUME NEW w \in Seq(Frames), Proper(w)
  PROVE  /\ Len(w) \in Nat \ {0} /\ Last(w) = w[Len(w)] /\ Last(w) \in Frames
         /\ Last(w).kind # "script" => Len(w) > 1
         /\ InBranch(Last(w)) => Last(w).of \in Branches(w)
<1>1. Len(w) \in Nat \ {0} /\ Len(w) \in 1 .. Len(w) /\ Last(w) = w[Len(w)]
  BY EmptySeq, LenProperties DEF Proper, Last
<1>2. Last(w) \in Frames
  BY <1>1, ElementOfSeq
<1>3. Last(w).kind # "script" => Len(w) > 1
  BY <1>1 DEF Proper
<1>4. QED
  BY <1>1, <1>2, <1>3 DEF Branches

(* The statement of the innermost clause is read. *)
LEMMA Marked ==
  ASSUME NEW w \in Seq(Frames), Proper(w)
  PROVE  LET g == [w EXCEPT ![Len(w)].seen = 1]
         IN  g \in Seq(Frames) /\ Alike(w, g) /\ Last(g) = [Last(w) EXCEPT !.seen = 1]
<1> DEFINE e == [w[Len(w)] EXCEPT !.seen = 1]
           g == [w EXCEPT ![Len(w)] = e]
<1>1. Len(w) \in Nat \ {0} /\ Len(w) \in 1 .. Len(w) /\ Last(w) = w[Len(w)] /\ w[Len(w)] \in Frames
  BY Innermost
<1>2. e \in Frames /\ e.kind = w[Len(w)].kind /\ e.of = w[Len(w)].of
  BY <1>1 DEF Frames
<1> HIDE DEF e
<1>3. g \in Seq(Frames) /\ Len(g) = Len(w) /\ \A k \in 1 .. Len(w) : g[k] = IF k = Len(w) THEN e ELSE w[k]
  BY <1>2, Updated
<1>4. Alike(w, g)
  BY <1>2, <1>3 DEF Alike
<1>5. Last(g) = e
  BY <1>1, <1>3 DEF Last
<1>6. QED
  BY <1>1, <1>3, <1>4, <1>5 DEF e

(* The innermost construct is left: the one around it has one more statement. *)
LeftAs(w, g) ==
  /\ g \in Seq(Frames) /\ Len(g) = Len(w) - 1 /\ Proper(g)
  /\ Last(g).kind = w[Len(w) - 1].kind /\ Last(g).seen > 0
  /\ Branches(w) = Branches(g) \cup (IF InBranch(Last(w)) THEN {Last(w).of} ELSE {})
  /\ Climbing(w) => /\ Climbing(g)
                    /\ InBranch(Last(w)) => \A x \in Branches(g) : x < Last(w).of
  /\ \A v : Active(w, v) => Active(g, v)

LEMMA Shrunk ==
  ASSUME NEW w \in Seq(Frames), Proper(w), Len(w) > 1
  PROVE  LeftAs(w, LET out == Front(w) IN [out EXCEPT ![Len(out)].seen = @ + 1])
<1> DEFINE out == Front(w)
           n == Len(w) - 1
           e == [out[n] EXCEPT !.seen = @ + 1]
           g == [out EXCEPT ![n] = e]
<1>1. Len(w) \in Nat /\ n \in Nat \ {0} /\ n \in 1 .. n /\ n < Len(w) /\ n + 1 = Len(w)
      /\ Last(w) = w[n + 1]
  BY Innermost
<1>2. /\ out \in Seq(Frames) /\ Len(out) = n
      /\ \A k \in 1 .. n : out[k] = w[k]
  BY <1>1, SubSeqProperties DEF Front
<1>3. out # << >>
  BY <1>1, <1>2, EmptySeq
<1> HIDE DEF out, n
<1>4. e \in Frames /\ e.kind = out[n].kind /\ e.of = out[n].of /\ e.seen > 0
  <2>1. out[n] \in Frames
    BY <1>1, <1>2, ElementOfSeq
  <2>2. PICK m \in Nat : m = out[n].seen + 1 /\ m > 0
    BY <2>1 DEF Frames
  <2>3. e = [out[n] EXCEPT !.seen = m]
    BY <2>2
  <2>4. e \in Frames /\ e.kind = out[n].kind /\ e.of = out[n].of /\ e.seen = m
    BY <2>1, <2>3 DEF Frames
  <2>5. QED
    BY <2>2, <2>4
<1> HIDE DEF e
<1>5. g \in Seq(Frames) /\ Len(g) = n /\ \A k \in 1 .. n : g[k] = IF k = n THEN e ELSE out[k]
  BY <1>2, <1>4, Updated
<1>6. Last(g) = e
  BY <1>1, <1>5 DEF Last
<1> HIDE DEF g
<1>7. \A k \in 1 .. n : k \in 1 .. Len(w) /\ g[k].kind = w[k].kind /\ g[k].of = w[k].of
                        /\ (InBranch(g[k]) <=> InBranch(w[k]))
  BY <1>1, <1>2, <1>4, <1>5 DEF InBranch
<1>8. \A k \in 1 .. Len(w) : k \in 1 .. n \/ k = n + 1
  BY <1>1
<1>9. n + 1 \in 1 .. Len(w)
  BY <1>1
<1>10. Proper(g)
  <2>1. g # << >> /\ g[1].kind = "script"
    BY <1>1, <1>5, <1>7, EmptySeq DEF Proper
  <2>2. \A k \in 2 .. n : k \in 1 .. n /\ k - 1 \in 1 .. n /\ k \in 2 .. Len(w)
    BY <1>1
  <2>3. ASSUME NEW k \in 2 .. n
        PROVE  g[k].kind # "script" /\ (g[k].kind = "clause" <=> g[k - 1].kind # "clause")
    <3>1. w[k].kind # "script" /\ (w[k].kind = "clause" <=> w[k - 1].kind # "clause")
      BY <2>2 DEF Proper
    <3>2. g[k].kind = w[k].kind /\ g[k - 1].kind = w[k - 1].kind
      BY <1>7, <2>2
    <3>3. QED
      BY ONLY <3>1, <3>2
  <2>4. QED
    BY <1>5, <2>1, <2>3 DEF Proper
<1>11. \A x \in Branches(g) : x \in Branches(w)
  BY <1>5, <1>7 DEF Branches
<1>12. InBranch(Last(w)) => Last(w).of \in Branches(w)
  BY <1>1, <1>9 DEF Branches
<1>13. \A x \in Branches(w) : x \in Branches(g) \/ (InBranch(Last(w)) /\ x = Last(w).of)
  BY <1>1, <1>5, <1>7, <1>8 DEF Branches
<1>14. Branches(w) = Branches(g) \cup (IF InBranch(Last(w)) THEN {Last(w).of} ELSE {})
  BY <1>11, <1>12, <1>13
<1>15. Climbing(w) => Climbing(g)
  BY <1>5, <1>7 DEF Climbing
<1>16. ASSUME Climbing(w), InBranch(Last(w)), NEW x \in Branches(g) PROVE x < Last(w).of
  <2>1. PICK k \in 1 .. n : InBranch(g[k]) /\ x = g[k].of
    BY <1>5 DEF Branches
  <2>2. k < n + 1 /\ InBranch(w[k]) /\ x = w[k].of
    BY <1>1, <1>7, <2>1
  <2>3. QED
    BY <1>1, <1>7, <1>9, <1>16, <2>2 DEF Climbing
<1>17. \A v : Active(w, v) => Active(g, v)
  BY <1>5, <1>7 DEF Active
<1>18. Last(g).kind = w[n].kind
  BY <1>1, <1>2, <1>4, <1>6
<1>19. QED
  BY <1>2, <1>4, <1>5, <1>6, <1>10, <1>14, <1>15, <1>16, <1>17, <1>18 DEF LeftAs, g, e, out, n

-----------------------------------------------------------------------------
(* The queries: what setting an index of one does to the others. *)

SameOps(v, g) == Len(g) = Len(v) /\ \A k \in 1 .. Len(v) : g[k].op = v[k].op

Keeps(v, g, m) == g \in Seq(Queries) /\ AllInRange(g, m) /\ SameOps(v, g)

LEMMA Amended ==
  ASSUME NEW v \in Seq(Queries), NEW m \in Nat, AllInRange(v, m), NEW i \in Nat, NEW e,
         i \in 1 .. Len(v) => e \in Queries /\ InRange(e, i, Len(v), m)
  PROVE  LET g == [v EXCEPT ![i] = e]
         IN  /\ g \in Seq(Queries) /\ AllInRange(g, m) /\ Len(g) = Len(v)
             /\ \A k \in 1 .. Len(v) : g[k] = IF k = i THEN e ELSE v[k]
             /\ AllOnward(v) /\ (i \in 1 .. Len(v) => Onward(e, i)) => AllOnward(g)
<1> DEFINE g == [v EXCEPT ![i] = e]
<1>0. i \in 1 .. Len(v) => e \in Queries
  OBVIOUS
<1>1. /\ g \in Seq(Queries) /\ Len(g) = Len(v)
      /\ \A k \in 1 .. Len(v) : g[k] = IF k = i THEN e ELSE v[k]
  BY <1>0, Updated
<1> HIDE DEF g
<1>2. AllInRange(g, m)
  BY <1>1 DEF AllInRange
<1>3. AllOnward(v) /\ (i \in 1 .. Len(v) => Onward(e, i)) => AllOnward(g)
  BY <1>1 DEF AllOnward
<1>4. QED
  BY <1>1, <1>2, <1>3 DEF g

LEMMA NextSet ==
  ASSUME NEW v \in Seq(Queries), NEW m \in Nat, AllInRange(v, m), NEW i \in Nat,
         NEW x \in Nat, x <= Len(v) + 1
  PROVE  /\ Keeps(v, [v EXCEPT ![i].next_idx = x], m)
         /\ AllOnward(v) /\ Ahead(i, x) => AllOnward([v EXCEPT ![i].next_idx = x])
<1> DEFINE e == [v[i] EXCEPT !.next_idx = x]
           g == [v EXCEPT ![i] = e]
<1>1. i \in 1 .. Len(v) => v[i] \in Queries /\ InRange(v[i], i, Len(v), m)
  BY ElementOfSeq DEF AllInRange
<1>2. i \in 1 .. Len(v) => e \in Queries /\ e.op = v[i].op /\ e.next_idx = x
                           /\ e.true_idx = v[i].true_idx /\ e.false_idx = v[i].false_idx
                           /\ e.last_true = v[i].last_true /\ e.scope = v[i].scope
  BY <1>1 DEF Queries
<1> HIDE DEF e
<1>3. i \in 1 .. Len(v) => InRange(e, i, Len(v), m)
  BY <1>1, <1>2 DEF InRange
<1>4. AllOnward(v) /\ Ahead(i, x) => (i \in 1 .. Len(v) => Onward(e, i))
  BY <1>2 DEF AllOnward, Onward
<1>5. /\ g \in Seq(Queries) /\ AllInRange(g, m) /\ Len(g) = Len(v)
      /\ \A k \in 1 .. Len(v) : g[k] = IF k = i THEN e ELSE v[k]
      /\ AllOnward(v) /\ (i \in 1 .. Len(v) => Onward(e, i)) => AllOnward(g)
  BY <1>2, <1>3, Amended
<1> HIDE DEF g
<1>6. SameOps(v, g)
  BY <1>2, <1>5 DEF SameOps
<1>7. QED
  BY <1>4, <1>5, <1>6 DEF g, e, Keeps

LEMMA FalseSet ==
  ASSUME NEW v \in Seq(Queries), NEW m \in Nat, AllInRange(v, m), NEW i \in Nat,
         NEW x \in Nat, x <= Len(v) + 1
  PROVE  /\ Keeps(v, [v EXCEPT ![i].false_idx = x], m)
         /\ AllOnward(v) /\ Ahead(i, x) => AllOnward([v EXCEPT ![i].false_idx = x])
<1> DEFINE e == [v[i] EXCEPT !.false_idx = x]
           g == [v EXCEPT ![i] = e]
<1>1. i \in 1 .. Len(v) => v[i] \in Queries /\ InRange(v[i], i, Len(v), m)
  BY ElementOfSeq DEF AllInRange
<1>2. i \in 1 .. Len(v) => e \in Queries /\ e.op = v[i].op /\ e.false_idx = x
                           /\ e.true_idx = v[i].true_idx /\ e.next_idx = v[i].next_idx
                           /\ e.last_true = v[i].last_true /\ e.scope = v[i].scope
  BY <1>1 DEF Queries
<1> HIDE DEF e
<1>3. i \in 1 .. Len(v) => InRange(e, i, Len(v), m)
  BY <1>1, <1>2 DEF InRange
<1>4. AllOnward(v) /\ Ahead(i, x) => (i \in 1 .. Len(v) => Onward(e, i))
  BY <1>2 DEF AllOnward, Onward
<1>5. /\ g \in Seq(Queries) /\ AllInRange(g, m) /\ Len(g) = Len(v)
      /\ \A k \in 1 .. Len(v) : g[k] = IF k = i THEN e ELSE v[k]
      /\ AllOnward(v) /\ (i \in 1 .. Len(v) => Onward(e, i)) => AllOnward(g)
  BY <1>2, <1>3, Amended
<1> HIDE DEF g
<1>6. SameOps(v, g)
  BY <1>2, <1>5 DEF SameOps
<1>7. QED
  BY <1>4, <1>5, <1>6 DEF g, e, Keeps

LEMMA LastSet ==
  ASSUME NEW v \in Seq(Queries), NEW m \in Nat, AllInRange(v, m), NEW i \in Nat,
         NEW x \in Nat, i < x, x <= Len(v)
  PROVE  /\ Keeps(v, [v EXCEPT ![i].last_true = x], m)
         /\ AllOnward(v) => AllOnward([v EXCEPT ![i].last_true = x])
<1> DEFINE e == [v[i] EXCEPT !.last_true = x]
           g == [v EXCEPT ![i] = e]
<1>1. i \in 1 .. Len(v) => v[i] \in Queries /\ InRange(v[i], i, Len(v), m)
  BY ElementOfSeq DEF AllInRange
<1>2. i \in 1 .. Len(v) => e \in Queries /\ e.op = v[i].op /\ e.false_idx = v[i].false_idx
                           /\ e.true_idx = v[i].true_idx /\ e.next_idx = v[i].next_idx
                           /\ e.last_true = x /\ e.scope = v[i].scope
  BY <1>1 DEF Queries
<1> HIDE DEF e
<1>3. i \in 1 .. Len(v) => InRange(e, i, Len(v), m)
  BY <1>1, <1>2 DEF InRange
<1>4. AllOnward(v) => (i \in 1 .. Len(v) => Onward(e, i))
  BY <1>2 DEF AllOnward, Onward
<1>5. /\ g \in Seq(Queries) /\ AllInRange(g, m) /\ Len(g) = Len(v)
      /\ \A k \in 1 .. Len(v) : g[k] = IF k = i THEN e ELSE v[k]
      /\ AllOnward(v) /\ (i \in 1 .. Len(v) => Onward(e, i)) => AllOnward(g)
  BY <1>2, <1>3, Amended
<1> HIDE DEF g
<1>6. SameOps(v, g)
  BY <1>2, <1>5 DEF SameOps
<1>7. QED
  BY <1>4, <1>5, <1>6 DEF g, e, Keeps

LEMMA ElseIfSet ==
  ASSUME NEW v \in Seq(Queries), NEW m \in Nat, AllInRange(v, m), NEW i \in Nat, NEW x \in BOOLEAN
  PROVE  /\ Keeps(v, [v EXCEPT ![i].is_elseif = x], m)
         /\ AllOnward(v) => AllOnward([v EXCEPT ![i].is_elseif = x])
<1> DEFINE e == [v[i] EXCEPT !.is_elseif = x]
           g == [v EXCEPT ![i] = e]
<1>1. i \in 1 .. Len(v) => v[i] \in Queries /\ InRange(v[i], i, Len(v), m)
  BY ElementOfSeq DEF AllInRange
<1>2. i \in 1 .. Len(v) => e \in Queries /\ e.op = v[i].op /\ e.false_idx = v[i].false_idx
                           /\ e.true_idx = v[i].true_idx /\ e.next_idx = v[i].next_idx
                           /\ e.last_true = v[i].last_true /\ e.scope = v[i].scope
  BY <1>1 DEF Queries
<1> HIDE DEF e
<1>3. i \in 1 .. Len(v) => InRange(e, i, Len(v), m)
  BY <1>1, <1>2 DEF InRange
<1>4. AllOnward(v) => (i \in 1 .. Len(v) => Onward(e, i))
  BY <1>2 DEF AllOnward, Onward
<1>5. /\ g \in Seq(Queries) /\ AllInRange(g, m) /\ Len(g) = Len(v)
      /\ \A k \in 1 .. Len(v) : g[k] = IF k = i THEN e ELSE v[k]
      /\ AllOnward(v) /\ (i \in 1 .. Len(v) => Onward(e, i)) => AllOnward(g)
  BY <1>2, <1>3, Amended
<1> HIDE DEF g
<1>6. SameOps(v, g)
  BY <1>2, <1>5 DEF SameOps
<1>7. QED
  BY <1>4, <1>5, <1>6 DEF g, e, Keeps

(* A statement takes over the query that was made for it. *)
OpenedAt(v, g, i, op, m) ==
  /\ g \in Seq(Queries) /\ AllInRange(g, m) /\ Len(g) = Len(v) /\ g[i].op = op
  /\ \A k \in 1 .. Len(v) : k # i => g[k].op = v[k].op
  /\ AllOnward(v) /\ op # "while" => AllOnward(g)

LEMMA Opened ==
  ASSUME NEW v \in Seq(Queries), NEW m \in Nat, AllInRange(v, m), NEW i \in 1 .. Len(v),
         NEW op \in {"simple", "if", "while"}, NEW else \in BOOLEAN, NEW s \in Nat,
         op # "simple" => s \in 1 .. m,
         NEW g, g = [v EXCEPT ![i] = [@ EXCEPT !.op = op, !.expect_else = else, !.scope = s]]
  PROVE  OpenedAt(v, g, i, op, m)
<1> DEFINE e == [v[i] EXCEPT !.op = op, !.expect_else = else, !.scope = s]
<1>0. g = [v EXCEPT ![i] = e]
  OBVIOUS
<1>1. v[i] \in Queries /\ InRange(v[i], i, Len(v), m) /\ Len(v) \in Nat /\ i \in Nat
  BY ElementOfSeq, LenProperties DEF AllInRange
<1>2. e \in Queries
  BY <1>1 DEF Queries
<1>3. /\ e.op = op /\ e.scope = s /\ e.next_idx = v[i].next_idx /\ e.last_true = v[i].last_true
      /\ e.true_idx = v[i].true_idx /\ e.false_idx = v[i].false_idx
  BY <1>1 DEF Queries
<1> HIDE DEF e
<1>4. InRange(e, i, Len(v), m)
  BY <1>1, <1>3 DEF InRange
<1>5. AllOnward(v) /\ op # "while" => Onward(e, i)
  BY <1>3 DEF AllOnward, Onward
<1>6. /\ g \in Seq(Queries) /\ AllInRange(g, m) /\ Len(g) = Len(v)
      /\ \A k \in 1 .. Len(v) : g[k] = IF k = i THEN e ELSE v[k]
      /\ AllOnward(v) /\ (i \in 1 .. Len(v) => Onward(e, i)) => AllOnward(g)
  BY <1>0, <1>1, <1>2, <1>4, Amended
<1>7. QED
  BY <1>3, <1>5, <1>6 DEF OpenedAt

LEMMA QueryAdded ==
  ASSUME NEW v \in Seq(Queries), NEW m \in Nat, AllInRange(v, m)
  PROVE  LET g == Append(v, NewQuery(Len(v) + 1))
         IN  /\ g \in Seq(Queries) /\ AllInRange(g, m) /\ Len(g) = Len(v) + 1
             /\ \A k \in 1 .. Len(v) : g[k] = v[k]
             /\ AllOnward(v) => AllOnward(g)
<1> DEFINE n == Len(v) + 1
           e == NewQuery(n)
           g == Append(v, e)
<1>1. Len(v) \in Nat /\ n \in Nat /\ n + 1 \in Nat /\ Len(v) < n /\ n <= n + 1
  BY LenProperties
<1>2. /\ e \in Queries /\ e.op = "none" /\ e.next_idx = n + 1 /\ e.true_idx = n + 1
      /\ e.false_idx = 0 /\ e.last_true = 0
  BY <1>1 DEF NewQuery, Queries, NULL
<1> HIDE DEF e
<1>3. /\ g \in Seq(Queries) /\ Len(g) = n /\ g[n] = e
      /\ \A k \in 1 .. Len(v) : g[k] = v[k]
  BY <1>1, <1>2, AppendProperties
<1> HIDE DEF g
<1>4. \A k \in 1 .. n : k \in 1 .. Len(v) \/ k = n
  BY <1>1
<1>5. InRange(e, n, n, m)
  BY <1>1, <1>2 DEF InRange, NULL
<1>6. ASSUME NEW k \in 1 .. Len(v) PROVE InRange(v[k], k, n, m)
  <2>1. v[k] \in Queries /\ InRange(v[k], k, Len(v), m)
    BY ElementOfSeq DEF AllInRange
  <2>2. v[k].next_idx \in Nat /\ v[k].true_idx \in Nat /\ v[k].false_idx \in Nat /\ v[k].last_true \in Nat
    BY <2>1 DEF Queries
  <2>3. QED
    BY <1>1, <2>1, <2>2 DEF InRange, NULL
<1>7. AllInRange(g, m)
  BY <1>3, <1>4, <1>5, <1>6 DEF AllInRange
<1>8. Onward(e, n)
  BY <1>1, <1>2 DEF Onward, Ahead
<1>9. AllOnward(v) => AllOnward(g)
  BY <1>3, <1>4, <1>8 DEF AllOnward
<1>10. QED
  BY <1>3, <1>7, <1>9 DEF g, e, n

LEMMA MoreScopes ==
  ASSUME NEW v, NEW m \in Nat, NEW n \in Nat, m <= n, AllInRange(v, m)
  PROVE  AllInRange(v, n)
BY DEF AllInRange, InRange

(* The branches the walker is in stay branches. *)
LEMMA StillActive ==
  ASSUME NEW w, NEW v \in Seq(Queries), NEW g \in Seq(Queries), Active(w, v), Len(v) <= Len(g),
         \A k \in 1 .. Len(v) : k \in Branches(w) => g[k].op = v[k].op
  PROVE  Active(w, g)
<1>1. Len(v) \in Nat /\ Len(g) \in Nat
  BY LenProperties
<1>2. \A k \in 1 .. Len(w) : InBranch(w[k]) => w[k].of \in Branches(w)
  BY DEF Branches
<1>3. \A k \in 1 .. Len(v) : k \in 1 .. Len(g)
  BY <1>1
<1>4. QED
  BY <1>2, <1>3 DEF Active

-----------------------------------------------------------------------------
(* The scopes: each is made within one that is there, or within none. *)

LEMMA ScopeAdded ==
  ASSUME NEW s \in Seq(Scopes), Rooted(s), NEW p \in Nat, p <= Len(s)
  PROVE  LET g == Append(s, NewScope(p))
         IN  g \in Seq(Scopes) /\ Len(g) = Len(s) + 1 /\ Rooted(g)
<1> DEFINE e == NewScope(p)
           g == Append(s, e)
           n == Len(s)
<1>1. n \in Nat /\ p < n + 1
  BY LenProperties
<1>2. e \in Scopes /\ e.parent = p
  BY DEF NewScope, Scopes
<1> HIDE DEF e
<1>3. g \in Seq(Scopes) /\ Len(g) = n + 1 /\ g[n + 1] = e /\ \A k \in 1 .. n : g[k] = s[k]
  BY <1>2, AppendProperties
<1> HIDE DEF g
<1>4. \A k \in 1 .. n + 1 : k \in 1 .. n \/ k = n + 1
  BY <1>1
<1>5. Rooted(g)
  BY <1>1, <1>2, <1>3, <1>4 DEF Rooted
<1>6. QED
  BY <1>3, <1>5 DEF g, e

LEMMA ScopeMarked ==
  ASSUME NEW s \in Seq(Scopes), Rooted(s), NEW i \in Nat, NEW b \in BOOLEAN
  PROVE  LET g == [s EXCEPT ![i].is_in_block = b]
         IN  g \in Seq(Scopes) /\ Len(g) = Len(s) /\ Rooted(g)
<1> DEFINE e == [s[i] EXCEPT !.is_in_block = b]
           g == [s EXCEPT ![i] = e]
<1>1. i \in 1 .. Len(s) => s[i] \in Scopes
  BY ElementOfSeq
<1>2. i \in 1 .. Len(s) => e \in Scopes /\ e.parent = s[i].parent
  BY <1>1 DEF Scopes
<1> HIDE DEF e
<1>3. i \in 1 .. Len(s) => e \in Scopes
  BY <1>2
<1>4. g \in Seq(Scopes) /\ Len(g) = Len(s) /\ \A k \in 1 .. Len(s) : g[k] = IF k = i THEN e ELSE s[k]
  <2>1. [s EXCEPT ![i] = e] \in Seq(Scopes)
    BY <1>3, Updated
  <2>2. Len([s EXCEPT ![i] = e]) = Len(s)
    BY <1>3, Updated
  <2>3. \A k \in 1 .. Len(s) : [s EXCEPT ![i] = e][k] = IF k = i THEN e ELSE s[k]
    BY <1>3, Updated
  <2>4. QED
    BY <2>1, <2>2, <2>3
<1> HIDE DEF g
<1>5. Rooted(g)
  BY <1>2, <1>4 DEF Rooted
<1>6. QED
  BY <1>4, <1>5 DEF g, e

-----------------------------------------------------------------------------
(* The query of the statement the walker is at. *)

LEMMA AtQuery ==
  ASSUME Kinded, Listed, Stacked, Leaf
  PROVE  /\ query_stack \in Seq(Nat) /\ query_stack # << >> /\ Query = Head(query_stack)
         /\ Query \in 1 .. Len(query_vec) /\ query_vec[Query] \in Queries
         /\ Members(Tail(query_stack)) = Branches(walk)
         /\ \A x \in Branches(walk) : x < Query
         /\ Len(query_stack) > 1 => /\ query_stack[2] \in 1 .. Len(query_vec)
                                    /\ query_stack[2] < Query
<1>1. query_stack \in Seq(Nat) /\ query_stack # << >> /\ query_vec \in Seq(Queries)
  BY DEF Kinded, Stacked
<1>2. /\ Len(query_stack) \in Nat \ {0} /\ Head(query_stack) = query_stack[1]
      /\ 1 \in 1 .. Len(query_stack)
  BY <1>1, HeadTailProperties, EmptySeq
<1>3. Query = Head(query_stack) /\ Query \in 1 .. Len(query_vec)
  BY <1>1, <1>2 DEF Query, Listed
<1>4. query_vec[Query] \in Queries
  BY <1>1, <1>3, ElementOfSeq
<1>5. Members(Tail(query_stack)) = Branches(walk)
  BY DEF Stacked, Below
<1>6. \A x \in Branches(walk) : x < Query
  BY <1>1, <1>3, <1>5, MembersOf DEF Stacked
<1>7. ASSUME Len(query_stack) > 1
      PROVE  query_stack[2] \in 1 .. Len(query_vec) /\ query_stack[2] < Query
  <2>1. 2 \in 1 .. Len(query_stack)
    BY <1>2, <1>7
  <2>2. query_stack[2] < query_stack[1]
    BY <1>2, <2>1 DEF Stacked, Decreasing
  <2>3. QED
    BY <1>2, <1>3, <2>1, <2>2 DEF Listed
<1>8. QED
  BY <1>1, <1>3, <1>4, <1>5, <1>6, <1>7

LEMMA BranchScopeAdded ==
  ASSUME Kinded, Parented, branch_state = "EXPECT_ELSE" => scope # NULL
  PROVE  BranchScopes \in Seq(Scopes) /\ Len(BranchScopes) = Len(scopes) + 1 /\ Rooted(BranchScopes)
<1>1. scopes \in Seq(Scopes) /\ scope \in Nat /\ scope <= Len(scopes) /\ Rooted(scopes) /\ Len(scopes) \in Nat
  BY LenProperties DEF Kinded, Parented
<1>2. CASE branch_state = "EXPECT_ELSE"
  <2>1. scope \in 1 .. Len(scopes) /\ scopes[scope] \in Scopes
    BY <1>1, <1>2, ElementOfSeq DEF NULL
  <2>2. scopes[scope].parent \in Nat /\ scopes[scope].parent < scope
    BY <1>1, <2>1 DEF Rooted, Scopes
  <2>3. scopes[scope].parent <= Len(scopes)
    BY <1>1, <2>2
  <2>4. QED
    BY <1>1, <1>2, <2>2, <2>3, ScopeAdded DEF BranchScopes
<1>3. CASE branch_state # "EXPECT_ELSE"
  BY <1>1, <1>3, ScopeAdded DEF BranchScopes
<1>4. QED
  BY <1>2, <1>3

(* What a statement that begins leaves behind, if the program survives it. *)
Opens(op) ==
  /\ query_vec' \in Seq(Queries) /\ Len(query_vec') = Len(query_vec)
  /\ AllInRange(query_vec', Len(scopes'))
  /\ AllOnward(query_vec) /\ op # "while" => AllOnward(query_vec')
  /\ query_vec'[Query].op = op
  /\ \A k \in 1 .. Len(query_vec) : k # Query => query_vec'[k].op = query_vec[k].op
  /\ scopes' \in Seq(Scopes) /\ Rooted(scopes') /\ scope' \in Nat /\ scope' <= Len(scopes')
  /\ branch_state' \in {branch_state, "EXPECT_EXPR"}

LEMMA FirstOpens ==
  ASSUME Kinded, Indexed, Parented, Listed, Stacked, Leaf, branch_state # "EXPECT_ELSE",
         NEW op \in {"simple", "if", "while"}, NEW else \in BOOLEAN, InitFirst(op, else)
  PROVE  Opens(op)
<1>1. /\ query_vec \in Seq(Queries) /\ scopes \in Seq(Scopes) /\ scope \in Nat /\ Len(scopes) \in Nat
      /\ scope <= Len(scopes) /\ Rooted(scopes) /\ AllInRange(query_vec, Len(scopes))
  BY LenProperties DEF Kinded, Parented, Indexed
<1>2. Query \in 1 .. Len(query_vec)
  BY AtQuery
<1>3. CASE op = "simple"
  <2>1. scopes' = scopes /\ scope' = scope /\ branch_state' = branch_state
    BY <1>3 DEF InitFirst
  <2>2. query_vec' = [query_vec EXCEPT ![Query] =
                        [@ EXCEPT !.op = op, !.expect_else = else, !.scope = 0]]
    BY <1>3 DEF InitFirst, Constructed, NULL
  <2>3. OpenedAt(query_vec, query_vec', Query, op, Len(scopes))
    BY <1>1, <1>2, <1>3, <2>2, Opened
  <2>4. QED
    BY <1>1, <2>1, <2>3 DEF Opens, OpenedAt
<1>4. CASE op # "simple"
  <2>1. scopes' = BranchScopes /\ scope' = Len(scopes') /\ branch_state' = "EXPECT_EXPR"
    BY <1>4 DEF InitFirst
  <2>2. scopes' \in Seq(Scopes) /\ Len(scopes') = Len(scopes) + 1 /\ Rooted(scopes')
    BY <2>1, BranchScopeAdded
  <2>3. query_vec' = [query_vec EXCEPT ![Query] =
                        [@ EXCEPT !.op = op, !.expect_else = else, !.scope = Len(scopes) + 1]]
    BY <1>4 DEF InitFirst, Constructed
  <2>4. AllInRange(query_vec, Len(scopes) + 1)
    BY <1>1, MoreScopes
  <2>5. Len(scopes) + 1 \in Nat /\ Len(scopes) + 1 \in 1 .. Len(scopes) + 1
    BY <1>1
  <2>6. OpenedAt(query_vec, query_vec', Query, op, Len(scopes) + 1)
    BY <1>1, <1>2, <2>3, <2>4, <2>5, Opened
  <2>7. scope' \in Nat /\ scope' <= Len(scopes')
    BY <2>1, <2>2, <2>5
  <2>8. QED
    BY <2>1, <2>2, <2>6, <2>7 DEF Opens, OpenedAt
<1>5. QED
  BY <1>3, <1>4

LEMMA ElseOpens ==
  ASSUME Kinded, Indexed, Parented, Listed, Stacked, Leaf, branch_state = "EXPECT_ELSE",
         Len(query_stack) > 1, ~AssertFails,
         NEW op \in {"simple", "if", "while"}, NEW else \in BOOLEAN,
         op # "simple" => scope # NULL, InitElse(op, else)
  PROVE  Opens(op)
<1> DEFINE branch == query_stack[2]
           before == IF op = "simple" THEN scopes ELSE BranchScopes
           outer  == scopes[query_vec[branch].scope].parent
           m      == Len(scopes')
           s      == IF op = "simple" THEN NULL ELSE Len(scopes) + 1
           C      == Constructed(op, else)
           D      == [C EXCEPT ![branch].false_idx = Query]
           if     == op = "if"
<1>1. /\ query_vec \in Seq(Queries) /\ scopes \in Seq(Scopes) /\ Len(scopes) \in Nat
      /\ Len(query_vec) \in Nat /\ Rooted(scopes) /\ AllInRange(query_vec, Len(scopes))
  BY LenProperties DEF Kinded, Parented, Indexed
<1>2. /\ Query \in 1 .. Len(query_vec) /\ branch \in 1 .. Len(query_vec) /\ branch < Query
      /\ Query \in Nat /\ branch \in Nat /\ Query <= Len(query_vec) + 1
  BY <1>1, AtQuery
<1>3. /\ query_vec' = [D EXCEPT ![Query].is_elseif = if] /\ if \in BOOLEAN
      /\ scopes' = (IF op = "if" THEN before ELSE Append(before, NewScope(outer)))
      /\ scope' = Len(scopes') /\ branch_state' \in {branch_state, "EXPECT_EXPR"}
  BY DEF InitElse
<1>4. outer \in Nat /\ outer < Len(scopes)
  <2>1. query_vec[branch].op = "if" /\ InRange(query_vec[branch], branch, Len(query_vec), Len(scopes))
    BY <1>1, <1>2 DEF AssertFails, AllInRange
  <2>2. query_vec[branch].scope \in 1 .. Len(scopes)
    BY <2>1 DEF InRange
  <2>3. scopes[query_vec[branch].scope] \in Scopes
    BY <1>1, <2>2, ElementOfSeq
  <2>4. outer \in Nat /\ outer < query_vec[branch].scope
    BY <1>1, <2>2, <2>3 DEF Rooted, Scopes
  <2>5. QED
    BY <1>1, <2>2, <2>4
<1> HIDE DEF outer
<1>5. before \in Seq(Scopes) /\ Rooted(before) /\ Len(before) \in Nat
      /\ (IF op = "simple" THEN Len(before) = Len(scopes) ELSE Len(before) = Len(scopes) + 1)
  <2>1. CASE op = "simple"
    BY <1>1, <2>1
  <2>2. CASE op # "simple"
    BY <1>1, <2>2, BranchScopeAdded
  <2>3. QED
    BY <2>1, <2>2
<1> HIDE DEF before
<1>6. /\ scopes' \in Seq(Scopes) /\ Rooted(scopes') /\ m \in Nat /\ Len(scopes) <= m
      /\ op # "simple" => Len(scopes) + 1 \in 1 .. m
  <2>1. CASE op = "if"
    BY <1>1, <1>3, <1>5, <2>1
  <2>2. CASE op # "if"
    <3>1. outer <= Len(before)
      BY <1>1, <1>4, <1>5
    <3>2. scopes' \in Seq(Scopes) /\ Len(scopes') = Len(before) + 1 /\ Rooted(scopes')
      BY <1>3, <1>4, <1>5, <2>2, <3>1, ScopeAdded
    <3>3. QED
      BY <1>1, <1>5, <3>2
  <2>3. QED
    BY <2>1, <2>2
<1> HIDE DEF m
<1>7. AllInRange(query_vec, m)
  BY <1>1, <1>6, MoreScopes
<1>8. s \in Nat /\ (op # "simple" => s \in 1 .. m)
  BY <1>1, <1>6 DEF NULL
<1>9. C = [query_vec EXCEPT ![Query] = [@ EXCEPT !.op = op, !.expect_else = else, !.scope = s]]
  BY DEF Constructed
<1>c. D = [C EXCEPT ![branch].false_idx = Query]
  OBVIOUS
<1> HIDE DEF C, D, s, branch, if
<1>10. OpenedAt(query_vec, C, Query, op, m)
  BY <1>1, <1>2, <1>6, <1>7, <1>8, <1>9, Opened
<1>11. C \in Seq(Queries) /\ AllInRange(C, m) /\ Len(C) = Len(query_vec)
  BY <1>10 DEF OpenedAt
<1>12. Keeps(C, D, m) /\ (AllOnward(C) => AllOnward(D))
  <2>1. Ahead(branch, Query) /\ Query <= Len(C) + 1
    BY <1>2, <1>11 DEF Ahead
  <2>2. /\ Keeps(C, [C EXCEPT ![branch].false_idx = Query], m)
        /\ AllOnward(C) /\ Ahead(branch, Query) => AllOnward([C EXCEPT ![branch].false_idx = Query])
    BY <1>2, <1>6, <1>11, <2>1, FalseSet
  <2>3. QED
    BY <1>c, <2>1, <2>2
<1>13. D \in Seq(Queries) /\ AllInRange(D, m)
  BY <1>12 DEF Keeps
<1>14. Keeps(D, query_vec', m) /\ (AllOnward(D) => AllOnward(query_vec'))
  <2>1. /\ Keeps(D, [D EXCEPT ![Query].is_elseif = if], m)
        /\ AllOnward(D) => AllOnward([D EXCEPT ![Query].is_elseif = if])
    BY <1>2, <1>3, <1>6, <1>13, ElseIfSet
  <2>2. QED
    BY <1>3, <2>1
<1>15. OpenedAt(query_vec, query_vec', Query, op, m)
  BY <1>2, <1>10, <1>12, <1>14 DEF OpenedAt, Keeps, SameOps
<1>16. QED
  BY <1>3, <1>6, <1>15 DEF OpenedAt, Opens, m

LEMMA StatementOpens ==
  ASSUME Kinded, Indexed, Parented, Listed, Stacked, Waiting, Leaf, ElseActive,
         NEW op \in {"simple", "if", "while"}, NEW else \in BOOLEAN, InitOp(op, else)
  PROVE  \/ Crash
         \/ Opens(op) /\ UNCHANGED <<phase, query_stack, flags, query_idx, took>>
<1>1. SUFFICES ASSUME ~Crash
               PROVE  Opens(op) /\ UNCHANGED <<phase, query_stack, flags, query_idx, took>>
  OBVIOUS
<1>2. /\ ~AssertFails
      /\ op # "simple" /\ branch_state = "EXPECT_ELSE" => scope # NULL
      /\ IF branch_state = "EXPECT_ELSE" THEN InitElse(op, else) ELSE InitFirst(op, else)
      /\ UNCHANGED <<phase, query_stack, flags, query_idx, took>>
  BY <1>1 DEF InitOp
<1>3. CASE branch_state = "EXPECT_ELSE"
  <2>1. Len(query_stack) > 1
    BY <1>3 DEF ElseActive
  <2>2. QED
    BY <1>2, <1>3, <2>1, ElseOpens
<1>4. CASE branch_state # "EXPECT_ELSE"
  BY <1>2, <1>4, FirstOpens
<1>5. QED
  BY <1>2, <1>3, <1>4

-----------------------------------------------------------------------------
(* Each step keeps the invariant. *)

LEMMA ScriptGrows ==
  ASSUME script \in Seq(Lines), NEW l \in Lines, script' = Append(script, l)
  PROVE  /\ script' \in Seq(Lines) /\ Len(script') = Len(script) + 1
         /\ NoLoop' => NoLoop /\ l.kind # "while"
<1>1. /\ script' \in Seq(Lines) /\ Len(script') = Len(script) + 1 /\ script'[Len(script) + 1] = l
      /\ \A k \in 1 .. Len(script) : script'[k] = script[k]
      /\ Len(script) \in Nat
  BY AppendProperties, LenProperties
<1>2. DOMAIN script = 1 .. Len(script) /\ DOMAIN script' = 1 .. Len(script) + 1
  BY <1>1, LenProperties
<1>3. Len(script) + 1 \in 1 .. Len(script) + 1
      /\ \A k \in 1 .. Len(script) : k \in 1 .. Len(script) + 1
  BY <1>1
<1>4. QED
  BY <1>1, <1>2, <1>3 DEF NoLoop

LEMMA CrashKeeps ==
  ASSUME ScriptInv, Crash, walk' \in Seq(Frames), script' \in Seq(Lines), NoLoop' => NoLoop
  PROVE  ScriptInv'
<1>1. /\ UNCHANGED <<query_vec, query_stack, scopes, scope, branch_state, entering, exiting, query_idx>>
      /\ phase' = "crashed"
  BY DEF Crash, layout, flags
<1>2. Kinded'
  BY <1>1 DEF ScriptInv, Kinded
<1>3. Indexed' /\ Forward' /\ Parented' /\ Listed'
  BY <1>1 DEF ScriptInv, Indexed, Forward, Parented, Listed
<1>4. Parsing' /\ Running'
  BY <1>1 DEF ScriptInv, Parsing, Running
<1>5. QED
  BY <1>2, <1>3, <1>4 DEF ScriptInv

LEMMA WhileParsing ==
  ASSUME ScriptInv, phase = "parse"
  PROVE  /\ walk \in Seq(Frames) /\ Proper(walk) /\ Inner \in Frames /\ Len(walk) \in Nat \ {0}
         /\ Inner.kind # "script" => Len(walk) > 1
         /\ InBranch(Inner) => Inner.of \in Branches(walk)
         /\ Climbing(walk) /\ Active(walk, query_vec) /\ Stacked /\ Numbered /\ ElseActive
         /\ Len(walk) > 1 \/ walk[1].seen > 0 => query_vec # << >>
         /\ query_idx = 1
         /\ entering => Inner.kind = "block" /\ Inner.seen = 0
         /\ exiting => Inner.kind = "clause" /\ Inner.seen > 0
         /\ script \in Seq(Lines) /\ query_vec \in Seq(Queries) /\ query_stack \in Seq(Nat)
         /\ scopes \in Seq(Scopes) /\ scope \in Nat /\ entering \in BOOLEAN /\ exiting \in BOOLEAN
         /\ Len(query_vec) \in Nat /\ Len(script) \in Nat /\ Len(query_stack) \in Nat /\ Len(scopes) \in Nat
         /\ AllInRange(query_vec, Len(scopes))
<1>1. /\ Kinded /\ Nested /\ Climbing(walk) /\ Active(walk, query_vec) /\ Stacked /\ Numbered
      /\ ElseActive /\ Begun /\ query_idx = 1 /\ Indexed
  BY DEF ScriptInv, Parsing
<1>2. /\ walk \in Seq(Frames) /\ script \in Seq(Lines) /\ query_vec \in Seq(Queries)
      /\ query_stack \in Seq(Nat) /\ scopes \in Seq(Scopes) /\ scope \in Nat
      /\ entering \in BOOLEAN /\ exiting \in BOOLEAN
  BY <1>1 DEF Kinded
<1>3. Len(query_vec) \in Nat /\ Len(script) \in Nat /\ Len(query_stack) \in Nat /\ Len(scopes) \in Nat
  BY <1>2, LenProperties
<1>4. /\ Inner \in Frames /\ Len(walk) \in Nat \ {0}
      /\ Inner.kind # "script" => Len(walk) > 1
      /\ InBranch(Inner) => Inner.of \in Branches(walk)
  BY <1>1, <1>2, Innermost DEF Inner, Nested
<1>5. QED
  BY <1>1, <1>2, <1>3, <1>4 DEF Nested, Begun, Indexed

LEMMA EnterSqlKeeps ==
  ASSUME ScriptInv, EnterSql
  PROVE  ScriptInv'
<1> DEFINE f == Frame("clause", Inner.of, ArmOf(Inner), Inner.blocks)
<1>1. /\ phase = "parse" /\ phase' = "parse" /\ Inner.kind # "clause" /\ walk' = Append(walk, f)
      /\ entering' = FALSE
      /\ UNCHANGED <<script, scopes, scope, branch_state, exiting, query_idx>>
      /\ IF entering THEN UNCHANGED <<query_vec, query_stack>>
         ELSE /\ query_vec' = Append(query_vec, NewQuery(Size))
              /\ query_stack' = <<Size>> \o query_stack
  BY DEF EnterSql, Accepts, Enter
<1>2. walk \in Seq(Frames) /\ walk # << >> /\ Proper(walk) /\ Inner \in Frames /\ Len(walk) \in Nat \ {0}
  BY <1>1, WhileParsing DEF Proper
<1>3. f \in Frames /\ f.kind = "clause" /\ f.seen = 0
  <2>1. ArmOf(Inner) \in {"script", "then", "else", "body"}
    BY <1>2 DEF ArmOf, Frames
  <2>2. QED
    BY <1>2, <2>1 DEF Frame, Frames
<1> HIDE DEF f
<1>4. ~InBranch(f)
  BY <1>3 DEF InBranch
<1>5. /\ walk' \in Seq(Frames) /\ Inner' = f /\ Len(walk') = Len(walk) + 1
      /\ Branches(walk') = Branches(walk) /\ Proper(walk') /\ Climbing(walk')
      /\ \A v : Active(walk, v) => Active(walk', v)
  <2>1. Inner.kind = Last(walk).kind /\ Climbing(walk)
    BY <1>1, WhileParsing DEF Inner
  <2>2. QED
    BY <1>1, <1>2, <1>3, <1>4, <2>1, Grown DEF Inner
<1>6. ~exiting /\ ~exiting'
  BY <1>1, WhileParsing
<1>7. Waiting' /\ Leaf'
  BY <1>3, <1>5, <1>6 DEF Waiting, Leaf
<1>8. NoLoop' <=> NoLoop
  BY <1>1 DEF NoLoop
<1>9. Nested'
  BY <1>1, <1>5, <1>6 DEF Nested
<1>10. Parented'
  BY <1>1 DEF ScriptInv, Parented
<1>11. CASE entering
  <2>1. query_vec' = query_vec /\ query_stack' = query_stack
    BY <1>1, <1>11
  <2>2. Waiting /\ Leaf
    BY <1>11 DEF Waiting, Leaf
  <2>3. Kinded'
    BY <1>1, <1>5, <2>1 DEF ScriptInv, Kinded
  <2>4. Indexed' /\ Forward' /\ Listed'
    BY <1>1, <1>8, <2>1 DEF ScriptInv, Indexed, Forward, Listed
  <2>5. Active(walk', query_vec')
    BY <1>1, <1>5, <2>1, WhileParsing
  <2>6. Stacked'
    BY <1>1, <1>5, <1>7, <2>1, <2>2, WhileParsing DEF Stacked, Below
  <2>7. Numbered'
    BY <1>1, <1>7, <2>1, <2>2, WhileParsing DEF Numbered
  <2>8. ElseActive'
    BY <1>1, <2>1, <2>2, WhileParsing DEF ElseActive
  <2>9. query_vec' # << >>
    <3>1. Len(query_vec) = Len(script) + 1 /\ Len(script) \in Nat
      BY <1>1, <2>2, WhileParsing DEF Numbered
    <3>2. QED
      BY <2>1, <3>1, EmptySeq
  <2>10. Parsing' /\ Running'
    BY <1>1, <1>5, <1>9, <2>1, <2>5, <2>6, <2>7, <2>8, <2>9, WhileParsing
    DEF Parsing, Running, Begun, ScriptInv
  <2>11. QED
    BY <1>10, <2>3, <2>4, <2>10 DEF ScriptInv
<1>12. CASE ~entering
  <2>1. query_vec' = Append(query_vec, NewQuery(Size)) /\ query_stack' = <<Size>> \o query_stack
    BY <1>1, <1>12
  <2>2. ~Waiting /\ ~Leaf
    BY <1>1, <1>12 DEF Waiting, Leaf
  <2>3. Size = Len(query_vec) + 1 /\ Size \in Nat /\ Len(query_vec) \in Nat /\ Len(query_stack) \in Nat
        /\ Len(scopes) \in Nat
    BY <1>1, WhileParsing DEF Size
  <2>4. /\ query_vec' \in Seq(Queries) /\ AllInRange(query_vec', Len(scopes))
        /\ Len(query_vec') = Size
        /\ \A k \in 1 .. Len(query_vec) : query_vec'[k] = query_vec[k]
        /\ AllOnward(query_vec) => AllOnward(query_vec')
    BY <1>1, <2>1, <2>3, QueryAdded, WhileParsing
  <2>5. \A x \in Members(query_stack) : x < Size
    <3>1. \A k \in 1 .. Len(query_stack) : query_stack[k] < Size
      BY <2>3 DEF ScriptInv, Listed
    <3>2. QED
      BY <3>1 DEF Members
  <2>6. /\ query_stack' \in Seq(Nat) /\ query_stack' # << >> /\ Len(query_stack') = Len(query_stack) + 1
        /\ Head(query_stack') = Size /\ Tail(query_stack') = query_stack /\ Decreasing(query_stack')
        /\ \A k \in 1 .. Len(query_stack) + 1 :
             query_stack'[k] = IF k <= 1 THEN Size ELSE query_stack[k - 1]
    BY <1>1, <2>1, <2>3, <2>5, Pushed, WhileParsing DEF Stacked
  <2>7. Kinded'
    BY <1>1, <1>5, <2>4, <2>6 DEF ScriptInv, Kinded
  <2>8. Indexed' /\ Forward'
    BY <1>1, <1>8, <2>4 DEF ScriptInv, Indexed, Forward
  <2>9. Listed'
    <3>1. ASSUME NEW k \in 1 .. Len(query_stack) + 1 PROVE query_stack'[k] \in 1 .. Size
      <4>1. CASE k <= 1
        BY <2>3, <2>6, <4>1
      <4>2. CASE ~(k <= 1)
        <5>1. k - 1 \in 1 .. Len(query_stack) /\ query_stack'[k] = query_stack[k - 1]
          BY <2>3, <2>6, <4>2
        <5>2. query_stack[k - 1] \in 1 .. Len(query_vec)
          BY <5>1 DEF ScriptInv, Listed
        <5>3. QED
          BY <2>3, <5>1, <5>2
      <4>3. QED
        BY <4>1, <4>2
    <3>2. QED
      BY <2>4, <2>6, <3>1 DEF Listed
  <2>10. Active(walk', query_vec')
    <3>1. Len(query_vec) <= Len(query_vec')
      BY <2>3, <2>4
    <3>2. Active(walk, query_vec')
      BY <1>1, <2>4, <3>1, StillActive, WhileParsing
    <3>3. QED
      BY <1>5, <3>2
  <2>11. Stacked'
    <3>1. Members(query_stack) = Branches(walk)
      BY <1>1, <2>2, WhileParsing DEF Stacked, Below
    <3>2. QED
      BY <1>5, <1>7, <2>6, <3>1 DEF Stacked, Below
  <2>12. Numbered'
    <3>1. Len(script) = Len(query_vec)
      BY <1>1, <2>2, WhileParsing DEF Numbered
    <3>2. QED
      BY <1>1, <1>7, <2>3, <2>4, <2>6, <3>1 DEF Numbered
  <2>13. ElseActive'
    <3>1. branch_state = "EXPECT_ELSE" => Len(query_stack) > 0
      BY <1>1, <2>3, EmptySeq, WhileParsing DEF ElseActive
    <3>2. branch_state = "EXPECT_ELSE" => Len(query_stack') > 1
      BY <2>3, <2>6, <3>1
    <3>3. QED
      BY <1>1, <2>6, <3>2 DEF ElseActive
  <2>14. query_vec' # << >>
    BY <2>3, <2>4, EmptySeq
  <2>15. query_idx' = 1 /\ query_idx' \in 1 .. Len(query_vec') + 1
    BY <1>1, <2>3, <2>4, WhileParsing
  <2>16. Parsing' /\ Running'
    BY <1>1, <1>5, <1>9, <2>10, <2>11, <2>12, <2>13, <2>14, <2>15 DEF Parsing, Running, Begun
  <2>17. QED
    BY <1>10, <2>7, <2>8, <2>9, <2>16 DEF ScriptInv
<1>13. QED
  BY <1>11, <1>12

LEMMA Left ==
  ASSUME ScriptInv, phase = "parse", Inner.kind # "script", Leave
  PROVE  /\ walk' \in Seq(Frames) /\ Proper(walk') /\ Climbing(walk')
         /\ Inner'.seen > 0
         /\ Inner'.kind = "clause" <=> Inner.kind # "clause"
         /\ Branches(walk) = Branches(walk') \cup (IF InBranch(Inner) THEN {Inner.of} ELSE {})
         /\ InBranch(Inner) => \A x \in Branches(walk') : x < Inner.of
         /\ \A v : Active(walk, v) => Active(walk', v)
         /\ query_vec # << >> /\ Len(query_vec) > 0
<1>1. /\ walk \in Seq(Frames) /\ Proper(walk) /\ Climbing(walk) /\ Len(walk) \in Nat /\ Len(walk) > 1
      /\ query_vec # << >> /\ Len(query_vec) > 0
  BY WhileParsing, EmptySeq
<1>2. Inner = Last(walk) /\ Inner' = Last(walk') /\ Inner = walk[Len(walk)]
  BY DEF Inner, Last
<1>3. /\ walk' \in Seq(Frames) /\ Proper(walk')
      /\ Inner'.kind = walk[Len(walk) - 1].kind /\ Inner'.seen > 0
      /\ Branches(walk) = Branches(walk') \cup (IF InBranch(Inner) THEN {Inner.of} ELSE {})
      /\ Climbing(walk) => /\ Climbing(walk')
                           /\ InBranch(Inner) => \A x \in Branches(walk') : x < Inner.of
      /\ \A v : Active(walk, v) => Active(walk', v)
  <2>1. LeftAs(walk, LET out == Front(walk) IN [out EXCEPT ![Len(out)].seen = @ + 1])
    BY <1>1, Shrunk
  <2>2. LeftAs(walk, walk')
    BY <2>1 DEF Leave
  <2>3. QED
    BY <1>2, <2>2 DEF LeftAs
<1>4. Inner'.kind = "clause" <=> Inner.kind # "clause"
  <2>1. Len(walk) \in 2 .. Len(walk)
    BY <1>1
  <2>2. QED
    BY <1>1, <1>2, <1>3, <2>1 DEF Proper
<1>5. QED
  BY <1>1, <1>3, <1>4

LEMMA LinkedKeeps ==
  ASSUME Kinded, Indexed, NEW prev \in 1 .. Len(query_vec)
  PROVE  /\ Keeps(query_vec, Linked(prev), Len(scopes))
         /\ AllOnward(query_vec) => AllOnward(Linked(prev))
<1> DEFINE q == query_vec[prev]
<1>1. /\ query_vec \in Seq(Queries) /\ AllInRange(query_vec, Len(scopes)) /\ Len(scopes) \in Nat
      /\ Len(query_vec) \in Nat /\ Size = Len(query_vec) + 1 /\ Size \in Nat /\ Size <= Len(query_vec) + 1
      /\ prev \in Nat /\ prev <= Len(query_vec) + 1
  BY LenProperties DEF Kinded, Indexed, Size
<1>2. q \in Queries /\ InRange(q, prev, Len(query_vec), Len(scopes))
  BY <1>1, ElementOfSeq DEF AllInRange
<1>3. q.last_true \in Nat
  BY <1>2 DEF Queries
<1>4. q.last_true < Size
  BY <1>1, <1>2, <1>3 DEF InRange, NULL
<1>5. AllOnward(query_vec) => q.op # "while"
  BY DEF AllOnward, Onward
<1> HIDE DEF q
<1>6. CASE q.op = "if"
  <2>1. Linked(prev) = [query_vec EXCEPT ![q.last_true].next_idx = Size]
    BY <1>6 DEF Linked, q
  <2>2. Ahead(q.last_true, Size)
    BY <1>4 DEF Ahead
  <2>3. /\ Keeps(query_vec, [query_vec EXCEPT ![q.last_true].next_idx = Size], Len(scopes))
        /\ AllOnward(query_vec) /\ Ahead(q.last_true, Size)
             => AllOnward([query_vec EXCEPT ![q.last_true].next_idx = Size])
    BY <1>1, <1>3, NextSet
  <2>4. QED
    BY <2>1, <2>2, <2>3
<1>7. CASE q.op = "while"
  <2>1. Linked(prev) = [query_vec EXCEPT ![q.last_true].next_idx = prev]
    BY <1>7 DEF Linked, q
  <2>2. Keeps(query_vec, [query_vec EXCEPT ![q.last_true].next_idx = prev], Len(scopes))
    BY <1>1, <1>3, NextSet
  <2>3. QED
    BY <1>5, <1>7, <2>1, <2>2
<1>8. CASE q.op \notin {"if", "while"}
  <2>1. Linked(prev) = query_vec
    BY <1>8 DEF Linked, q
  <2>2. QED
    BY <1>1, <2>1 DEF Keeps, SameOps
<1>9. QED
  BY <1>6, <1>7, <1>8

LEMMA FollowKeeps ==
  ASSUME Kinded, Indexed, NEW prev \in 1 .. Len(query_vec), NEW self \in Nat, self < prev,
         Follow(self, prev)
  PROVE  /\ Keeps(query_vec, query_vec', Len(scopes))
         /\ AllOnward(query_vec) => AllOnward(query_vec')
         /\ branch_state' \in {"NO_BRANCH", "EXPECT_ELSE", "EXPECT_EXIT", branch_state}
         /\ branch_state' = "EXPECT_ELSE" => self # NULL
<1> DEFINE linked == Linked(prev)
           kept   == IF IsLastTrue(prev) THEN [linked EXCEPT ![self].last_true = prev] ELSE linked
           exit   == [kept EXCEPT ![self].false_idx = Size]
           m      == Len(scopes)
<1>1. /\ Len(scopes) \in Nat /\ Len(query_vec) \in Nat /\ Size = Len(query_vec) + 1 /\ Size \in Nat
      /\ prev \in Nat /\ prev <= Len(query_vec) /\ self < Size
  BY LenProperties DEF Kinded, Size
<1>2. /\ query_vec' \in {linked, kept, exit}
      /\ branch_state' \in {"NO_BRANCH", "EXPECT_ELSE", "EXPECT_EXIT", branch_state}
      /\ branch_state' = "EXPECT_ELSE" => self # NULL
  BY DEF Follow
<1>3. Keeps(query_vec, linked, m) /\ (AllOnward(query_vec) => AllOnward(linked))
  BY LinkedKeeps
<1> HIDE DEF linked
<1>4. linked \in Seq(Queries) /\ AllInRange(linked, m) /\ Len(linked) = Len(query_vec)
  BY <1>3 DEF Keeps, SameOps
<1>5. Keeps(linked, kept, m) /\ (AllOnward(linked) => AllOnward(kept))
  <2>1. CASE IsLastTrue(prev)
    BY <1>1, <1>4, <2>1, LastSet
  <2>2. CASE ~IsLastTrue(prev)
    BY <1>4, <2>2 DEF Keeps, SameOps
  <2>3. QED
    BY <2>1, <2>2
<1> HIDE DEF kept
<1>6. kept \in Seq(Queries) /\ AllInRange(kept, m) /\ Len(kept) = Len(query_vec)
  BY <1>4, <1>5 DEF Keeps, SameOps
<1>7. Keeps(kept, exit, m) /\ (AllOnward(kept) => AllOnward(exit))
  <2>1. Size <= Len(kept) + 1
    BY <1>1, <1>6
  <2>2. QED
    BY <1>1, <1>6, <2>1, FalseSet DEF Ahead
<1> HIDE DEF exit
<1>8. Keeps(query_vec, kept, m) /\ Keeps(query_vec, exit, m)
  BY <1>3, <1>5, <1>7 DEF Keeps, SameOps
<1>9. QED
  BY <1>2, <1>3, <1>5, <1>7, <1>8

LEMMA ExitSqlKeeps ==
  ASSUME ScriptInv, ExitSql
  PROVE  ScriptInv'
<1>1. /\ phase = "parse" /\ Inner.kind = "clause" /\ Inner.seen = 1 /\ Leave /\ script' = script
  BY DEF ExitSql
<1>2. ~InBranch(Inner) /\ ~entering /\ ~Waiting
  BY <1>1, WhileParsing DEF InBranch, Waiting
<1>3. /\ walk' \in Seq(Frames) /\ Proper(walk') /\ Climbing(walk') /\ Inner'.kind # "clause"
      /\ Inner'.seen > 0 /\ Branches(walk') = Branches(walk)
      /\ \A v : Active(walk, v) => Active(walk', v)
      /\ query_vec # << >> /\ Len(query_vec) > 0
  BY <1>1, <1>2, Left
<1>4. NoLoop' <=> NoLoop
  BY <1>1 DEF NoLoop
<1>5. Numbered => Len(script) = Len(query_vec)
  BY <1>2 DEF Numbered
<1>6. CASE exiting
  <2>1. /\ exiting' = FALSE /\ entering' = entering /\ phase' = phase /\ query_idx' = query_idx
        /\ UNCHANGED <<query_vec, query_stack, scopes, scope, branch_state>>
    BY <1>1, <1>6 DEF ExitSql, layout
  <2>2. ~Leaf /\ ~Leaf' /\ ~Waiting'
    BY <1>2, <1>3, <1>6, <2>1 DEF Leaf, Waiting
  <2>3. Kinded'
    BY <1>1, <1>3, <2>1 DEF ScriptInv, Kinded
  <2>4. Indexed' /\ Forward' /\ Parented' /\ Listed'
    BY <1>4, <2>1 DEF ScriptInv, Indexed, Forward, Parented, Listed
  <2>5. Nested'
    BY <1>2, <1>3, <2>1 DEF Nested
  <2>6. Stacked'
    BY <1>1, <1>3, <2>1, <2>2, WhileParsing DEF Stacked, Below
  <2>7. Numbered' /\ ElseActive'
    BY <1>1, <1>5, <2>1, <2>2, WhileParsing DEF Numbered, ElseActive
  <2>8. Parsing' /\ Running'
    BY <1>1, <1>3, <2>1, <2>5, <2>6, <2>7, WhileParsing DEF Parsing, Running, Begun, ScriptInv
  <2>9. QED
    BY <2>3, <2>4, <2>8 DEF ScriptInv
<1>7. CASE ~exiting /\ FollowsNull
  <2>1. Crash
    BY <1>1, <1>7 DEF ExitSql
  <2>2. QED
    BY <1>1, <1>3, <1>4, <2>1, CrashKeeps, WhileParsing
<1>8. CASE ~exiting /\ ~FollowsNull
  <2> DEFINE self == IF Len(query_stack) = 1 THEN NULL ELSE query_stack[2]
  <2>1. /\ query_stack' = Tail(query_stack) /\ Follow(self, Query)
        /\ UNCHANGED <<scopes, scope, phase, entering, exiting, query_idx>>
    BY <1>1, <1>8 DEF ExitSql, flags
  <2>2. Leaf /\ ~Leaf' /\ ~Waiting'
    BY <1>1, <1>2, <1>3, <1>8, <2>1 DEF Leaf, Waiting
  <2>3. Kinded /\ Indexed /\ Listed /\ Stacked
    BY <1>1, WhileParsing DEF ScriptInv
  <2>4. /\ query_stack \in Seq(Nat) /\ query_stack # << >>
        /\ Query \in 1 .. Len(query_vec) /\ Members(Tail(query_stack)) = Branches(walk)
        /\ Len(query_stack) > 1 => query_stack[2] \in 1 .. Len(query_vec) /\ query_stack[2] < Query
    BY <2>2, <2>3, AtQuery
  <2>5. Len(query_stack) \in Nat \ {0} /\ Len(query_vec) \in Nat /\ (Len(query_stack) # 1 => Len(query_stack) > 1)
    <3>1. Len(query_stack) \in Nat /\ Len(query_vec) \in Nat
      BY <1>1, WhileParsing
    <3>2. Len(query_stack) # 0
      BY <2>4, EmptySeq
    <3>3. \A n \in Nat : n # 0 => n \in Nat \ {0} /\ (n # 1 => n > 1)
      OBVIOUS
    <3>4. QED
      BY <3>1, <3>2, <3>3
  <2>6. self \in Nat /\ self < Query /\ (self # NULL => Len(query_stack) > 1)
    BY <2>4, <2>5 DEF NULL
  <2> HIDE DEF self
  <2>7. /\ Keeps(query_vec, query_vec', Len(scopes))
        /\ AllOnward(query_vec) => AllOnward(query_vec')
        /\ branch_state' \in {"NO_BRANCH", "EXPECT_ELSE", "EXPECT_EXIT", branch_state}
        /\ branch_state' = "EXPECT_ELSE" => self # NULL
    BY <2>1, <2>3, <2>4, <2>6, FollowKeeps
  <2>8. /\ query_stack' \in Seq(Nat) /\ Len(query_stack') = Len(query_stack) - 1
        /\ \A k \in 1 .. Len(query_stack') : query_stack'[k] = query_stack[k + 1]
        /\ Decreasing(query_stack')
    BY <2>1, <2>3, <2>4, MembersOf DEF Stacked
  <2>9. query_vec' \in Seq(Queries) /\ AllInRange(query_vec', Len(scopes))
        /\ Len(query_vec') = Len(query_vec) /\ SameOps(query_vec, query_vec')
    BY <2>7 DEF Keeps, SameOps
  <2>10. Kinded'
    BY <1>1, <1>3, <2>1, <2>7, <2>8, <2>9 DEF ScriptInv, Kinded
  <2>11. Indexed' /\ Forward' /\ Parented'
    BY <1>4, <2>1, <2>7, <2>9 DEF ScriptInv, Indexed, Forward, Parented
  <2>12. Listed'
    <3>1. \A k \in 1 .. Len(query_stack') : k + 1 \in 1 .. Len(query_stack)
      BY <2>5, <2>8
    <3>2. QED
      BY <2>3, <2>8, <2>9, <3>1 DEF Listed
  <2>13. Nested'
    BY <1>1, <1>3, <1>8, <2>1, <1>2 DEF Nested
  <2>14. Active(walk', query_vec')
    <3>1. Active(walk, query_vec) /\ query_vec \in Seq(Queries) /\ Len(query_vec) <= Len(query_vec')
      BY <1>1, <2>5, <2>9, WhileParsing
    <3>2. Active(walk, query_vec')
      BY <2>9, <3>1, StillActive DEF SameOps
    <3>3. QED
      BY <1>3, <3>2
  <2>15. Stacked'
    BY <1>3, <2>1, <2>2, <2>4, <2>8 DEF Stacked, Below
  <2>16. Numbered'
    BY <1>1, <1>5, <2>2, <2>9, WhileParsing DEF Numbered
  <2>17. ElseActive'
    <3>1. branch_state' = "EXPECT_ELSE" => Len(query_stack') > 0
      BY <2>5, <2>6, <2>7, <2>8
    <3>2. branch_state' = "EXPECT_ELSE" => query_stack' # << >>
      BY <3>1, EmptySeq
    <3>3. QED
      BY <2>2, <3>2 DEF ElseActive
  <2>18. query_vec' # << >> /\ query_idx' = 1 /\ query_idx' \in 1 .. Len(query_vec') + 1
    BY <1>1, <1>3, <2>1, <2>5, <2>9, EmptySeq, WhileParsing
  <2>19. Parsing' /\ Running'
    BY <1>1, <1>3, <2>1, <2>13, <2>14, <2>15, <2>16, <2>17, <2>18 DEF Parsing, Running, Begun
  <2>20. QED
    BY <2>10, <2>11, <2>12, <2>19 DEF ScriptInv
<1>9. QED
  BY <1>6, <1>7, <1>8

(* The line a statement adds to the script. *)
LEMMA ReadLine ==
  ASSUME ScriptInv, phase = "parse", NEW kind \in {"simple", "subquery", "if", "while", "empty"},
         Read(kind)
  PROVE  /\ script' \in Seq(Lines) /\ Len(script') = Len(script) + 1
         /\ NoLoop' => NoLoop /\ kind # "while"
<1> DEFINE l == [kind |-> kind, of |-> Inner.of, arm |-> Inner.arm, blocks |-> Inner.blocks]
<1>1. l \in Lines /\ l.kind = kind
  BY WhileParsing DEF Lines, Frames
<1>2. script \in Seq(Lines) /\ script' = Append(script, l)
  BY WhileParsing DEF Read
<1> HIDE DEF l
<1>3. QED
  BY <1>1, <1>2, ScriptGrows

LEMMA SeenKeeps ==
  ASSUME ScriptInv, AtStatement, SeenInner
  PROVE  /\ walk' \in Seq(Frames) /\ Branches(walk') = Branches(walk) /\ Proper(walk')
         /\ Climbing(walk') /\ (\A v : Active(walk, v) => Active(walk', v))
         /\ Inner'.kind = "clause" /\ Inner'.seen = 1
<1>1. phase = "parse" /\ Inner.kind = "clause" /\ Inner \in Frames
  BY WhileParsing DEF AtStatement
<1>2. walk \in Seq(Frames) /\ Proper(walk) /\ Climbing(walk)
  BY <1>1, WhileParsing
<1>3. walk' \in Seq(Frames) /\ Alike(walk, walk') /\ Last(walk') = [Last(walk) EXCEPT !.seen = 1]
  BY <1>2, Marked DEF SeenInner
<1>4. Inner'.kind = "clause" /\ Inner'.seen = 1
  BY <1>1, <1>3 DEF Inner, Frames
<1>5. QED
  BY <1>2, <1>3, <1>4, AlikeKeeps

LEMMA SubqueryKeeps ==
  ASSUME ScriptInv, Subquery
  PROVE  ScriptInv'
<1>1. AtStatement /\ SeenInner /\ Read("subquery") /\ Crash /\ phase = "parse"
  BY DEF Subquery, AtStatement
<1>2. QED
  BY <1>1, ReadLine, SeenKeeps, CrashKeeps

LEMMA SimpleKeeps ==
  ASSUME ScriptInv, Simple
  PROVE  ScriptInv'
<1>1. /\ AtStatement /\ SeenInner /\ Read("simple") /\ InitOp("simple", FALSE) /\ phase = "parse"
      /\ Inner.kind = "clause" /\ Inner.seen = 0
  BY DEF Simple, AtStatement
<1>2. /\ walk' \in Seq(Frames) /\ Branches(walk') = Branches(walk) /\ Proper(walk')
      /\ Climbing(walk') /\ (\A v : Active(walk, v) => Active(walk', v))
      /\ Inner'.kind = "clause" /\ Inner'.seen = 1
  BY <1>1, SeenKeeps
<1>3. script' \in Seq(Lines) /\ Len(script') = Len(script) + 1 /\ (NoLoop' => NoLoop)
  BY <1>1, ReadLine
<1>4. CASE Crash
  BY <1>2, <1>3, <1>4, CrashKeeps
<1>5. CASE ~Crash
  <2>1. ~exiting /\ ~entering /\ Waiting /\ Leaf
    BY <1>1, WhileParsing DEF Waiting, Leaf
  <2>2. Kinded /\ Indexed /\ Parented /\ Listed /\ Stacked /\ ElseActive
    BY <1>1, WhileParsing DEF ScriptInv
  <2>3. Opens("simple") /\ UNCHANGED <<phase, query_stack, entering, exiting, query_idx>>
    BY <1>1, <1>5, <2>1, <2>2, StatementOpens DEF flags
  <2>4. /\ query_vec' \in Seq(Queries) /\ Len(query_vec') = Len(query_vec)
        /\ AllInRange(query_vec', Len(scopes')) /\ (AllOnward(query_vec) => AllOnward(query_vec'))
        /\ \A k \in 1 .. Len(query_vec) : k # Query => query_vec'[k].op = query_vec[k].op
        /\ scopes' \in Seq(Scopes) /\ Rooted(scopes') /\ scope' \in Nat /\ scope' <= Len(scopes')
        /\ branch_state' \in {branch_state, "EXPECT_EXPR"}
    BY <2>3 DEF Opens
  <2>5. Leaf' /\ ~Waiting' /\ ~entering' /\ ~exiting'
    BY <1>2, <2>1, <2>3 DEF Leaf, Waiting
  <2>6. /\ query_stack # << >> /\ \A x \in Branches(walk) : x < Query
    BY <2>1, <2>2, AtQuery
  <2>7. Kinded'
    BY <1>2, <1>3, <2>2, <2>3, <2>4 DEF Kinded
  <2>8. Indexed' /\ Forward' /\ Parented' /\ Listed'
    BY <1>3, <2>2, <2>3, <2>4 DEF ScriptInv, Indexed, Forward, Parented, Listed
  <2>9. Nested'
    BY <1>2, <2>5 DEF Nested
  <2>10. Active(walk', query_vec')
    <3>1. /\ Active(walk, query_vec) /\ query_vec \in Seq(Queries) /\ Len(query_vec) \in Nat
          /\ Len(query_vec) <= Len(query_vec')
      BY <1>1, <2>4, WhileParsing
    <3>2. Query \in Nat
      BY <2>1, <2>2, AtQuery
    <3>3. \A k \in 1 .. Len(query_vec) : k \in Branches(walk) => k # Query
      BY <2>6, <3>1, <3>2
    <3>4. Active(walk, query_vec')
      BY <2>4, <3>1, <3>3, StillActive
    <3>5. QED
      BY <1>2, <3>4
  <2>11. Stacked'
    BY <1>2, <2>1, <2>2, <2>3, <2>5 DEF Stacked, Below
  <2>12. Numbered'
    <3>1. Len(script) + 1 = Len(query_vec)
      BY <1>1, <2>1, WhileParsing DEF Numbered
    <3>2. QED
      BY <1>3, <2>4, <2>5, <3>1 DEF Numbered
  <2>13. ElseActive'
    BY <2>3, <2>5, <2>6 DEF ElseActive
  <2>14. query_vec' # << >> /\ query_idx' = 1 /\ query_idx' \in 1 .. Len(query_vec') + 1
    <3>1. Len(script) + 1 = Len(query_vec) /\ Len(script) \in Nat /\ query_idx = 1
      BY <1>1, <2>1, WhileParsing DEF Numbered
    <3>2. QED
      BY <2>3, <2>4, <3>1, EmptySeq
  <2>15. Parsing' /\ Running'
    BY <1>1, <1>2, <2>3, <2>9, <2>10, <2>11, <2>12, <2>13, <2>14 DEF Parsing, Running, Begun
  <2>16. QED
    BY <2>7, <2>8, <2>15 DEF ScriptInv
<1>6. QED
  BY <1>4, <1>5

LEMMA BranchKeeps ==
  ASSUME ScriptInv, AtStatement, NEW kind \in {"if", "while"}, NEW else \in BOOLEAN, Read(kind),
         NEW f \in Frames, f.kind = kind, f.of = Len(script) + 1, Enter(f), InitOp(kind, else)
  PROVE  ScriptInv'
<1>1. phase = "parse" /\ Inner.kind = "clause" /\ Inner.seen = 0 /\ walk' = Append(walk, f)
  BY DEF AtStatement, Enter
<1>2. ~exiting /\ ~entering /\ Waiting /\ Leaf
  BY <1>1, WhileParsing DEF Waiting, Leaf
<1>3. Kinded /\ Indexed /\ Parented /\ Listed /\ Stacked /\ ElseActive
  BY <1>1, WhileParsing DEF ScriptInv
<1>4. /\ query_stack \in Seq(Nat) /\ query_stack # << >> /\ Query = Head(query_stack)
      /\ Query \in 1 .. Len(query_vec) /\ Members(Tail(query_stack)) = Branches(walk)
      /\ \A x \in Branches(walk) : x < Query
  BY <1>2, <1>3, AtQuery
<1>5. Len(script) + 1 = Len(query_vec) /\ Query = Len(query_vec) /\ f.of = Query
      /\ Len(script) \in Nat /\ Query \in Nat
  BY <1>1, <1>2, <1>4, WhileParsing DEF Numbered
<1>6. /\ walk \in Seq(Frames) /\ walk # << >> /\ Proper(walk) /\ Climbing(walk)
      /\ Inner = Last(walk) /\ InBranch(f) /\ f.kind # "script" /\ f.kind # "clause"
  BY <1>1, WhileParsing DEF Proper, Inner, InBranch
<1>7. /\ walk' \in Seq(Frames) /\ Inner' = f /\ Branches(walk') = Branches(walk) \cup {Query}
      /\ Proper(walk') /\ Climbing(walk')
      /\ \A v : Active(walk, v) /\ (f.of \in 1 .. Len(v) /\ v[f.of].op = f.kind) => Active(walk', v)
  <2>1. \A x \in Branches(walk) : x < f.of
    BY <1>4, <1>5
  <2>2. f.kind = "clause" <=> Last(walk).kind # "clause"
    BY <1>1, <1>6
  <2>3. QED
    BY <1>1, <1>5, <1>6, <2>1, <2>2, Grown DEF Inner
<1>8. script' \in Seq(Lines) /\ Len(script') = Len(script) + 1 /\ (NoLoop' => NoLoop /\ kind # "while")
  BY <1>1, ReadLine
<1>9. CASE Crash
  BY <1>7, <1>8, <1>9, CrashKeeps
<1>10. CASE ~Crash
  <2>1. Opens(kind) /\ UNCHANGED <<phase, query_stack, entering, exiting, query_idx>>
    BY <1>2, <1>3, <1>10, StatementOpens DEF flags
  <2>2. /\ query_vec' \in Seq(Queries) /\ Len(query_vec') = Len(query_vec)
        /\ AllInRange(query_vec', Len(scopes'))
        /\ AllOnward(query_vec) /\ kind # "while" => AllOnward(query_vec')
        /\ query_vec'[Query].op = kind
        /\ \A k \in 1 .. Len(query_vec) : k # Query => query_vec'[k].op = query_vec[k].op
        /\ scopes' \in Seq(Scopes) /\ Rooted(scopes') /\ scope' \in Nat /\ scope' <= Len(scopes')
        /\ branch_state' \in {branch_state, "EXPECT_EXPR"}
    BY <2>1 DEF Opens
  <2>3. ~Leaf' /\ ~Waiting' /\ ~entering' /\ ~exiting'
    BY <1>2, <1>6, <1>7, <2>1 DEF Leaf, Waiting
  <2>4. Kinded'
    BY <1>3, <1>7, <1>8, <2>1, <2>2 DEF Kinded
  <2>5. Indexed' /\ Forward' /\ Parented' /\ Listed'
    BY <1>3, <1>8, <2>1, <2>2 DEF ScriptInv, Indexed, Forward, Parented, Listed
  <2>6. Nested'
    BY <1>7, <2>3 DEF Nested
  <2>7. Active(walk', query_vec')
    <3>1. /\ Active(walk, query_vec) /\ query_vec \in Seq(Queries) /\ Len(query_vec) \in Nat
          /\ Len(query_vec) <= Len(query_vec')
      BY <1>1, <2>2, WhileParsing
    <3>2. \A k \in 1 .. Len(query_vec) : k \in Branches(walk) => k # Query
      BY <1>4, <1>5, <3>1
    <3>3. Active(walk, query_vec')
      BY <2>2, <3>1, <3>2, StillActive
    <3>4. f.of \in 1 .. Len(query_vec') /\ query_vec'[f.of].op = f.kind
      BY <1>4, <1>5, <2>2
    <3>5. QED
      BY <1>7, <3>3, <3>4
  <2>8. Stacked'
    <3>1. Members(query_stack) = Branches(walk')
      BY <1>4, <1>7, MembersOf
    <3>2. QED
      BY <1>3, <2>1, <2>3, <3>1 DEF Stacked, Below
  <2>9. Numbered'
    BY <1>5, <1>8, <2>2, <2>3 DEF Numbered
  <2>10. ElseActive'
    BY <1>4, <2>1, <2>3 DEF ElseActive
  <2>11. query_vec' # << >> /\ query_idx' = 1 /\ query_idx' \in 1 .. Len(query_vec') + 1
    <3>1. query_idx = 1
      BY <1>1, WhileParsing
    <3>2. QED
      BY <1>5, <2>1, <2>2, <3>1, EmptySeq
  <2>12. Parsing' /\ Running'
    BY <1>1, <1>7, <2>1, <2>6, <2>7, <2>8, <2>9, <2>10, <2>11 DEF Parsing, Running, Begun
  <2>13. QED
    BY <2>4, <2>5, <2>12 DEF ScriptInv
<1>11. QED
  BY <1>9, <1>10

LEMMA EnterIfKeeps ==
  ASSUME ScriptInv, NEW else \in BOOLEAN, EnterIf(else)
  PROVE  ScriptInv'
<1> DEFINE f == [Frame("if", Len(script) + 1, "then", 0) EXCEPT !.else = else]
<1>1. AtStatement /\ Read("if") /\ Enter(f) /\ InitOp("if", else) /\ phase = "parse"
  BY DEF EnterIf, AtStatement
<1>2. PICK n \in Nat : n = Len(script) + 1
  BY <1>1, WhileParsing
<1>3. f = [Frame("if", n, "then", 0) EXCEPT !.else = else]
  BY <1>2
<1>4. f \in Frames /\ f.kind = "if" /\ f.of = n
  BY <1>3 DEF Frame, Frames
<1> HIDE DEF f
<1>5. QED
  BY <1>1, <1>2, <1>4, BranchKeeps

LEMMA EnterWhileKeeps ==
  ASSUME ScriptInv, EnterWhile
  PROVE  ScriptInv'
<1> DEFINE f == Frame("while", Len(script) + 1, "body", 0)
<1>1. AtStatement /\ Read("while") /\ Enter(f) /\ InitOp("while", FALSE) /\ phase = "parse"
  BY DEF EnterWhile, AtStatement
<1>2. PICK n \in Nat : n = Len(script) + 1
  BY <1>1, WhileParsing
<1>3. f = Frame("while", n, "body", 0)
  BY <1>2
<1>4. f \in Frames /\ f.kind = "while" /\ f.of = n
  BY <1>3 DEF Frame, Frames
<1> HIDE DEF f
<1>5. QED
  BY <1>1, <1>2, <1>4, BranchKeeps

LEMMA EnterBlockKeeps ==
  ASSUME ScriptInv, EnterBlock
  PROVE  ScriptInv'
<1> DEFINE f == Frame("block", Inner.of, Inner.arm, Inner.blocks + 1)
<1>1. /\ phase = "parse" /\ Inner.kind = "clause" /\ Inner.seen = 0
      /\ walk' = Append(walk, f) /\ script' = script
  BY DEF EnterBlock, AtStatement, Enter
<1>2. walk \in Seq(Frames) /\ walk # << >> /\ Proper(walk) /\ Climbing(walk) /\ Inner \in Frames
      /\ Inner = Last(walk)
  BY <1>1, WhileParsing DEF Proper, Inner
<1>3. f \in Frames /\ f.kind = "block" /\ f.seen = 0 /\ ~InBranch(f)
  <2>1. PICK n \in Nat : n = Inner.blocks + 1
    BY <1>2 DEF Frames
  <2>2. f = Frame("block", Inner.of, Inner.arm, n)
    BY <2>1
  <2>3. QED
    BY <1>2, <2>2 DEF Frame, Frames, InBranch
<1> HIDE DEF f
<1>4. /\ walk' \in Seq(Frames) /\ Inner' = f /\ Branches(walk') = Branches(walk)
      /\ Proper(walk') /\ Climbing(walk') /\ \A v : Active(walk, v) => Active(walk', v)
  <2>1. f.kind # "script" /\ (f.kind = "clause" <=> Last(walk).kind # "clause")
    BY <1>1, <1>2, <1>3
  <2>2. QED
    BY <1>1, <1>2, <1>3, <2>1, Grown DEF Inner
<1>5. script' \in Seq(Lines) /\ (NoLoop' <=> NoLoop)
  BY <1>1, WhileParsing DEF NoLoop
<1>6. CASE scope = NULL
  <2>1. Crash
    BY <1>6 DEF EnterBlock
  <2>2. QED
    BY <1>4, <1>5, <2>1, CrashKeeps
<1>7. CASE scope # NULL
  <2>1. /\ entering' = TRUE /\ scopes' = [scopes EXCEPT ![scope].is_in_block = TRUE]
        /\ UNCHANGED <<phase, query_vec, query_stack, scope, branch_state, exiting, query_idx>>
    BY <1>7 DEF EnterBlock
  <2>2. ~exiting /\ Waiting /\ Leaf /\ Waiting' /\ Leaf'
    BY <1>1, <2>1, WhileParsing DEF Waiting, Leaf
  <2>3. scopes \in Seq(Scopes) /\ Rooted(scopes) /\ scope \in Nat
    BY <1>1, WhileParsing DEF ScriptInv, Parented
  <2>4. scopes' \in Seq(Scopes) /\ Len(scopes') = Len(scopes) /\ Rooted(scopes')
    BY <2>1, <2>3, ScopeMarked
  <2>5. Kinded'
    BY <1>4, <1>5, <2>1, <2>4 DEF ScriptInv, Kinded
  <2>6. Indexed' /\ Forward' /\ Parented' /\ Listed'
    BY <1>5, <2>1, <2>4 DEF ScriptInv, Indexed, Forward, Parented, Listed
  <2>7. Nested'
    BY <1>3, <1>4, <2>1, <2>2 DEF Nested
  <2>8. Active(walk', query_vec')
    BY <1>1, <1>4, <2>1, WhileParsing
  <2>9. Stacked'
    BY <1>1, <1>4, <2>1, <2>2, WhileParsing DEF Stacked, Below
  <2>10. Numbered' /\ ElseActive'
    BY <1>1, <2>1, <2>2, WhileParsing DEF Numbered, ElseActive
  <2>11. query_vec' # << >>
    <3>1. Len(walk) > 1
      BY <1>1, WhileParsing
    <3>2. QED
      BY <1>1, <2>1, <3>1, WhileParsing
  <2>12. Parsing' /\ Running'
    BY <1>1, <1>4, <2>1, <2>7, <2>8, <2>9, <2>10, <2>11, WhileParsing
    DEF ScriptInv, Parsing, Running, Begun
  <2>13. QED
    BY <2>5, <2>6, <2>12 DEF ScriptInv
<1>8. QED
  BY <1>6, <1>7

LEMMA ExitEmptyBlockKeeps ==
  ASSUME ScriptInv, ExitEmptyBlock
  PROVE  ScriptInv'
<1>1. phase = "parse" /\ Inner.kind = "block" /\ Leave /\ Read("empty") /\ Crash
  BY DEF ExitEmptyBlock
<1>2. walk' \in Seq(Frames)
  BY <1>1, Left
<1>3. QED
  BY <1>1, <1>2, ReadLine, CrashKeeps

LEMMA ExitBlockKeeps ==
  ASSUME ScriptInv, ExitBlock
  PROVE  ScriptInv'
<1>1. phase = "parse" /\ Inner.kind = "block" /\ Inner.seen > 0 /\ Leave /\ script' = script
  BY DEF ExitBlock
<1>2. ~InBranch(Inner) /\ ~entering /\ ~exiting /\ ~Waiting /\ ~Leaf
  <2>1. Inner.seen # 0
    BY <1>1, WhileParsing DEF Frames
  <2>2. QED
    BY <1>1, <2>1, WhileParsing DEF InBranch, Waiting, Leaf
<1>3. /\ walk' \in Seq(Frames) /\ Proper(walk') /\ Climbing(walk') /\ Inner'.kind = "clause"
      /\ Inner'.seen > 0 /\ Branches(walk') = Branches(walk)
      /\ \A v : Active(walk, v) => Active(walk', v)
      /\ query_vec # << >> /\ Len(query_vec) > 0
  BY <1>1, <1>2, Left
<1>4. script' \in Seq(Lines) /\ (NoLoop' <=> NoLoop)
  BY <1>1, WhileParsing DEF NoLoop
<1>5. CASE Query = NULL \/ scope = NULL
  <2>1. Crash
    BY <1>5 DEF ExitBlock
  <2>2. QED
    BY <1>3, <1>4, <2>1, CrashKeeps
<1>6. CASE Query # NULL /\ scope # NULL
  <2>1. /\ exiting' = TRUE /\ scopes' = [scopes EXCEPT ![scope].is_in_block = FALSE]
        /\ query_vec' = [query_vec EXCEPT ![Query].false_idx = Size]
        /\ branch_state' \in {"EXPECT_ELSE", "EXPECT_EXIT"}
        /\ UNCHANGED <<phase, query_stack, scope, entering, query_idx>>
    BY <1>6 DEF ExitBlock
  <2>2. ~Leaf' /\ ~Waiting'
    <3>1. Inner'.seen # 0
      BY <1>3
    <3>2. QED
      BY <1>2, <1>3, <2>1, <3>1 DEF Leaf, Waiting
  <2>3. /\ scopes \in Seq(Scopes) /\ Rooted(scopes) /\ scope \in Nat /\ query_stack \in Seq(Nat)
        /\ query_vec \in Seq(Queries) /\ AllInRange(query_vec, Len(scopes)) /\ Len(scopes) \in Nat
        /\ Len(query_vec) \in Nat /\ Size = Len(query_vec) + 1
    BY <1>1, WhileParsing DEF ScriptInv, Parented, Size
  <2>4. scopes' \in Seq(Scopes) /\ Len(scopes') = Len(scopes) /\ Rooted(scopes')
    BY <2>1, <2>3, ScopeMarked
  <2>5. query_stack # << >> /\ Query \in 1 .. Len(query_vec)
    <3>1. query_stack # << >>
      BY <1>6 DEF Query
    <3>2. Query = query_stack[1] /\ 1 \in 1 .. Len(query_stack)
      <4>1. Len(query_stack) \in Nat /\ Len(query_stack) # 0
        BY <1>1, <3>1, EmptySeq, WhileParsing
      <4>2. QED
        BY <2>3, <3>1, <4>1, HeadTailProperties DEF Query
    <3>3. QED
      BY <3>1, <3>2 DEF ScriptInv, Listed
  <2>6. Keeps(query_vec, query_vec', Len(scopes)) /\ (AllOnward(query_vec) => AllOnward(query_vec'))
    <3>1. Query \in Nat /\ Size \in Nat /\ Size <= Len(query_vec) + 1 /\ Ahead(Query, Size)
      BY <2>3, <2>5 DEF Ahead
    <3>2. /\ Keeps(query_vec, [query_vec EXCEPT ![Query].false_idx = Size], Len(scopes))
          /\ AllOnward(query_vec) /\ Ahead(Query, Size)
               => AllOnward([query_vec EXCEPT ![Query].false_idx = Size])
      BY <2>3, <3>1, FalseSet
    <3>3. QED
      BY <2>1, <3>1, <3>2
  <2>7. query_vec' \in Seq(Queries) /\ AllInRange(query_vec', Len(scopes))
        /\ Len(query_vec') = Len(query_vec) /\ SameOps(query_vec, query_vec')
    BY <2>6 DEF Keeps, SameOps
  <2>8. Kinded'
    BY <1>3, <1>4, <2>1, <2>4, <2>7 DEF ScriptInv, Kinded
  <2>9. Indexed' /\ Forward' /\ Parented' /\ Listed'
    BY <1>4, <2>1, <2>4, <2>6, <2>7 DEF ScriptInv, Indexed, Forward, Parented, Listed
  <2>10. Nested'
    BY <1>2, <1>3, <2>1 DEF Nested
  <2>11. Active(walk', query_vec')
    <3>1. Active(walk, query_vec) /\ Len(query_vec) <= Len(query_vec')
      BY <1>1, <2>3, <2>7, WhileParsing
    <3>2. Active(walk, query_vec')
      BY <2>3, <2>7, <3>1, StillActive DEF SameOps
    <3>3. QED
      BY <1>3, <3>2
  <2>12. Stacked'
    BY <1>1, <1>2, <1>3, <2>1, <2>2, WhileParsing DEF Stacked, Below
  <2>13. Numbered' /\ ElseActive'
    BY <1>1, <1>2, <2>1, <2>2, <2>5, <2>7, WhileParsing DEF Numbered, ElseActive
  <2>14. query_vec' # << >> /\ query_idx' = 1 /\ query_idx' \in 1 .. Len(query_vec') + 1
    BY <1>1, <1>3, <2>1, <2>3, <2>7, EmptySeq, WhileParsing
  <2>15. Parsing' /\ Running'
    BY <1>1, <1>3, <2>1, <2>10, <2>11, <2>12, <2>13, <2>14 DEF Parsing, Running, Begun
  <2>16. QED
    BY <2>8, <2>9, <2>15 DEF ScriptInv
<1>7. QED
  BY <1>5, <1>6

(* What ran last in each arm of an IF is sent behind it. *)
LEMMA SentBehind ==
  ASSUME NEW v \in Seq(Queries), NEW m \in Nat, AllInRange(v, m), NEW S,
         NEW x \in Nat, x = Len(v) + 1
  PROVE  LET g == [i \in DOMAIN v |-> IF i \in S THEN [v[i] EXCEPT !.next_idx = x] ELSE v[i]]
         IN  Keeps(v, g, m) /\ (AllOnward(v) => AllOnward(g))
<1> DEFINE g == [i \in DOMAIN v |-> IF i \in S THEN [v[i] EXCEPT !.next_idx = x] ELSE v[i]]
           e(i) == [v[i] EXCEPT !.next_idx = x]
<1>1. Len(v) \in Nat /\ DOMAIN v = 1 .. Len(v) /\ \A i \in 1 .. Len(v) : i < x
  BY LenProperties
<1>2. ASSUME NEW i \in 1 .. Len(v)
      PROVE  v[i] \in Queries /\ InRange(v[i], i, Len(v), m)
  BY ElementOfSeq DEF AllInRange
<1>3. ASSUME NEW i \in 1 .. Len(v)
      PROVE  /\ e(i) \in Queries /\ e(i).op = v[i].op /\ e(i).next_idx = x
             /\ e(i).true_idx = v[i].true_idx /\ e(i).false_idx = v[i].false_idx
             /\ e(i).last_true = v[i].last_true /\ e(i).scope = v[i].scope
  BY <1>2 DEF Queries
<1>4. \A i \in 1 .. Len(v) : g[i] = IF i \in S THEN e(i) ELSE v[i]
  BY <1>1
<1>5. g \in [1 .. Len(v) -> Queries] /\ DOMAIN g = 1 .. Len(v)
  <2>1. g = [i \in 1 .. Len(v) |-> IF i \in S THEN e(i) ELSE v[i]]
    BY <1>1
  <2>2. \A i \in 1 .. Len(v) : (IF i \in S THEN e(i) ELSE v[i]) \in Queries
    BY <1>2, <1>3
  <2> HIDE DEF e
  <2>3. QED
    BY <2>1, <2>2
<1> HIDE DEF e, g
<1>6. g \in Seq(Queries)
  BY <1>1, <1>5, SeqDef
<1>7. Len(g) = Len(v)
  <2>1. Len(g) \in Nat /\ DOMAIN g = 1 .. Len(g)
    BY <1>6, LenProperties
  <2>2. QED
    BY <1>1, <1>5, <2>1
<1>8. ASSUME NEW i \in 1 .. Len(v)
      PROVE  /\ InRange(g[i], i, Len(v), m) /\ g[i].op = v[i].op
             /\ Onward(v[i], i) => Onward(g[i], i)
  <2>1. CASE i \in S
    BY <1>1, <1>2, <1>3, <1>4, <2>1 DEF InRange, Onward, Ahead
  <2>2. CASE i \notin S
    BY <1>2, <1>4, <2>2
  <2>3. QED
    BY <2>1, <2>2
<1>9. QED
  <2>1. Keeps(v, g, m) /\ (AllOnward(v) => AllOnward(g))
    BY <1>6, <1>7, <1>8 DEF Keeps, SameOps, AllInRange, AllOnward
  <2>2. QED
    BY <2>1 DEF g

LEMMA ExitBranchKeeps ==
  ASSUME ScriptInv, ExitBranch
  PROVE  ScriptInv'
<1>1. phase = "parse" /\ Inner.kind \in {"if", "while"} /\ Leave /\ script' = script
  BY DEF ExitBranch
<1>2. InBranch(Inner) /\ ~entering /\ ~exiting /\ ~Waiting /\ ~Leaf
  BY <1>1, WhileParsing DEF InBranch, Waiting, Leaf
<1>3. /\ walk' \in Seq(Frames) /\ Proper(walk') /\ Climbing(walk') /\ Inner'.kind = "clause"
      /\ Inner'.seen > 0 /\ Branches(walk) = Branches(walk') \cup {Inner.of}
      /\ \A x \in Branches(walk') : x < Inner.of
      /\ \A v : Active(walk, v) => Active(walk', v)
      /\ query_vec # << >> /\ Len(query_vec) > 0
  BY <1>1, <1>2, Left
<1>4. script' \in Seq(Lines) /\ (NoLoop' <=> NoLoop)
  BY <1>1, WhileParsing DEF NoLoop
<1>5. /\ query_stack \in Seq(Nat) /\ query_vec \in Seq(Queries) /\ Len(query_vec) \in Nat
      /\ scopes \in Seq(Scopes) /\ Len(scopes) \in Nat /\ Rooted(scopes)
      /\ AllInRange(query_vec, Len(scopes)) /\ Inner.of \in Nat /\ Size = Len(query_vec) + 1
  BY <1>1, WhileParsing DEF ScriptInv, Parented, Frames, Size
<1>6. Members(query_stack) = Branches(walk) /\ Inner.of \in Branches(walk) /\ Decreasing(query_stack)
  BY <1>1, <1>2, WhileParsing DEF Stacked, Below
<1>7. query_stack # << >>
  <2>1. PICK k \in 1 .. Len(query_stack) : query_stack[k] = Inner.of
    BY <1>6 DEF Members
  <2>2. Len(query_stack) > 0
    BY <1>1, <2>1, WhileParsing
  <2>3. QED
    BY <2>2, EmptySeq
<1>8. /\ Head(query_stack) \in Members(query_stack)
      /\ Members(query_stack) = Members(Tail(query_stack)) \cup {Head(query_stack)}
      /\ \A x \in Members(Tail(query_stack)) : x < Head(query_stack)
      /\ Head(query_stack) \in Nat
  <2>1. Head(query_stack) \in Nat
    BY <1>5, <1>7, HeadTailProperties
  <2>2. QED
    BY <1>5, <1>6, <1>7, <2>1, MembersOf
<1>9. Head(query_stack) = Inner.of
  <2>1. CASE Head(query_stack) \in Branches(walk')
    <3>1. Head(query_stack) < Inner.of
      BY <1>3, <2>1
    <3>2. Inner.of \in Members(Tail(query_stack)) \/ Inner.of = Head(query_stack)
      BY <1>6, <1>8
    <3>3. QED
      BY <1>5, <1>8, <3>1, <3>2
  <2>2. CASE Head(query_stack) \notin Branches(walk')
    BY <1>3, <1>6, <1>8, <2>2
  <2>3. QED
    BY <2>1, <2>2
<1>10. Query = Inner.of /\ Query \in 1 .. Len(query_vec) /\ query_vec[Query].op = Inner.kind
  <2>1. Query = Inner.of
    BY <1>7, <1>9 DEF Query
  <2>2. Len(walk) \in 1 .. Len(walk) /\ Inner = walk[Len(walk)] /\ Active(walk, query_vec)
    BY <1>1, WhileParsing DEF Inner, Last
  <2>3. QED
    BY <1>2, <2>1, <2>2 DEF Active
<1>11. Outer \in Nat /\ Outer <= Len(scopes)
  <2>1. query_vec[Query].scope \in 1 .. Len(scopes)
    BY <1>1, <1>5, <1>10 DEF AllInRange, InRange
  <2>2. scopes[query_vec[Query].scope] \in Scopes
    BY <1>5, <2>1, ElementOfSeq
  <2>3. Outer \in Nat /\ Outer < query_vec[Query].scope
    BY <1>5, <2>1, <2>2 DEF Outer, Rooted, Scopes
  <2>4. QED
    BY <1>5, <2>1, <2>3
<1>12. CASE query_vec[Query].op = "if" /\ NULL \in LastOfArms
  <2>1. Crash
    BY <1>12 DEF ExitBranch
  <2>2. QED
    BY <1>3, <1>4, <2>1, CrashKeeps
<1>13. CASE ~(query_vec[Query].op = "if" /\ NULL \in LastOfArms)
  <2> DEFINE sent == [i \in DOMAIN query_vec |->
                        IF i \in LastOfArms THEN [query_vec[i] EXCEPT !.next_idx = Size] ELSE query_vec[i]]
  <2>1. /\ scope' = Outer /\ branch_state' \in {"NO_BRANCH", "EXPECT_EXPR"}
        /\ query_vec' \in {query_vec, sent}
        /\ UNCHANGED <<phase, query_stack, scopes, entering, exiting, query_idx>>
    BY <1>13 DEF ExitBranch, flags
  <2>2. ~Waiting' /\ Leaf'
    <3>1. Inner'.seen # 0
      BY <1>3
    <3>2. QED
      BY <1>2, <1>3, <2>1, <3>1 DEF Leaf, Waiting
  <2>3. Keeps(query_vec, query_vec', Len(scopes)) /\ (AllOnward(query_vec) => AllOnward(query_vec'))
    <3>1. Keeps(query_vec, sent, Len(scopes)) /\ (AllOnward(query_vec) => AllOnward(sent))
      <4>1. Size \in Nat
        BY <1>5
      <4>2. QED
        BY <1>5, <4>1, SentBehind
    <3>2. Keeps(query_vec, query_vec, Len(scopes))
      BY <1>5 DEF Keeps, SameOps
    <3> HIDE DEF sent
    <3>3. QED
      BY <2>1, <3>1, <3>2
  <2>4. query_vec' \in Seq(Queries) /\ AllInRange(query_vec', Len(scopes))
        /\ Len(query_vec') = Len(query_vec) /\ SameOps(query_vec, query_vec')
    BY <2>3 DEF Keeps, SameOps
  <2>5. Kinded'
    BY <1>3, <1>4, <1>11, <2>1, <2>4 DEF ScriptInv, Kinded
  <2>6. Indexed' /\ Forward' /\ Parented' /\ Listed'
    BY <1>4, <1>5, <1>11, <2>1, <2>3, <2>4 DEF ScriptInv, Indexed, Forward, Parented, Listed
  <2>7. Nested'
    BY <1>2, <1>3, <2>1 DEF Nested
  <2>8. Active(walk', query_vec')
    <3>1. Active(walk, query_vec) /\ Len(query_vec) <= Len(query_vec')
      BY <1>1, <1>5, <2>4, WhileParsing
    <3>2. Active(walk, query_vec')
      BY <1>5, <2>4, <3>1, StillActive DEF SameOps
    <3>3. QED
      BY <1>3, <3>2
  <2>9. Stacked'
    <3>1. Inner.of \notin Branches(walk') /\ Inner.of \notin Members(Tail(query_stack))
      BY <1>3, <1>5, <1>8, <1>9
    <3>2. Members(Tail(query_stack)) = Branches(walk')
      <4>1. Branches(walk') \cup {Inner.of} = Members(Tail(query_stack)) \cup {Inner.of}
        BY <1>3, <1>6, <1>8, <1>9
      <4>2. QED
        BY <3>1, <4>1
    <3>3. QED
      BY <1>6, <1>7, <2>1, <2>2, <3>2 DEF Stacked, Below
  <2>10. Numbered' /\ ElseActive'
    BY <1>1, <1>2, <2>1, <2>2, <2>4, WhileParsing DEF Numbered, ElseActive
  <2>11. query_vec' # << >> /\ query_idx' = 1 /\ query_idx' \in 1 .. Len(query_vec') + 1
    BY <1>1, <1>3, <1>5, <2>1, <2>4, EmptySeq, WhileParsing
  <2>12. Parsing' /\ Running'
    BY <1>1, <1>3, <2>1, <2>7, <2>8, <2>9, <2>10, <2>11 DEF Parsing, Running, Begun
  <2>13. QED
    BY <2>5, <2>6, <2>12 DEF ScriptInv
<1>14. QED
  BY <1>12, <1>13

LEMMA ExecPlansKeeps ==
  ASSUME ScriptInv, ExecPlans
  PROVE  ScriptInv'
<1>1. /\ phase = "parse" /\ Len(walk) = 1 /\ Inner.seen > 0 /\ phase' = "run"
      /\ UNCHANGED <<walk, script, query_vec, query_stack, scopes, scope, branch_state,
                     entering, exiting, query_idx>>
  BY DEF ExecPlans, layout, flags
<1>2. Inner = walk[1] /\ walk[1].kind = "script"
  BY <1>1, WhileParsing DEF Inner, Last, Proper
<1>3. ~Leaf
  BY <1>1, <1>2, WhileParsing DEF Leaf
<1>4. query_stack = << >>
  <2>1. \A k \in 1 .. Len(walk) : ~InBranch(walk[k])
    BY <1>1, <1>2 DEF InBranch
  <2>2. \A x : x \notin Branches(walk)
    BY <2>1 DEF Branches
  <2>3. Members(query_stack) = Branches(walk) /\ query_stack \in Seq(Nat)
    BY <1>1, <1>3, WhileParsing DEF Stacked, Below
  <2>4. query_stack # << >> => Head(query_stack) \in Members(query_stack)
    BY <2>3, MembersOf
  <2>5. QED
    BY <2>2, <2>3, <2>4
<1>5. query_idx = 1 /\ 1 \in 1 .. Len(query_vec)
  <2>1. query_vec # << >> /\ Len(query_vec) \in Nat /\ query_idx = 1
    BY <1>1, <1>2, WhileParsing
  <2>2. Len(query_vec) # 0
    BY <1>1, <2>1, EmptySeq, WhileParsing
  <2>3. QED
    BY <2>1, <2>2
<1>6. Kinded'
  BY <1>1 DEF ScriptInv, Kinded
<1>7. NoLoop' <=> NoLoop
  BY <1>1 DEF NoLoop
<1>8. Indexed' /\ Forward' /\ Parented' /\ Listed'
  BY <1>1, <1>7 DEF ScriptInv, Indexed, Forward, Parented, Listed
<1>9. Parsing' /\ Running'
  BY <1>1, <1>4, <1>5 DEF ScriptInv, Parsing, Running
<1>10. QED
  BY <1>6, <1>8, <1>9 DEF ScriptInv

(* The program goes on with another query of the script, or forgets the script. *)
LEMMA AdvanceKeeps ==
  ASSUME ScriptInv, phase = "run", NEW g, NEW next \in Nat, Keeps(query_vec, g, Len(scopes)),
         AllOnward(query_vec) => AllOnward(g), Advance(g, next),
         UNCHANGED <<walk, script, query_stack, branch_state, flags>>
  PROVE  ScriptInv'
<1>1. UNCHANGED <<walk, script, query_stack, branch_state, entering, exiting>>
  BY DEF flags
<1>2. /\ Kinded /\ query_stack = << >> /\ query_vec \in Seq(Queries)
      /\ DOMAIN query_vec = 1 .. Len(query_vec) /\ Len(query_vec) \in Nat
      /\ Len(query_stack) = 0
  BY LenProperties DEF ScriptInv, Running, Kinded
<1>3. NoLoop' <=> NoLoop
  BY <1>1 DEF NoLoop
<1>4. CASE next \in 1 .. Len(query_vec)
  <2>1. query_vec' = g /\ query_idx' = next /\ UNCHANGED <<phase, scopes, scope>>
    BY <1>2, <1>4 DEF Advance
  <2>2. g \in Seq(Queries) /\ AllInRange(g, Len(scopes)) /\ Len(g) = Len(query_vec)
    BY DEF Keeps, SameOps
  <2>3. Kinded'
    BY <1>1, <2>1, <2>2 DEF ScriptInv, Kinded
  <2>4. Indexed' /\ Forward' /\ Parented' /\ Listed'
    BY <1>1, <1>3, <2>1, <2>2 DEF ScriptInv, Indexed, Forward, Parented, Listed
  <2>5. Parsing' /\ Running'
    BY <1>1, <1>2, <1>4, <2>1, <2>2 DEF Parsing, Running
  <2>6. QED
    BY <2>3, <2>4, <2>5 DEF ScriptInv
<1>5. CASE next \notin 1 .. Len(query_vec)
  <2>1. /\ query_vec' = << >> /\ query_idx' = 1 /\ phase' = "done"
        /\ scopes' = <<NewScope(0)>> /\ scope' = 1
    BY <1>2, <1>5 DEF Advance, NULL, Global
  <2>2. query_vec' \in Seq(Queries) /\ Len(query_vec') = 0
    BY <2>1, EmptySeq
  <2>3. NewScope(0) \in Scopes /\ NewScope(0).parent = 0
    BY DEF NewScope, Scopes
  <2>4. scopes' \in Seq(Scopes) /\ Len(scopes') = 1 /\ scopes'[1].parent = 0
    BY <2>1, <2>3
  <2>5. Rooted(scopes')
    BY <2>4 DEF Rooted
  <2>6. Kinded'
    BY <1>1, <2>1, <2>2, <2>4 DEF ScriptInv, Kinded
  <2>7. Indexed' /\ Forward' /\ Parented' /\ Listed'
    BY <1>1, <1>2, <2>1, <2>2, <2>4, <2>5
    DEF Indexed, AllInRange, Forward, AllOnward, Parented, Listed
  <2>8. Parsing' /\ Running'
    BY <1>1, <1>2, <2>1, <2>2 DEF Parsing, Running
  <2>9. QED
    BY <2>6, <2>7, <2>8 DEF ScriptInv
<1>6. QED
  BY <1>4, <1>5

(* Where the query that runs sends the program. *)
LEMMA AtRun ==
  ASSUME ScriptInv, phase = "run"
  PROVE  LET q == query_vec[query_idx]
         IN  /\ query_idx \in 1 .. Len(query_vec) /\ query_idx \in Nat
             /\ query_vec \in Seq(Queries) /\ AllInRange(query_vec, Len(scopes)) /\ Len(scopes) \in Nat
             /\ \A n \in {q.next_idx, q.true_idx, q.false_idx} :
                  n \in Nat /\ n <= Len(query_vec) + 1 /\ (AllOnward(query_vec) => Ahead(query_idx, n))
             /\ NoLoop => AllOnward(query_vec)
<1>1. /\ query_idx \in 1 .. Len(query_vec) /\ query_vec \in Seq(Queries) /\ scopes \in Seq(Scopes)
      /\ AllInRange(query_vec, Len(scopes)) /\ (NoLoop => AllOnward(query_vec))
  BY DEF ScriptInv, Running, Kinded, Indexed, Forward
<1>2. /\ query_vec[query_idx] \in Queries
      /\ InRange(query_vec[query_idx], query_idx, Len(query_vec), Len(scopes))
      /\ AllOnward(query_vec) => Onward(query_vec[query_idx], query_idx)
  BY <1>1, ElementOfSeq DEF AllInRange, AllOnward
<1>3. Len(scopes) \in Nat
  BY <1>1, LenProperties
<1>4. ASSUME NEW n \in {query_vec[query_idx].next_idx, query_vec[query_idx].true_idx,
                         query_vec[query_idx].false_idx}
      PROVE  n \in Nat /\ n <= Len(query_vec) + 1 /\ (AllOnward(query_vec) => Ahead(query_idx, n))
  <2>1. n \in Nat
    BY <1>2 DEF Queries
  <2>2. n <= Len(query_vec) + 1
    BY <1>2 DEF InRange
  <2>3. AllOnward(query_vec) => Ahead(query_idx, n)
    BY <1>2 DEF Onward
  <2>4. QED
    BY <2>1, <2>2, <2>3
<1>5. query_idx \in Nat
  BY <1>1
<1>6. QED
  BY <1>1, <1>3, <1>4, <1>5

LEMMA ExecKeeps ==
  ASSUME ScriptInv, Exec
  PROVE  ScriptInv'
<1> DEFINE q == query_vec[query_idx]
<1>1. phase = "run" /\ UNCHANGED <<walk, script, query_stack, branch_state, flags>>
  BY DEF Exec, Run, RunBranch
<1>2. /\ query_idx \in 1 .. Len(query_vec) /\ query_idx \in Nat
      /\ query_vec \in Seq(Queries) /\ AllInRange(query_vec, Len(scopes)) /\ Len(scopes) \in Nat
      /\ \A n \in {q.next_idx, q.true_idx, q.false_idx} :
           n \in Nat /\ n <= Len(query_vec) + 1 /\ (AllOnward(query_vec) => Ahead(query_idx, n))
      /\ NoLoop => AllOnward(query_vec)
  BY <1>1, AtRun
<1>3. CASE Run
  <2>1. Advance(query_vec, q.next_idx)
    BY <1>3 DEF Run
  <2>2. Keeps(query_vec, query_vec, Len(scopes)) /\ q.next_idx \in Nat
    BY <1>2 DEF Keeps, SameOps
  <2>3. QED
    BY <1>1, <2>1, <2>2, AdvanceKeeps
<1>4. ASSUME NEW cond \in BOOLEAN, RunBranch(cond) PROVE ScriptInv'
  <2> DEFINE next == NextOfBranch(q, cond)
             g == [query_vec EXCEPT ![query_idx].next_idx = next]
  <2>1. Advance(g, next)
    BY <1>4 DEF RunBranch
  <2>2. next \in {q.next_idx, q.true_idx, q.false_idx}
    BY DEF NextOfBranch
  <2>3. next \in Nat /\ next <= Len(query_vec) + 1 /\ (AllOnward(query_vec) => Ahead(query_idx, next))
    BY <1>2, <2>2
  <2> HIDE DEF next
  <2>4. /\ Keeps(query_vec, g, Len(scopes))
        /\ AllOnward(query_vec) /\ Ahead(query_idx, next) => AllOnward(g)
    BY <1>2, <2>3, NextSet
  <2> HIDE DEF g
  <2>5. QED
    BY <1>1, <2>1, <2>3, <2>4, AdvanceKeeps
<1>5. QED
  BY <1>3, <1>4 DEF Exec

-----------------------------------------------------------------------------
LEMMA InitEstablishes ==
  ASSUME Init
  PROVE  ScriptInv
<1> DEFINE f == Frame("script", 0, "script", 0)
<1>1. /\ walk = <<f>> /\ script = << >> /\ phase = "parse" /\ query_vec = << >> /\ query_stack = << >>
      /\ scopes = <<NewScope(0)>> /\ scope = 1 /\ branch_state \in {"EXPECT_EXPR", "NO_BRANCH"}
      /\ entering = FALSE /\ exiting = FALSE /\ query_idx = 1
  BY DEF Init, NULL, Global
<1>2. f \in Frames /\ f.kind = "script" /\ f.seen = 0
  BY DEF Frame, Frames
<1>3. NewScope(0) \in Scopes /\ NewScope(0).parent = 0
  BY DEF NewScope, Scopes
<1> HIDE DEF f
<1>4. /\ walk \in Seq(Frames) /\ Len(walk) = 1 /\ walk[1] = f /\ walk # << >> /\ Inner = f
  BY <1>1, <1>2 DEF Inner, Last
<1>5. scopes \in Seq(Scopes) /\ Len(scopes) = 1 /\ scopes[1].parent = 0
  BY <1>1, <1>3
<1>6. /\ script \in Seq(Lines) /\ query_vec \in Seq(Queries) /\ query_stack \in Seq(Nat)
      /\ Len(script) = 0 /\ Len(query_vec) = 0 /\ Len(query_stack) = 0
  BY <1>1
<1>7. Kinded
  BY <1>1, <1>4, <1>5, <1>6 DEF Kinded
<1>8. Indexed /\ Forward /\ Parented /\ Listed
  BY <1>1, <1>5, <1>6 DEF Indexed, AllInRange, Forward, AllOnward, Parented, Rooted, Listed
<1>9. ~Waiting /\ ~Leaf
  BY <1>1, <1>2, <1>4 DEF Waiting, Leaf
<1>10. \A k \in 1 .. Len(walk) : ~InBranch(walk[k])
  BY <1>2, <1>4 DEF InBranch
<1>11. Branches(walk) = {} /\ Climbing(walk) /\ Active(walk, query_vec)
  BY <1>10 DEF Branches, Climbing, Active
<1>12. Members(query_stack) = {} /\ Decreasing(query_stack)
  BY <1>6 DEF Members, Decreasing
<1>13. Stacked
  BY <1>9, <1>11, <1>12 DEF Stacked, Below
<1>14. Nested
  BY <1>1, <1>2, <1>4 DEF Nested, Proper
<1>15. Numbered /\ ElseActive /\ Begun
  BY <1>1, <1>2, <1>4, <1>6, <1>9 DEF Numbered, ElseActive, Begun
<1>16. Parsing /\ Running
  BY <1>1, <1>6, <1>11, <1>13, <1>14, <1>15 DEF Parsing, Running
<1>17. QED
  BY <1>7, <1>8, <1>16 DEF ScriptInv

LEMMA StutterKeeps ==
  ASSUME ScriptInv, UNCHANGED vars
  PROVE  ScriptInv'
<1>1. UNCHANGED <<walk, script, phase, query_vec, query_stack, scopes, scope, branch_state,
                  entering, exiting, query_idx, took>>
  BY DEF vars, layout, flags
<1>2. Kinded' /\ Indexed' /\ Forward' /\ Parented' /\ Listed'
  BY <1>1 DEF ScriptInv, Kinded, Indexed, Forward, NoLoop, Parented, Listed
<1>3. Waiting' = Waiting /\ Leaf' = Leaf /\ Below' = Below /\ Inner' = Inner
  BY <1>1 DEF Waiting, Leaf, Below, Inner
<1>4. Parsing' /\ Running'
  BY <1>1, <1>3 DEF ScriptInv, Parsing, Running, Nested, Stacked, Numbered, ElseActive, Begun
<1>5. QED
  BY <1>2, <1>4 DEF ScriptInv

(* The layout of a script of any size keeps its shape through every callback of the
   listener and every step of the program. *)
THEOREM ScriptInvariant == Spec => []ScriptInv
<1>1. Init => ScriptInv
  BY InitEstablishes
<1>2. ScriptInv /\ [Next]_vars => ScriptInv'
  <2>1. SUFFICES ASSUME ScriptInv, [Next]_vars PROVE ScriptInv'
    OBVIOUS
  <2>2. CASE UNCHANGED vars
    BY <2>1, <2>2, StutterKeeps
  <2>3. CASE Next
    <3>1. CASE EnterSql \/ ExitSql
      BY <2>1, <3>1, EnterSqlKeeps, ExitSqlKeeps
    <3>2. CASE Simple \/ Subquery
      BY <2>1, <3>2, SimpleKeeps, SubqueryKeeps
    <3>3. ASSUME NEW else \in BOOLEAN, EnterIf(else) PROVE ScriptInv'
      BY <2>1, <3>3, EnterIfKeeps
    <3>4. CASE EnterWhile
      BY <2>1, <3>4, EnterWhileKeeps
    <3>5. CASE EnterBlock \/ ExitBlock \/ ExitEmptyBlock
      BY <2>1, <3>5, EnterBlockKeeps, ExitBlockKeeps, ExitEmptyBlockKeeps
    <3>6. CASE ExitBranch
      BY <2>1, <3>6, ExitBranchKeeps
    <3>7. CASE ExecPlans \/ Exec
      BY <2>1, <3>7, ExecPlansKeeps, ExecKeeps
    <3>8. QED
      BY <2>3, <3>1, <3>2, <3>3, <3>4, <3>5, <3>6, <3>7 DEF Next
  <2>4. QED
    BY <2>1, <2>2, <2>3
<1>3. QED
  BY <1>1, <1>2, PTL DEF Spec

(* Whatever the script is, every index of a query is that of a query, or the one past the
   last, or none; a scope lies in one made before it; and the stack of active queries and
   the query that runs are queries that exist. *)
THEOREM TypeCorrect == Spec => []TypeOK
<1>1. ScriptInv => TypeOK
  <2>1. SUFFICES ASSUME ScriptInv PROVE TypeOK
    OBVIOUS
  <2>2. /\ query_vec \in Seq(Queries) /\ query_stack \in Seq(Nat) /\ scopes \in Seq(Scopes)
        /\ scope \in Nat /\ scope <= Len(scopes) /\ AllInRange(query_vec, Len(scopes))
        /\ phase \in {"parse", "run", "done", "crashed"}
        /\ branch_state \in {"NO_BRANCH", "EXPECT_EXPR", "EXPECT_ELSE", "EXPECT_EXIT"}
        /\ query_idx \in 1 .. Len(query_vec) + 1
    BY <2>1 DEF ScriptInv, Kinded, Parented, Indexed, Running
  <2>3. /\ Len(query_vec) \in Nat /\ DOMAIN query_vec = 1 .. Len(query_vec)
        /\ DOMAIN query_stack = 1 .. Len(query_stack)
        /\ Len(scopes) \in Nat /\ DOMAIN scopes = 1 .. Len(scopes)
    BY <2>2, LenProperties
  <2>4. scope \in {NULL} \cup DOMAIN scopes
    BY <2>2, <2>3 DEF NULL
  <2>5. ASSUME NEW s \in DOMAIN scopes PROVE scopes[s].parent \in 0 .. s - 1
    <3>1. scopes[s] \in Scopes
      BY <2>2, <2>3, ElementOfSeq
    <3>2. scopes[s].parent \in Nat /\ scopes[s].parent < s /\ s \in Nat
      BY <2>1, <2>3, <3>1 DEF ScriptInv, Parented, Rooted, Scopes
    <3>3. QED
      BY <3>2
  <2>6. ASSUME NEW i \in DOMAIN query_vec
        PROVE  LET q == query_vec[i]
               IN  /\ {q.next_idx, q.true_idx, q.false_idx} \subseteq 0 .. Size
                   /\ q.last_true \in {NULL} \cup (i + 1 .. Len(query_vec))
    <3> DEFINE q == query_vec[i]
    <3>1. q \in Queries /\ InRange(q, i, Len(query_vec), Len(scopes)) /\ i \in Nat
      BY <2>2, <2>3, ElementOfSeq DEF AllInRange
    <3>2. q.next_idx \in Nat /\ q.true_idx \in Nat /\ q.false_idx \in Nat /\ q.last_true \in Nat
      BY <3>1 DEF Queries
    <3> HIDE DEF q
    <3>3. q.next_idx \in 0 .. Size /\ q.true_idx \in 0 .. Size /\ q.false_idx \in 0 .. Size
      BY <2>3, <3>1, <3>2 DEF InRange, Size
    <3>4. q.last_true \in {NULL} \cup (i + 1 .. Len(query_vec))
      BY <2>3, <3>1, <3>2 DEF InRange, NULL
    <3>5. QED
      BY <3>3, <3>4 DEF q
  <2>7. \A i \in DOMAIN query_stack : query_stack[i] \in DOMAIN query_vec
    BY <2>1, <2>3 DEF ScriptInv, Listed
  <2>8. QED
    BY <2>2, <2>4, <2>5, <2>6, <2>7 DEF TypeOK, Size
<1>2. QED
  BY <1>1, ScriptInvariant, PTL

(* A script without a loop never goes back: each query it runs comes after the one before
   it in the text, so that none of them runs twice. *)
THEOREM RunsForward ==
  Spec => [][phase = "run" /\ phase' = "run" /\ NoLoop => query_idx' > query_idx]_vars
<1> DEFINE Goes == phase = "run" /\ phase' = "run" /\ NoLoop => query_idx' > query_idx
<1>1. ScriptInv /\ [Next]_vars => [Goes]_vars
  <2>1. SUFFICES ASSUME ScriptInv, Next, phase = "run", phase' = "run", NoLoop
                 PROVE  query_idx' > query_idx
    OBVIOUS
  <2> DEFINE q == query_vec[query_idx]
  <2>2. Exec
    BY <2>1 DEF Next, EnterSql, ExitSql, Simple, Subquery, EnterIf, EnterWhile, EnterBlock, ExitBlock,
                ExitEmptyBlock, ExitBranch, ExecPlans, AtStatement
  <2>3. /\ query_idx \in Nat /\ AllOnward(query_vec) /\ query_vec \in Seq(Queries)
        /\ \A n \in {q.next_idx, q.true_idx, q.false_idx} : n \in Nat /\ Ahead(query_idx, n)
    BY <2>1, AtRun
  <2>4. \E n \in {q.next_idx, q.true_idx, q.false_idx} : \E g : Advance(g, n)
    BY <2>2 DEF Exec, Run, RunBranch, NextOfBranch
  <2>5. PICK n \in {q.next_idx, q.true_idx, q.false_idx} : \E g : Advance(g, n)
    BY <2>4
  <2>6. n \in DOMAIN query_vec /\ query_idx' = n
    BY <2>1, <2>5 DEF Advance
  <2>7. n # 0
    BY <2>3, <2>6, LenProperties
  <2>8. QED
    BY <2>3, <2>5, <2>6, <2>7 DEF Ahead
<1>2. QED
  BY <1>1, ScriptInvariant, PTL DEF Spec

=============================================================================
