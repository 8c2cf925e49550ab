------------------------------- MODULE Passes -------------------------------
(***************************************************************************)
(* A whole SELECT without threads: passes over its processes, in each of   *)
(* which every process is called once.  process_exec_plan goes on until    *)
(* nothing runs any more, process_step (fql_step) until a row is there for *)
(* the caller.  A call handles what its pipes let it; here it is a step.   *)
(*                                                                         *)
(* A list of records that goes through a pipe is a sequence of records.    *)
(* The fields of a record are views of buffers, which are filled again     *)
(* once their record is back in its root.  The plan, and the wiring of its *)
(* processes as module PlanGraph builds it, are the parameter.             *)
(***************************************************************************)
EXTENDS Integers, Sequences, SequencesExt, FiniteSets, FiniteSetsExt

CONSTANT Plans

VARIABLES
  plan,           (* the statement and its processes, in execution order    *)
  st,             (* pipes, records and the data of the processes           *)
  at,             (* the process to call next, or Stuck                     *)
  running,        (* run_count > 0                                          *)
  run,            (* how often the plan has been prepared                   *)
  over            (* is_complete, for the last time                         *)

vars == <<plan, st, at, running, run, over>>

(* No process: a call does not return. *)
Stuck == 0

NoPipe == <<0, 0>>
Null   == <<0, 1>>

Procs   == DOMAIN plan.process
proc    == plan.process[at]

-----------------------------------------------------------------------------
(* process_activate, _activate_procs and plan_pipeline_root_preempt. *)

Count(b) == IF b THEN 1 ELSE 0

HasSecond(process) == process.action \in {"hash_join", "cartesian_join", "groupby"}

(* The pipes that hold records nobody uses: the input it has instead of one from another
   process, and the aux root of a hash join. *)
RootsOf(process, p) ==
  (IF process.root >= 0 THEN <<<<p, process.root>>>> ELSE << >>)
  \o (IF process.action = "hash_join" THEN <<<<p, 2>>>> ELSE << >>)

(* What process_activate adds to pipe_count; two are its buffers. *)
PipesOf(process) ==
  2 + 1 + Count(HasSecond(process)) + Count(process.action = "hash_join") + Len(process.unions)

SumOver(seq, Op(_)) == FoldLeft(LAMBDA sum, e : sum + Op(e), 0, seq)

FifoBaseSize(pl) ==
  (Len(pl.process) + SumOver(pl.process, LAMBDA e : Len(e.unions))) * pl.factor

(* The records are dealt to the roots one by one.  A root is full with one slot free. *)
Activated(pl) ==
  LET procs    == DOMAIN pl.process
      base     == FifoBaseSize(pl)
      roots    == FlattenSeq([p \in procs |-> RootsOf(pl.process[p], p)])
      records  == 1 .. base * SumOver(pl.process, PipesOf)
      Dealt(i) == SelectSeq([r \in records |-> r], LAMBDA r : ((r - 1) % Len(roots)) + 1 = i)
      pipes    == UNION {{<<p, 0>>} \cup ToSet(pl.process[p].unions)
                           \cup ToSet(RootsOf(pl.process[p], p))
                           \cup (IF HasSecond(pl.process[p]) THEN {<<p, 1>>} ELSE {}) : p \in procs}
      Root(pipe) == IF Contains(roots, pipe) THEN Dealt(SelectInSeq(roots, LAMBDA q : q = pipe))
                    ELSE << >>
  IN  [pipe       |-> [q \in pipes |-> [k \in 1 .. Len(Root(q)) - 1 |-> <<Root(q)[k]>>]],
       size       |-> [q \in pipes |-> IF Contains(roots, q) THEN Len(Root(q)) ELSE base],
       isOpen     |-> [q \in pipes |-> TRUE],
       roots      |-> roots,
       inbuf      |-> [p \in procs |-> << >>],
       enabled    |-> [p \in procs |-> TRUE],
       waitForIn0 |-> [p \in procs |-> TRUE],
       rows       |-> [p \in procs |-> 0],         (* rows_affected of the process       *)
       selected   |-> [p \in procs |-> 0],         (* rows_affected of the select        *)
       current    |-> [p \in procs |-> 1],         (* current_select                     *)
       pos        |-> [p \in procs |-> 0],         (* of the reader, the match, the dump *)
       data       |-> [p \in procs |-> << >>],     (* of the hash map, groups or entries *)
       sideLeft   |-> [p \in procs |-> FALSE],
       recs       |-> [p \in procs |-> << >>],     (* matches of the list in front      *)
       value      |-> 0,
       refCount   |-> [r \in records |-> 1],
       copyOf     |-> [r \in records |-> 0],
       fields     |-> [r \in records |-> << >>],
       srcIdx     |-> [r \in records |-> -1],
       buffer     |-> [r \in records \cup {0} |-> <<0>>],
       written    |-> [r \in records |-> << >>],
       api        |-> << >>,                       (* the row the caller will get        *)
       before     |-> 0,                           (* rows_affected before fql_step      *)
       shown      |-> << >>]                       (* every row that was written (history) *)

RootFifo(s, r) == s.roots[((r - 1) % Len(s.roots)) + 1]

-----------------------------------------------------------------------------
(* Pipes and records of a state s. *)

Room(s, pipe) == Len(s.pipe[pipe]) + 1 < s.size[pipe]

(* A full ring to which is added looks empty. *)
Add(s, pipe, list) ==
  [s EXCEPT !.pipe[pipe] = IF Len(@) + 1 = s.size[pipe] THEN << >> ELSE Append(@, list)]

Taken(s, pipe) == [s EXCEPT !.pipe[pipe] = Tail(@)]

Closed(s, pipes) == [s EXCEPT !.isOpen = [q \in DOMAIN @ |-> @[q] /\ q \notin pipes]]

(* Mutant: a count above 1 is not lowered. *)
UncountedLast(s, r) ==
  IF s.refCount[r] = 1 THEN Add(s, RootFifo(s, r), <<r>>) ELSE s

(* Mutant: the count is not set to 1 again. *)
UncountedToZero(s, r) ==
  IF s.refCount[r] = 1 THEN Add([s EXCEPT !.refCount[r] = 0], RootFifo(s, r), <<r>>)
  ELSE [s EXCEPT !.refCount[r] = @ - 1]

Uncounted(s, r) ==
  IF s.refCount[r] = 1 THEN Add(s, RootFifo(s, r), <<r>>)
  ELSE [s EXCEPT !.refCount[r] = @ - 1]

(* A source of which this is the last copy was recycled before it. *)
RecycledRecord(s, r) ==
  IF s.copyOf[r] = 0 THEN Uncounted(s, r)
  ELSE Uncounted([Uncounted(s, s.copyOf[r]) EXCEPT !.copyOf[r] = 0], r)

Recycled(s, list) == FoldLeft(RecycledRecord, s, list)

(* record_at for each source in turn, and what the fields say. *)
FieldsAt(s, list, idx) ==
  LET found == SelectSeq(list, LAMBDA r : s.srcIdx[r] = idx)
  IN  IF found = << >> THEN <<Null>> ELSE s.fields[Head(found)]

Fields(s, list, sources) == FlattenSeq([i \in 1 .. sources |-> FieldsAt(s, list, i - 1)])

Values(s, fields) == [i \in DOMAIN fields |-> s.buffer[fields[i][1]][fields[i][2]]]

Row(s, list, process) == Values(s, Fields(s, list, process.sources))

Goes(row, condition) == <<row[1], Last(row)>> \in condition

Key(row) == row[1] % 2

(* reader->get_record__ fills a record. *)
Filled(s, r, idx, values) ==
  [s EXCEPT !.buffer[r] = values, !.srcIdx[r] = idx,
            !.fields[r] = [i \in DOMAIN values |-> <<r, i>>]]

(* record_copy *)
Copied(s, r, source) ==
  [s EXCEPT !.copyOf[r] = source, !.refCount[source] = @ + 1,
            !.fields[r] = s.fields[source], !.srcIdx[r] = s.srcIdx[source]]

CopiedAll(s, fresh, list) ==
  FoldLeft(LAMBDA t, i : Copied(t, fresh[i], list[Len(list) + 1 - i]), s, [i \in DOMAIN list |-> i])

-----------------------------------------------------------------------------
(* A call of the process that is next. *)

In0 == IF st.current[at] = 1 THEN <<at, 0>> ELSE proc.unions[st.current[at] - 1]
In1 == <<at, 1>>
Out == proc.out

IsOpen(pipe)  == st.isOpen[pipe]
IsEmpty(pipe) == st.pipe[pipe] = << >>
Ended(pipe)   == IsEmpty(pipe) /\ ~IsOpen(pipe)

Calls(action) ==
  /\ at \in Procs /\ proc.action = action
  /\ st.enabled[at] /\ \A p \in proc.waits : ~st.enabled[p]

(* Mutant: the output stays open. *)
DisabledInside(s) == [Closed(s, {In0}) EXCEPT !.enabled[at] = FALSE]

(* process_disable: the outputs and the first input are closed, the inputs drained. *)
Disabled(s) ==
  LET inputs == SelectSeq(<<In0>> \o (IF HasSecond(proc) THEN <<In1>> ELSE << >>),
                          LAMBDA q : ~Contains(s.roots, q))
      Drained(t, pipe) == [Recycled(t, FlattenSeq(t.pipe[pipe])) EXCEPT !.pipe[pipe] = << >>]
  IN  [FoldLeft(Drained, Closed(s, {In0, Out}), inputs) EXCEPT !.enabled[at] = FALSE]

(* The rest of _exec_one_pass.  What a process waits for matters to threads only. *)
Return(s, ret) ==
  /\ st' = IF ret = "complete" THEN Disabled(s) ELSE s
  /\ running' = (running \/ ret # "complete" \/ st'.waitForIn0[at])
  /\ at' = IF ret = "stuck" THEN Stuck ELSE at + 1
  /\ UNCHANGED <<plan, run, over>>

(* A loop over what is in a pipe: One handles a list, or stops in front of it.  Only a root
   holds more lists than a pipe, and its reader stops when its output is full. *)
Batch(s, pipe, One(_, _)) ==
  FoldLeft(LAMBDA b, list : IF b.stop THEN b ELSE One(b, list),
           [s |-> s, ret |-> "running", stop |-> FALSE, iters |-> 0],
           SubSeq(s.pipe[pipe], 1, Min({Len(s.pipe[pipe]), FifoBaseSize(plan)})))

Stop(b, ret) == [b EXCEPT !.ret = ret, !.stop = TRUE]

(* Mutant: the test for room after each record is left out. *)
OnAnyway(b, s, pipe) == [b EXCEPT !.s = s]

(* Goes on from s while there is room. *)
On(b, s, pipe) == [b EXCEPT !.s = s, !.stop = ~Room(s, pipe)]

Finish(b) == Return(b.s, b.ret)

Skip ==
  /\ at \in Procs
  /\ ~st.enabled[at] \/ \E p \in proc.waits : st.enabled[p]
  /\ running' = (running \/ st.enabled[at])
  /\ at' = at + 1
  /\ UNCHANGED <<plan, st, run, over>>
-----------------------------------------------------------------------------
(* fql_read, from a table or from the rows of a subquery. *)

FromTable == proc.sub = 0

(* subquery_get_record: the fields that the select of the subquery names; the first
   record of the list has them from then on. *)
SubqueryRecord(s, list) ==
  LET select  == plan.process[proc.sub].selects[s.current[proc.sub]]
      fields  == Fields(s, list, plan.process[proc.sub].sources)
  IN  [s EXCEPT !.refCount[Head(list)] = 1, !.srcIdx[Head(list)] = proc.source,
                !.fields[Head(list)] = [i \in DOMAIN select.columns |-> fields[select.columns[i]]]]

TableRecord(s, r) ==
  [Filled(s, r, proc.source, <<s.pos[at] + 1>>) EXCEPT !.pos[at] = @ + 1]

ReadRecord(b, list) ==
  LET s == Taken(b.s, In0)
  IN  IF FromTable /\ b.s.pos[at] = proc.rows THEN Stop(b, "complete")
      ELSE On(b, Add(IF FromTable THEN TableRecord(s, Head(list)) ELSE SubqueryRecord(s, list),
                     Out, list), Out)

Read ==
  /\ Calls("read")
  /\ \/ ~IsOpen(Out) /\ Return(st, "complete")
     \/ IsOpen(Out) /\ Ended(In0) /\ Return(st, "complete")
     \/ IsOpen(Out) /\ IsEmpty(In0) /\ IsOpen(In0) /\ Return(st, "running")
     \/ IsOpen(Out) /\ ~IsEmpty(In0) /\ ~Room(st, Out) /\ Return(st, "running")
     \/ IsOpen(Out) /\ ~IsEmpty(In0) /\ Room(st, Out) /\ Finish(Batch(st, In0, ReadRecord))

-----------------------------------------------------------------------------
(* fql_cartesian_join: each list of the left with each row of the table. *)

(* _fill_inbuf: whole groups of records, one for the table and one for each source before
   it.  With fewer than a group, fifo_nget copies the whole ring. *)
Fill(s) ==
  LET have == Len(s.pipe[In1])
      base == FifoBaseSize(plan)
      n    == IF have > base THEN base ELSE have
      take == n - (n % proc.sources)
  IN  [s EXCEPT !.inbuf[at] = FlattenSeq(SubSeq(s.pipe[In1], 1, take)),
                !.pipe[In1] = SubSeq(@, take + 1, have)]

Overrun(s) == Len(s.pipe[In1]) \in 1 .. proc.sources - 1

(* One record of the table with the list in front: the last copy is the first in the list. *)
CartesianRecord(b, left) ==
  LET n     == Len(left) + 1
      group == SubSeq(b.s.inbuf[at], 1, n)
      s     == CopiedAll(TableRecord(b.s, group[1]), Tail(group), left)
      list  == Reverse(Tail(group)) \o <<group[1]>>
  IN  On(b, Add([s EXCEPT !.inbuf[at] = SubSeq(@, n + 1, Len(@))], Out, list), Out)

(* The end of the table: it is read again for the next list. *)
CartesianEnd(b, left) ==
  [b EXCEPT !.stop = TRUE,
            !.s = Recycled(Taken([b.s EXCEPT !.pos[at] = 0], In0), left)]

CartesianStep(b, left) ==
  IF b.stop \/ b.s.inbuf[at] = << >> THEN b
  ELSE IF b.s.pos[at] = proc.rows THEN CartesianEnd(b, left)
  ELSE CartesianRecord(b, left)

CartesianJoin ==
  /\ Calls("cartesian_join")
  /\ \/ ~IsOpen(Out) /\ Return(st, "complete")
     \/ IsOpen(Out) /\ IsEmpty(In0) /\ Return(st, IF IsOpen(In0) THEN "running" ELSE "complete")
     \/ /\ IsOpen(Out) /\ ~IsEmpty(In0)
        /\ LET left   == Head(st.pipe[In0])
               filled == IF st.inbuf[at] = << >> THEN Fill(st) ELSE st
           IN  IF st.inbuf[at] = << >> /\ Overrun(st) THEN Return(st, "stuck")
               ELSE Finish(FoldLeft(LAMBDA b, i : CartesianStep(b, left),
                                    [s |-> filled, ret |-> "running", stop |-> FALSE],
                                    filled.inbuf[at]))

-----------------------------------------------------------------------------
(* fql_hash_join: first the right side, of which the row numbers are kept. *)

StoreRecord(b, list) ==
  [b EXCEPT !.s = Recycled([Taken(b.s, In1) EXCEPT !.data[at] = Append(@, Values(b.s, b.s.fields[Head(list)])[1])],
                           list)]

Matches(s, list) ==
  SelectSeq(s.data[at], LAMBDA k : <<Row(s, list, proc)[1], k>> \in proc.matches)

Aux == <<at, 2>>

Unmatched(b, list) ==
  LET s == Taken(b.s, In0)
  IN  IF proc.left THEN On(b, Add(s, Out, list), Out) ELSE On(b, Recycled(s, list), Out)

(* The next match of the list in front.  The last goes out with the list itself, one
   before with copies of it: fifo_get_or_wait, which waits for ever if there is none. *)
Match(b, list, row, last) ==
  LET need  == IF last THEN 1 ELSE 1 + Len(list)
      group == FlattenSeq(SubSeq(b.s.pipe[Aux], 1, need))
      s     == Filled([b.s EXCEPT !.pipe[Aux] = SubSeq(@, need + 1, Len(@))],
                      Head(group), proc.sources - 1, <<row>>)
  IN  IF Len(b.s.pipe[Aux]) < need THEN Stop(b, "stuck")
      ELSE IF last
      THEN On(b, Add(Taken([s EXCEPT !.recs[at] = << >>], In0), Out, Append(list, Head(group))), Out)
      ELSE On(b, Add(CopiedAll([s EXCEPT !.pos[at] = @ + 1], Tail(group), list), Out,
                     Append(Reverse(Tail(group)), Head(group))), Out)

(* recs and rec_idx outlive the call when the output is full between two matches. *)
JoinRecord(b, list) ==
  LET again == b.s.recs[at] # << >>
      rows  == IF again THEN b.s.recs[at] ELSE Matches(b.s, list)
      first == IF again THEN b ELSE [b EXCEPT !.s.recs[at] = rows, !.s.pos[at] = 0]
      Step(c, k) == IF c.stop \/ k <= c.s.pos[at] THEN c
                     ELSE Match(c, list, rows[k], k = Len(rows))
  IN  IF rows = << >> THEN Unmatched(b, list) ELSE FoldLeft(Step, first, [k \in DOMAIN rows |-> k])

HashJoin ==
  /\ Calls("hash_join")
  /\ \/ ~IsOpen(Out) /\ Return(st, "complete")
     \/ /\ IsOpen(Out) /\ ~st.sideLeft[at]
        /\ \/ Ended(In1) /\ Return([st EXCEPT !.sideLeft[at] = TRUE], "running")
           \/ IsEmpty(In1) /\ IsOpen(In1) /\ Return(st, "running")
           \/ ~IsEmpty(In1) /\ Finish(Batch(st, In1, StoreRecord))
     \/ /\ IsOpen(Out) /\ st.sideLeft[at]
        /\ \/ ~Room(st, Out) /\ Return(st, "running")
           \/ Room(st, Out) /\ Ended(In0) /\ Return(st, "complete")
           \/ Room(st, Out) /\ IsEmpty(In0) /\ IsOpen(In0) /\ Return(st, "running")
           \/ Room(st, Out) /\ ~IsEmpty(In0) /\ Finish(Batch(st, In0, JoinRecord))

-----------------------------------------------------------------------------
(* fql_logic, fql_groupby and fql_distinct. *)

LogicRecord(b, list) ==
  LET s == Taken(b.s, In0)
  IN  IF Goes(Row(s, list, proc), proc.matches) THEN On(b, Add(s, Out, list), Out)
      ELSE On(b, Recycled(s, list), Out)

(* The three tests with which a process with one input and one output begins. *)
Filters(One(_, _)) ==
  \/ ~IsOpen(Out) /\ Return(st, "complete")
  \/ IsOpen(Out) /\ Ended(In0) /\ Return(st, "complete")
  \/ IsOpen(Out) /\ IsEmpty(In0) /\ IsOpen(In0) /\ Return(st, "running")
  \/ IsOpen(Out) /\ ~IsEmpty(In0) /\ ~Room(st, Out) /\ Return(st, "running")
  \/ IsOpen(Out) /\ ~IsEmpty(In0) /\ Room(st, Out) /\ Finish(Batch(st, In0, One))

Logic == Calls("logic") /\ Filters(LogicRecord)

(* group_record: a new group, or one row more in an old one. *)
Known(groups, row) == \E k \in DOMAIN groups : groups[k][1] = Key(row)

Grouped(groups, row) ==
  IF Known(groups, row)
    THEN [k \in DOMAIN groups |-> IF groups[k][1] = Key(row) THEN <<Key(row), groups[k][2] + 1>>
                                  ELSE groups[k]]
    ELSE Append(groups, <<Key(row), 1>>)

DistinctRecord(b, list) ==
  LET row == Row(b.s, list, proc)
      s   == [Taken(b.s, In0) EXCEPT !.data[at] = Grouped(@, row)]
  IN  IF Known(b.s.data[at], row) THEN On(b, Recycled(s, list), Out)
      ELSE On(b, Add(s, Out, list), Out)

DistinctRows == Calls("distinct") /\ Filters(DistinctRecord)

GroupRecord(b, list) ==
  [b EXCEPT !.s = Recycled([Taken(b.s, In0) EXCEPT !.data[at] = Grouped(@, Row(b.s, list, proc))],
                           list)]

(* _group_dump writes a group into a record of its own root. *)
DumpRecord(b, list) ==
  LET groups == b.s.data[at]
      k      == b.s.pos[at] + 1
      s      == [Filled(Taken(b.s, In1), Head(list), 0, groups[k]) EXCEPT !.pos[at] = k]
  IN  IF k > Len(groups) THEN Stop(b, "complete") ELSE On(b, Add(s, Out, list), Out)

GroupBy ==
  /\ Calls("groupby")
  /\ \/ ~IsOpen(Out) /\ Return(st, "complete")
     \/ IsOpen(Out) /\ ~Ended(In0) /\ Finish(Batch(st, In0, GroupRecord))
     \/ IsOpen(Out) /\ Ended(In0) /\ ~Room(st, Out) /\ Return(st, "running")
     \/ IsOpen(Out) /\ Ended(In0) /\ Room(st, Out) /\ Finish(Batch(st, In1, DumpRecord))

-----------------------------------------------------------------------------
(* fql_select: rows are written where select__ and the next process want them. *)

CurrentSelect == proc.selects[st.current[at]]

MaxRecsIter == IF plan.stepping THEN 1 ELSE Len(st.pipe[In0]) + 1

Shown(s, row) == IF plan.stepping THEN [s EXCEPT !.api = row] ELSE [s EXCEPT !.shown = Append(@, row)]

WithValue(s, row) == IF plan.value = 0 THEN row ELSE Append(row, s.value)

Write(s, list) ==
  LET fields == Fields(s, list, proc.sources)
      values == Values(s, [i \in DOMAIN CurrentSelect.columns |-> fields[CurrentSelect.columns[i]]])
  IN  CASE proc.kind = "show"     -> Shown(s, WithValue(s, values))
        [] proc.kind = "file"     -> [s EXCEPT !.written[Head(list)] = WithValue(s, values)]
        [] proc.kind = "value"    -> [s EXCEPT !.value = values[1]]
        [] proc.kind = "subquery" -> s

HasOut == Out # NoPipe

SelectRecord(b, list) ==
  LET s == [Write(Taken(b.s, In0), list) EXCEPT !.rows[at] = @ + 1, !.selected[at] = @ + 1]
      t == IF HasOut THEN Add(s, Out, list) ELSE Recycled(s, list)
  IN  IF b.iters >= MaxRecsIter \/ b.s.selected[at] >= CurrentSelect.top THEN Stop(b, "running")
      ELSE [b EXCEPT !.s = t, !.iters = @ + 1, !.stop = HasOut /\ ~Room(t, Out)]

(* No more of this input is wanted, by its end or by TOP. *)
AfterBatch(s) == IF s.selected[at] >= CurrentSelect.top THEN [s EXCEPT !.waitForIn0[at] = FALSE] ELSE s

(* _union_node, which fqlselect_preop sets for the statement and fqlselect_reset for the
   SELECT of a subquery: of one in FROM only when it has been executed before, so that its
   first run shows the first member alone. *)
HasNextUnion ==
  /\ st.current[at] <= Len(proc.unions)
  /\ proc.kind = "subquery" => run > 1

(* fqlselect_next_union *)
NextUnion ==
  [Closed(st, {In0}) EXCEPT !.waitForIn0[at] = TRUE, !.current[at] = @ + 1, !.selected[at] = 0]

Select ==
  /\ Calls("select")
  /\ \/ /\ HasOut /\ ~IsOpen(Out)
        /\ Return(Closed(st, ToSet(proc.unions)), "complete")
     \/ /\ HasOut => IsOpen(Out)
        /\ ~st.waitForIn0[at]
        /\ IF HasOut /\ ~IsEmpty(Out) THEN Return(st, "running")
           ELSE IF HasNextUnion THEN Return(NextUnion, "running")
           ELSE Return(st, "complete")
     \/ /\ HasOut => IsOpen(Out)
        /\ st.waitForIn0[at]
        /\ \/ IsEmpty(In0) /\ IsOpen(In0) /\ Return(st, "running")
           \/ /\ ~(IsEmpty(In0) /\ IsOpen(In0))
              /\ LET s == [st EXCEPT !.waitForIn0[at] = ~IsEmpty(In0)]
                 IN  IF HasOut /\ ~Room(st, Out) THEN Return(s, "running")
                     ELSE Return(AfterBatch(Batch(s, In0, SelectRecord).s), "running")

-----------------------------------------------------------------------------
(* fql_orderby: the entries are kept, sorted at the end and written from there. *)

OrderRecord(b, list) ==
  IF plan.stepping /\ b.iters = 1 THEN Stop(b, "running")
  ELSE [b EXCEPT !.iters = @ + 1,
                 !.s = Recycled([Taken(b.s, In0) EXCEPT !.data[at] = Append(@, b.s.written[Head(list)])],
                                list)]

Descending(rows) == SortSeq(rows, LAMBDA a, b : a[1] > b[1])

Entries == Descending(st.data[at])

(* _order_select writes up to TOP, _order_select_api one. *)
OrderSelect ==
  LET n == IF plan.stepping \/ proc.top > Len(Entries) THEN Len(Entries) ELSE proc.top
  IN  Return([st EXCEPT !.shown = @ \o SubSeq(Entries, 1, n), !.rows[at] = n], "complete")

(* Without rows order_sort returns before it sets entry_iter, which is then followed: the
   call does not return. *)
OrderSelectApi ==
  LET k == st.pos[at] + 1
      s == [Shown(st, Entries[k]) EXCEPT !.pos[at] = k, !.rows[at] = @ + 1]
  IN  IF Entries = << >> THEN Return(st, "stuck")
      ELSE IF k > Len(Entries) THEN Return(st, "complete")
      ELSE Return(s, IF s.rows[at] >= proc.top THEN "complete" ELSE "running")

OrderBy ==
  /\ Calls("orderby")
  /\ \/ Ended(In0) /\ IF plan.stepping THEN OrderSelectApi ELSE OrderSelect
     \/ ~Ended(In0) /\ Finish(Batch(st, In0, OrderRecord))

-----------------------------------------------------------------------------
(* The end of a pass, of fql_step, and of the plan. *)

RowsAffected == st.rows[plan.opTrue]

(* query_prepare and plan_reset before the plan runs again: buffers are recycled, pipes
   emptied and roots filled, but counts and copies are kept, as are the matches a join
   has not sent (hashjoin_reset). *)
Prepared(s) ==
  LET fresh == Activated(plan)
      left  == FoldLeft(LAMBDA t, p : Recycled(t, s.inbuf[p]), s, [p \in Procs |-> p])
  IN  [fresh EXCEPT !.refCount = left.refCount, !.copyOf = left.copyOf, !.fields = s.fields,
                    !.srcIdx = s.srcIdx, !.buffer = s.buffer, !.shown = s.shown, !.recs = s.recs,
                    !.pos = [p \in Procs |-> IF plan.process[p].action = "hash_join" THEN s.pos[p]
                                             ELSE 0]]

PassEnd ==
  /\ at = Len(plan.process) + 1 /\ ~over
  /\ at' = 1 /\ running' = FALSE
  /\ \/ /\ running
        /\ st' = IF plan.stepping /\ RowsAffected # st.before
                 THEN [st EXCEPT !.shown = Append(@, st.api), !.before = RowsAffected] ELSE st
        /\ UNCHANGED <<run, over>>
     \/ ~running /\ run < plan.runs
        /\ st' = Prepared(st) /\ run' = run + 1 /\ UNCHANGED over
     \/ ~running /\ run = plan.runs
        /\ over' = TRUE /\ UNCHANGED <<st, run>>
  /\ UNCHANGED plan

-----------------------------------------------------------------------------
Init ==
  /\ plan \in Plans
  /\ st = Activated(plan)
  /\ at = 1 /\ running = FALSE /\ run = 1 /\ over = FALSE

Call ==
  \/ Read \/ CartesianJoin \/ HashJoin \/ Logic \/ DistinctRows \/ GroupBy \/ Select \/ OrderBy

Done == over /\ UNCHANGED vars

Next == Call \/ Skip \/ PassEnd \/ Done

Spec == Init /\ [][Next]_vars

(* One thread, which goes on while it can: WF_vars(Next), as Next is enabled until then. *)
FairSpec == Spec /\ ([]<>(over \/ at = Stuck) \/ []<><<TRUE>>_vars)

-----------------------------------------------------------------------------
(* Properties. *)

(* The kinds of the variables. *)
TypeOK ==
  /\ at \in 0 .. Len(plan.process) + 1 /\ running \in BOOLEAN /\ over \in BOOLEAN
  /\ run \in 1 .. plan.runs
  /\ \A q \in DOMAIN st.pipe : Len(st.pipe[q]) < st.size[q]
  /\ \A r \in DOMAIN st.refCount : st.refCount[r] > 0
  /\ \A p \in Procs : st.enabled[p] \in BOOLEAN /\ st.current[p] \in 1 .. Len(plan.process[p].selects) + 1

(* "We should never lose records, and if we do, it should cause a problem"
   (fqlplan.c:1026).  A record is in one list of one pipe or buffer, or waits for its
   copies; only the one that did not fit into its root at the start is nowhere. *)
InOnePlace ==
  LET records == DOMAIN st.refCount
      places  == {<<q, FlattenSeq(st.pipe[q])>> : q \in DOMAIN st.pipe}
                   \cup {<<<<p, -1>>, st.inbuf[p]>> : p \in Procs}
      used    == UNION {ToSet(place[2]) : place \in places}
      waiting == {st.copyOf[r] : r \in records}
      spare   == {r \in records : r + Len(st.roots) \notin records}
  IN  /\ MapThenSumSet(LAMBDA place : Len(place[2]), places) = Cardinality(used)
      /\ records \subseteq used \cup waiting \cup spare

(* The statement shows what a SELECT promises. *)
Q == INSTANCE Query WITH answer <- plan.answer, shown <- st.shown
Answers == Q!Spec

(* It ends: every pass makes progress, and no call waits for a record for ever. *)
Ends == <>over

=============================================================================
