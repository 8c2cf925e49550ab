# A verification of fql's execution engine

fql runs SQL over text files. A statement becomes a *plan*: a graph of
processes that pass nodes of records through bounded pipes, either one process
after the other in passes (the default) or with a thread for each (`-t`). This
directory holds TLA+ models of that machinery, the TLC runs that check them on
small instances, and proofs, checked by TLAPS, that hold for every instance.

1. Inventory: the parts of the system, and what could go wrong in them
2. The modules, and how they correspond to the code
3. The runs: what each asks, its bounds, what it shows
4. The theorems, their assumptions and how they are proved
5. What is only model-checked, what is not modelled
6. The plan for what is left

`PROJECT.json` lists all of it in machine-readable form: components, runs,
mutants, the source lines of every definition, findings, hazards, theorems.

## 1. Inventory

Paths are below `src/`. "Owner" names the module that has the part, or *plan*
if section 6 has it.

| Part | Code | State | Operations | Owner |
|---|---|---|---|---|
| Pipe | `util/fifo.c` | ring `buf`, `head`, `tail`, `_iter_head`, `input_count`, `is_open`, two mutexes, two conditions, `shared_mutex_fifo` | add, get, begin/iter/update, look ahead, set_open, wait_for_add, wait_for_add_either, wait_for_add_both, wait_for_get, block transfers | `Fifo`, `FifoEither`, `Passes` |
| Process and thread | `lib/process.c` | action, inputs, outputs, wait list, `is_enabled`, `wait_for_in0`, result counts | activate, enable, disable, one pass, thread loop, join | `Fifo`, `FifoEither`, `Rewrite`, `PlanGraph` (with threads); `Passes` (without) |
| Actions | `lib/fqlprocesses.c` | per action: rows affected, position in a group or a join | read, logic, joins, group, distinct, select, delete, update, order, control flow | `Passes`; `Fifo`, `MatchPipes`, `Rewrite` |
| DELETE, UPDATE | `lib/fqldelete.c`, `lib/fqlupdate.c` | row index, filter state, writer | write the new file, rename it over the table | `Rewrite` |
| Plan | `lib/fqlplan.c`, `util/dgraph.c` | graph of processes, current node, FALSE and TRUE exits | build, clear passive nodes, wire pipes, order, activate | `PlanGraph`; activation and roots in `Passes` |
| Nodes and records | `lib/record.c`, `util/node.c` | records of a root fifo, copies, `ref_count` | recycle, copy, join chains | `Records`; with the pipes in `Passes` |
| Script | `lib/fqlbranch.c`, `lib/query.c`, `lib/libfql.c` | branch state, scopes, stack of queries, indices | lay out IF, ELSE, WHILE, BEGIN; run | `Script` |
| Library calls | `lib/libfql.c` | prepared plans, last plan, query count | make plans, step, exec, reset | exec in `Script`, step in `Passes` |
| Hash map | `util/hashmap.c` | slots, keys, counts | set, get, has, clear, grow, multimap lists | `HashMap` |
| Sorting, grouping | `lib/order.c`, `lib/group.c`, `lib/aggregate*.c` | entries, group map, sums | add, sort, dump | `Passes` |
| SELECT | `lib/fqlselect.c`, `lib/operation.c` | current union, rows selected | write a row, next union | `Passes` |
| Readers, writers | `lib/reader.c`, `lib/writer.c`, `lib/*read.c`, `lib/*write.c`, `lib/subquery.c` | file position | next record, write, reset | `subquery.c` and the positions in `Passes` |
| WHERE logic | `lib/logic.c`, `lib/fqllogic.c`, `lib/like.c` | logic tree | evaluate, match | not modelled |
| Names and types | `lib/schema.c`, `lib/expression.c`, `lib/variable.c` | tables, columns | resolve | not modelled |
| Functions | `lib/function.c`, `lib/scalarfn.c` | none | evaluate | not modelled |
| Command line, parser, containers | `src/fql.c`, `lib/antlr`, `util/*` | | | not modelled, but for the control flow that the listener lays out |

How the parts interact. The plan wires the outputs of a process to the inputs
of the processes behind it and gives every pipe a size and the number of its
inputs. An action is called with its process; it tests its outputs for room,
takes what is in its inputs and adds to its outputs, and returns what it waits
for. In passes nothing runs between two lines of an action. In threads the only
shared things are the pipes, the wait lists of subqueries, and the records: a
record comes from a *root* pipe, and whoever drops it adds it to that root
again. `process_disable` ends a process: it closes its outputs, then closes and
drains its first input, which is how an end travels both ways.

Behaviours that are hard, and what makes each part correct:

* **Pipe.** Indices and flags are read without the mutex that guards writing
  them. Correct if no record is lost, duplicated, overwritten or reordered; if
  an add never finds the ring full, though it tests nothing itself; if nobody
  sleeps through the last wakeup; and if closing from either end ends both
  threads.
* **Wait on two pipes.** A reader sleeps on one condition and leaves a pointer
  in the other pipe, which three code paths clear under different mutexes.
  Correct if an add to either pipe wakes it and no pair of locks blocks.
* **End of input.** "Empty" and "closed" are two reads. Correct if a process
  never takes its last records for none.
* **Rewriting a table.** The rows of the table reach the writer through two
  pipes of which either may be empty, late or ahead. Correct if the new file
  has every row that belongs in it once and in the order of the table: the file
  is renamed over the original, so a mistake is lost data.
* **Recycling.** A record may be shared by several nodes. Correct if it returns
  to its root exactly once, after its last use, and the root always has a
  record for whoever needs one.
* **Plan graph.** Passive nodes are removed, dual links and unions are wired
  specially. Correct if the wired pipes connect the actions as the statement
  says, with room and ends for each.
* **Passes.** Without threads a call handles what its pipes let it, and goes on
  in the next pass: in the middle of the matches of a row, of a table, of a
  group. Correct if the rows shown are those of the statement, in its order, each
  once, by `fql_exec` and row by row by `fql_step`, also when a loop runs the
  statement again; if no record is lost on the way; and if every pass makes
  progress until nothing is left.
* **Script.** The listener has one walk over the text to give each query the
  index of the next, most of which are not known yet. Correct if exactly the
  statements of the taken branches run, in order.
* **Hash map.** A search has no other end than a free slot or its key. Correct if
  it ends, if every stored key is found behind any collisions, and if growing
  keeps what was stored.

The hazards of `PROJECT.json` list these at the line where they bite, with the
properties that cover them; those without a property say where they are planned.

## 2. The modules

```
FifoRing ── Fifo ──(implements)── Pipe          MatchPipes ── Rewrite ── RewriteProofs
              │ │                                                │
              │ MCFifo                                        MCRewrite
            FifoProofs             PlanGraph ── PlanGraphProofs ── PlanRefsProofs
                                      │
                                   MCPlanGraph

FifoEither ── FifoEitherProofs
   │
MCFifoEither

Passes ──(implements)── Query                   Records ── RecordsProofs
   │                                               │
MCPasses                                        MCRecords

HashMap ──(implements)── Dict                   Script ──(implements)── Structured
   │  │                                            │  │
   │  HashMapProofs                                │  ScriptProofs
MCHashMap                                       MCScript
```

**FifoRing** is the index arithmetic of `fifo.c`: advancing, empty, full,
`fifo_available`, `fifo_receivable` with its unsigned subtraction (`% 2^w`,
`Word` standing for 2^32), and `Window`, the entries between `tail` and `head`.

**Pipe** is what a pipe promises: a bounded queue that can be closed.

**Fifo** is one pipe with its threads. A writer is any process whose `fifo_out`
it is, the reader the process whose `fifo_in[0]` it is. Both run the loop of
`_thread_exec`: call, wait for what the call returned, until `process_disable`.
The `pc` of a writer and of the reader (`cpc`) names the place in `fifo.c`,
`process.c` or the action; a step is one access that another thread can see, so
the test for room (`TestRoom`), the lock of `fifo_add`, the write of the slot and
its publication are four steps, and the emptiness and `is_open` tests are two,
in either order (`OpenFirst`: `fql_groupby` and `fql_orderby` test `is_open`
first, all others last). Condition variables are the `asleep` place, which a
signal, a broadcast or a spurious wakeup leaves through the mutex. `buf`, `head`,
`tail`, `iterHead`, `isOpen` and the mutexes are the fields of the struct;
`sent`, `handled`, `processed` are history.
Abstracted: what a record is; a batch that ends early because the reader's own
output is full is a choice (`Iter`), and so is that output being closed
(`CanStop`); the wait on that other pipe takes some time and ends. `head`, `tail`
and `is_open` are `_Atomic`, so an access is one step; functions that read head
and then tail read them in one step, which with a single writer and a single
reader gives no fewer outcomes, since each caller owns one of the two.

**FifoEither** is the wait of a reader on two pipes that one thread writes
(`fifo_wait_for_add_either`, `_fifo_signal_shared`, the `shared_mutex_fifo` part
of `fifo_set_open`). Rings are counters here, as `Fifo` has shown them to be
queues; tail mutexes are left out, since nobody waits for room in it. A NULL
pointer followed is the place `crashed`.

**MatchPipes** is the pair of pipes in front of a DELETE or UPDATE and the
process that fills them: `fql_logic` on a table (`"where"`), `fql_hash_join`
(`"hash"`), or `fql_logic` on the records of a LEFT hash join or of a cartesian
join (`"join_where"`). The first gives one entry for a row, the second one FALSE
entry or one TRUE entry for each match, the third one for each record of a row, to
either pipe. Which rows match is a choice; `mixed` is history, the rows with
several entries of which one is FALSE. **Rewrite** adds the process that reads them: `fql_update`,
`fql_delete_filter` or `fql_update_filter`, one action per function and branch
(`OpenFalse`/`OpenTrue` are `_del_open` and `_update_open`, `Filter*` are
`_del_filtering` and `_update_filtering`, `Pass*` the passthrough functions,
`Begin*`/`Merge*`/`End*` the two loops of `fql_update`, `Call*` the tests with
which each call begins). The delete and the update filter are the same code but
for what a matched row writes, which is what `WriteMatched` says. `threaded`
selects whether the producer may run inside a call; in passes it may not. The
opening branch recycles the record of a matched row before it reads the row's index
from it; in threads the record may be filled again in between, so the index is any
row's (`RecycledIdx`).

**PlanGraph** is how a statement becomes the graph that the other modules run a
part of. A statement is a record of its clauses; what the clauses compute is left
out. `_build` is recursive, so the plans that are being built are a stack, and
each clause is an action: `BuildConst`, `Construct`, `FromTable` to
`CartesianJoin` (one per branch of `_from`), `Where`, `Group`, `Having`,
`Operation` with the `apply_process` function of the operation, `BuildUnion` and
`UnionConsumed`, `Order`, `Disable`, `ConsumeConst` for each value, `Finish`.
`_clear_passive` is `Relink`, one round of its loops in a step, then `Clear`, which
frees the passive nodes, and `Roots`. `Queries` are the statements that may be
planned, `Nested` the queries in them at any depth; all that is assumed of both is
that they are well-formed (`QueriesAssumption`). A `node` is a `dnode` and its
process in one record; a node that `_clear_passive` frees stays in `node` with
`freed` set, so that a pointer to it can be seen. Then `Activate` (the pipes that
exist, `<<n, 0>>` and `<<n, 1>>` for the inputs of `n`, `<<n, 2>>` for the end of a
union member), `MakePipes`, and the traversal, one `Visit` per process, twice:
for `UpdatePipes` and for the execution order. `stages` is history: the processes
a row is meant to pass, in the order of the clauses. Left out: sizes of pipes
and roots, and `select->is_const`, which activation sets again.

**Passes** is a whole SELECT without threads. A plan is a sequence of processes in
execution order with the pipe each writes to, wired as `PlanGraph` wires them; a
step is one call of `_exec_one_pass`, which nothing interrupts: `Read`,
`CartesianJoin`, `HashJoin`, `Logic`, `DistinctRows`, `GroupBy`, `Select` and
`OrderBy` are the actions of `fqlprocesses.c` with their loops, `Skip` a process that is
not enabled or waits, `PassEnd` the end of `process_step` and of the plan. `st`
holds the pipes and their sizes, the records of the roots with `refCount`,
`copyOf`, fields and buffers, and what each process keeps between two calls.
`Activated` is `_activate_procs` with `plan_pipeline_root_preempt`, `Disabled` is
`process_disable` with its draining, `Prepared` what a second run of the plan
finds. The fields of a record are pairs of the record that owns the buffer and a position, so
a row shows what the buffer holds when it is written, not when it was read. A
`fifo_get_or_wait` on an empty root, and a `fifo_nget` on less than a block, are
`Stuck`. Lists of records are sequences, rows are numbers, a condition is a set of
pairs. **Query** is the abstract specification: the rows of a statement from its
clauses, shown one after the other. **MCPasses** builds plans from clauses as
`_build` does, and asks Query for the answer of the same clauses.

**Records** is the reference counting of `record_copy` and `fqlprocess_recycle` alone,
with any order of calls and with one action for each access to a count, so that
two callers can be seen to disturb each other.

**HashMap** is `hashmap.c` with its slots: `PutNew` and `PutKnown` with the search
(`FirstOf`), `Grow` and `Rehash`, which moves one entry in a step, `Get` and `Clear`. The
hash function and the normal form of a key (case, trailing blanks) are parameters. **Dict** is a function from keys to what was stored.

**Script** is the listener's callbacks for control flow (`listenerinterface.cpp`
calls `query_enter_*`, `query_exit_*`, `query_init_op`), the patching of indices
in `query.c` and `fqlbranch.c`, and `fql_exec_plans` with `fql_if`. A walker of the
tree (external: the generated parser) opens and closes constructs; an assertion
that fails or a NULL that is followed ends in `"crashed"`. **Structured** is the
abstract specification: what runs next follows from the nesting of the text.

## 3. The runs

| Run | Expect | Instance | Question |
|---|---|---|---|
| `groupby` | pass | ring of 3 slots, 1 kept back, 5 records, 1 spurious wakeup, `OpenFirst` | Does the fifo implement `Pipe`, lose no record, no wakeup, process every record, and end? |
| `stop` | pass | the same, emptiness first, reader may stop early | Do closing and draining from the reading side wake a writer that waits for room, and end both? |
| `end_of_input` | violation of `AllProcessed` | 2 records, emptiness first | Can a reader that tests emptiness first lose the last records? |
| `either` | pass | 4 records in two pipes, 1 spurious wakeup | Is a wakeup lost by a reader of two pipes; what can block it? |
| `rewrite` | pass | 4 rows, up to 2 entries for a row, pipes of 3 entries, all three handlers, filters behind hash joins and behind joins with WHERE, with and without threads | Does the new table have each row once, as it should be, in order; is a row stuck or a NULL entry followed; does it end? |
| `plan` | pass | some 1000 statements: up to two sources, two union members, one value | Does every pipe have one writer, a row pass every clause and reach the right input; is every process alive, in the execution order and free of circular waits? |
| `plan_rewrite` | violation of `Routed` | the UPDATE of `usage.md` | Do the rows that DELETE or UPDATE leaves alone reach the new table behind any join? |
| `passes` | pass | 30 shapes of SELECT, by `fql_exec` and `fql_step`, once and twice | Does a plan show the rows of its statement, keep its records, and end? |
| `passes_cartesian` | violation of `InOnePlace` | tables of 6, 8 and 2 rows | Are records lost when a second cartesian join holds up the first? |
| `records` | pass | 5 records, one caller | Does a record return to its root after its last use and not before? |
| `map` | pass | 5 spellings of 4 keys that collide, first sizes 1 and 2, 5 stores, sets, maps and multimaps | Does the table implement a map, find every key, and can a search go on for ever? |
| `script` | pass | every script of up to 6 statements, nested up to 8 constructs | Do the laid-out queries run as the text is structured; does a script without a loop end? |

**Bounds.** In the fifo runs 3 slots make empty, one entry, full and the
wrapping of both indices happen; 5 records are more than go round the ring once,
so every index is reused. `Word` = 16 is larger than any difference of indices
and makes the wrap of the unsigned subtraction visible. One spurious wakeup is
enough to meet every state with a wakeup that has no cause; the wake theorems
show that more change nothing. In `rewrite`, 3 entries in a pipe make the
producer stop at a full pipe while the other is empty; 4 rows make a filter
decide a row, look ahead past a second and still have a row to come, with a match
before, between and behind rows without one. Two entries are enough for a mixed row;
the theorems about `Rewrite` are for any number of rows and entries.
The bounds are `MaxRecs`, `MaxSpurious`, `Rows`, `MaxEntries` and `Capacity`; below,
`MaxPuts`, `MaxQueries`, `MaxDepth` and the sets `Plans` and `Records`.
In `plan` each clause is built by an action that looks at the current node and
its branches only, so two sources show every pair of a clause and its
predecessor, and two union members or a value in one show every order of
consuming; `MCPlanGraph` names the sets. It leaves out four shapes, each of which
violates a property: those of `plan_rewrite`, a union member with WHERE
(`NoDangling`), WHERE with GROUP BY and without FROM (`AllScheduled`: the WHERE is not called), a member of a union
without FROM that has GROUP BY or DISTINCT (`Routed`: its end is wired to the
passive process behind it); and it has no ORDER BY in a subquery of FROM
(`OneWriter`), no value in the columns of a union member (`Awaited`) and none
in a source of a DELETE (`NoDangling`) or of an UPDATE.
Every source but the first comes from `JOIN ... ON`: `CROSS JOIN` is refused, and
of a source after a comma `_from` reads the condition (`fqlplan.c:372`) before it
asks whether there is one (`:444`), so there is no graph to model.

In `passes` the pipe factor is 2, the smallest that `fql_set_pipe_factor` leaves and the one of
the tests; the default is 16. So 30 rows fill pipes and empty roots several
times, and 40 matches of one row do not fit into a pipe. Every clause occurs
alone and next to those that hand it differently made records; two runs show
what a loop finds of the first. It leaves out shapes that fail: three tables joined without a hash join
that are large enough to fill a pipe (`passes_cartesian`), and those under "What the
violations show", a UNION in a subquery of FROM and `fql_step` over ORDER BY of no rows
among them. In `records` the 5 records are two sources and three copies or one and four.
In `map` the keys share a home, wrap at the end of the table, and the table doubles up
to four times. In `script` 6 statements hold an IF with ELSE IF and ELSE around a
WHILE, and everything smaller; a statement sees the constructs around it and
the one before.

**Deadlock** is checked in every passing run but `either`, where the lock cycle
of `_fifo_signal_shared` is a deadlock and `EndsOrKnownStop` says there is no
other; and `plan` and `script`, which end. In `passes` a plan that is over
stutters, so the deadlock that is checked for is `Stuck`, a call that waits for ever.

**Fairness.** `FairSpec` of the fifo modules is weak fairness of each thread:
the operating system runs a thread that can run, and a thread that keeps asking
for a free mutex gets it. Spurious wakeups get none. `Rewrite` has weak
fairness of the handler and strong fairness of the producer, for in passes the
producer can run only between two calls, and every pass calls it.

`PlanGraph`, `Script` and `Passes` are one thread, with weak fairness: the
program goes on. In `Script` it is of `Exec` only, for nothing makes the text of a
script end. In `Passes` it is written out (a step is taken again and again, or the
plan is over), because TLC evaluates the ENABLED of the large steps slowly.

**What the passing runs show.** One pipe, with one writer, is right: the tests
made without a mutex suffice, because the writer's view of the room can only be
too small and the reader's view of the records only too small. The wait on two
pipes loses no wakeup. The merge of `fql_update` keeps the order of the table,
with and without threads. Without threads the filters behind a hash join write every
row once and in order, and behind a join with WHERE every row at least once and in
order, and once unless it is mixed. In a thread the filters never write a row that is
not mixed as what it is not, and the delete filter never twice.
Without threads the counts of records are right with one join, plans run in
passes show the rows of their statements in order, in both ways of running them and
again, and every pass makes progress. A script of a supported form runs as its
text says; `Structured!Supported` is what the layout needs of a text. The hash map is
a map. `OneWriter` of `plan` is what the
theorems about one pipe assume: outside root pipes, no pipe of a plan has two
writers.

**What the violations show.** Three disagreements between the code and what it
says of itself; `findings` in `PROJECT.json` has each with its lines.

* `end_of_input`: `if (fifo_is_empty(in)) { if (!in->is_open)` reads the two in
  an order that lets the producer add its last records and close in between.
  The records are recycled by `process_disable`. With DELETE and UPDATE they
  are rows missing in the table. `AllWritten` therefore speaks of calls that
  are not interrupted.
* `plan_rewrite`: behind an inner join with WHERE the hash join has no FALSE
  output and recycles what does not match; the new file does not have those rows.
* `passes_cartesian`: `fql_cartesian_join` adds before it tests for room; a ring
  that was full counts as empty after the add, and all its lists are lost. It
  happens when what is behind takes less in a pass than the join adds: a second
  cartesian join, which takes one list.

The models met more places that fail. They have no run of their own, for no text
in the repository says of them what the code does not do, or one of the runs above
shows the same; the passing runs leave them out, and
the hazards of `PROJECT.json` have their lines.

* *Threads.* `_fifo_signal_shared` takes the second head mutex while it holds the
  first, the reader takes them the other way round (`fifo.c:415`). `fifo_set_open` tests
  `shared_mutex_fifo` and reads it again three times (`fifo.c:82-84`); the reader can
  clear it (`fifo.c:386`) before the first (`CloseFollow`), or while the writer waits
  for the lock of line 82 (`CloseWake`), and NULL is followed
  (`EndsOrKnownStop` admits `Crashed` for this reason). With `CanStop` a writer in the
  middle of a batch adds to a pipe that has been closed and drained. With two
  writers and one slot kept back for each, both can see the same last slot;
  `fifo_receivable` then wraps. Two callers of `fqlprocess_recycle` read and lower
  the same count in separate steps, and `NotOverwritten` and `NeverLost` fail. The room tests of
  `fql_left_join_logic` read `!out_true && ...` and never fire
  (`fqlprocesses.c:660`).
* *Rewriting.* Behind a join with WHERE (a LEFT hash join or a cartesian join) the
  records of one row are spread over both pipes, or several of them are in `in_false`.
  The look-ahead (`fqlprocesses.c:1024`, `:1242`) takes one entry to be the whole row
  and goes on with the old index, so without threads too such a mixed row is written
  twice: `WrittenOnce` leaves out mixed rows, and only those. The look-ahead of
  `_update_filtering` also writes unmatched rows past a
  matched row that has arrived since it looked at `in_true`: with threads an
  UPDATE behind a join can change the order of the table, and write a row again. The
  filters read the index of a matched row from a record that is back in its root
  (`fqlprocesses.c:1066`, `:1284`); with threads it may be a later row's by then, and
  the rows before that are dropped. So `WrittenInOrder`, and the part of `WrittenOnce`
  that no row is written twice, leave out the update filter in a thread (`Racing`), and
  neither `WrittenInOrder` nor `AllWritten` says that a filter in a thread drops no row.
* *Plans.* `_operation` does not stop at the process before the select if that is
  passive, as it is after WHERE in a union member, and the select is freed under
  the union (`fqlplan.c:579`). `_disable_stranded_roots` takes the select of a value
  for stranded, as it has no output: of `DELETE ... JOIN (SELECT (SELECT 1) ...)` it
  frees the select for which a process of the subquery waits (`fqlplan.c:655`).
* *Records.* A copy of a copy counts the copy, not the record that has the
  buffer (`record.c:65`). `subquery_get_record` sets the count of a record to 1 while
  copies in the pipe show it (`subquery.c:42`): a hash join with several matches in a
  subquery in FROM shows wrong rows, as 24 rows with 3 matches each do. Above such a
  subquery `record_at` finds an inner record of the same `src_idx`.
* *Passes.* `hashjoin_reset` keeps the matches of a join that TOP cut off
  (`table.c:141`). `_order_select_api` does not test TOP before the first row
  (`order.c:325`), and follows an iterator that is not set if there are no rows
  (`order.c:406`, `:314`): in the model the call does not return. The select of a
  subquery in FROM gets its `_union_node` only when it is reset, which is before its
  second run (`fqlselect.c:317`, `table.c:84`): in the first the members of its UNION
  after the first are not shown (`Answers`), and if the rows of one do not fit into its
  pipe their reader waits for ever (`Ends`). Behind a LEFT hash join the lists have two lengths, and a
  cartesian join takes one record too few or too many from its buffer
  (`fqlprocesses.c:321`). `fql_set_pipe_factor` clamps what it checks and
  stores what it was given (`libfql.c:362`).
* *Scripts.* The end of a block after ELSE sends the false branch behind the block,
  so it never runs (`query.c:197`). `Structured!Supported` names this and the
  other forms that do not run as they read: a branch at the end of a loop, a branch
  at the end of the THEN of an IF with ELSE, a loop or a subquery as ELSE, a block
  in a block, an empty block.

Each property of a passing run has a *mutant* in `PROJECT.json`: a definition
`<Name>...` beside the original with a plausible bug (a signal left out, a test
left out, an index one off), under which TLC finds the property violated.

## 4. The theorems

All are of the form `Spec => []P` or `Spec => [][A]_vars`, for every value of the
constants that the named assumptions admit.

| Theorem | Property | Assumes |
|---|---|---|
| `FifoProofs!TypeCorrect` | `TypeOK` | - |
| `FifoProofs!RoomCorrect` | `RoomToAdd` | one writer that tests for room |
| `FifoProofs!WakeCorrect` | `NoLostWakeup` | one writer |
| `FifoProofs!BacklogCorrect` | `RingIsBacklog` | one writer that tests for room |
| `FifoProofs!PipeCorrect` | `PipeSpec` (Fifo implements Pipe) | one writer that tests for room |
| `FifoProofs!EndCorrect` | `AllProcessed` | also `OpenFirst`, `~CanStop` |
| `FifoEitherProofs!EitherTypeCorrect` | `TypeOK` of FifoEither | - |
| `FifoEitherProofs!EitherWakeCorrect` | `NoLostWakeup` of FifoEither | - |
| `HashMapProofs!MapTypeCorrect` | `TypeOK` of HashMap | - |
| `HashMapProofs!ProbeCorrect` | `ProbeEnds` | - |
| `HashMapProofs!FindCorrect` | `Findable` | - |
| `HashMapProofs!DictCorrect` | `DictSpec` (HashMap implements Dict) | - |
| `RecordsProofs!RecordTypeCorrect` | `TypeOK` of Records | one caller, no copies of copies |
| `RecordsProofs!BufferCorrect` | `NotOverwritten` | one caller, no copies of copies |
| `RecordsProofs!NoneLost` | `NeverLost` | one caller, no copies of copies |
| `RewriteProofs!TypeCorrect` | `TypeOK` of Rewrite | - |
| `RewriteProofs!WritesOnce` | `WrittenOnce` | - |
| `RewriteProofs!WritesInOrder` | `WrittenInOrder` | - |
| `RewriteProofs!WritesAll` | `AllWritten` | - |
| `RewriteProofs!FrontKept` | `EntryAtFront` | - |
| `RewriteProofs!NeverStarved` | `NextRowInFront` | - |
| `PlanGraphProofs!TypeCorrect` | `TypeOK` of PlanGraph | `QueriesAssumption` |
| `PlanGraphProofs!EdgesInvariant` | `EdgesInv` | `QueriesAssumption` |
| `PlanGraphProofs!EdgesStayInside` | the part of `NoDangling` about edges | `QueriesAssumption` |
| `PlanGraphProofs!EveryProcessScheduled` | `AllScheduled` | `QueriesAssumption`; of the graph, `Reachable` |
| `PlanRefsProofs!RefsInvariant` | `RefsInv` | `QueriesAssumption`, `Supported` |
| `PlanRefsProofs!NothingDangles` | `NoDangling` | `QueriesAssumption`, `Supported` |
| `ScriptProofs!ScriptInvariant` | `ScriptInv` | - |
| `ScriptProofs!TypeCorrect` | `TypeOK` of Script | - |
| `ScriptProofs!RunsForward` | a script without a loop never goes back | - |

Together they say that the pipe of a plan with one writer is a queue, for every
ring size, number of slots kept back, number of records and of spurious wakeups;
that the hash map is a map, for every hash function and set of keys; and that
without threads the counts of records are right, in whatever order a plan with
one join takes and drops them. The assumption `OneCaller` of the last is what the code
needs: each of its two parts fails without it, as section 3 says. That a subquery
sets a count itself is not in `Records`.

For the rewriting of a table they say, for every number of rows, of entries of a row
and every size of the pipes: an UPDATE of one table loses no row, doubles none and
keeps the order of the table, with and without threads (but for the end of the input,
see `end_of_input`); a DELETE or UPDATE behind any join does so without threads, except
that a mixed row may be written more than once, of which a hash join without WHERE sends
none; and with threads a DELETE behind any join at least doubles no row that is not
mixed, keeps the order and, as does an UPDATE, writes what is not mixed as what it is.
The properties name what they leave out (`mixed`, `Racing`), so the theorems have no
assumption of their own. For scripts they say that the layout of any script, of a supported form
or not, has indexes, scopes and a stack that refer to what exists, and that the
program only goes forward in it if there is no loop: TLC sees 6 statements, the
theorem any number at any depth.

For plans they say that `_build` keeps its graph, its plans and its stack in shape
for every statement, of any number of sources, unions and values nested to any
depth, in the shapes that section 3 leaves out too; that whatever `_clear_passive`
frees, in the plan or in those it consumed, no edge of what is to run leads to it,
or to anything else outside the graph; and that `dgraph_traverse` finds every process
of a graph that is `Reachable`: it has a root, and every process can be reached from
one. That is also when it can be found at all, and the theorem puts no other
condition on the graph, so cycles, several roots and processes with several ways in
are covered. The graphs of the run `plan` are all reachable; that of WHERE and GROUP
BY without FROM is not (section 3), and its WHERE is not called.
The other part of `NoDangling`, about wait lists and the ends of a union, is false for
some statements (section 3), and `PlanGraph!Supported` says for which it is true.
Three of its conditions are what the grammar has anyway: a subquery is a SELECT, a
member of a union has no ORDER BY of its own, and a DELETE no union. Two leave out the
shapes in which `_build` loses a reference: a member that reads something has to end in
the read of its only source, GROUP BY or DISTINCT, not in a join, WHERE or HAVING, and
the subqueries a DELETE reads from have no values and no unions. The
theorem `NothingDangles` is about all that is left, of any number of sources, joins,
members and values, nested to any depth; the statements of both runs are `Supported`,
which TLC evaluates (`MCSupported`).

How they go. `FifoProofs` begins with the arithmetic: what advancing `head` or
`tail` does to `Available`, `Receivable` and `Window`. The invariants are not
inductive as they stand; each module names what has to be added:

* `TypeInv` is `TypeOK` and `Unfinished`: a writer inside `fifo_add` still has a
  record to write, without which `made` could leave its range.
* `RoomInv` adds `Reserve`, the free slots a writer past its test can count on
  (the reader only makes more), and `BatchInRing`: the rest of the reader's batch
  lies between `tail` and `head`, so that `Iter` never passes `head`.
* `WakeInv` adds who holds which mutex at which place (`Mutexes`), what is known
  of the pipe while a close is under way (`Closing`), that the drain of a stopped
  reader ends in a wakeup (`Drained`), and for each place between a test and the
  sleep that follows it what the test still says (`Sleepers`): the mutex keeps
  the other side from publishing in between.
* `BacklogInv` adds where the record is that is stored but not published
  (`Stored`) and the one taken but still in its slot (`TakenInHand`).
* `EndInv` adds that after a close there is nothing left to be written
  (`ClosedIsFinal`) and that the count of processed records is that of the
  handled ones until the reader ends (`Running`, `Ended`).
* `EitherInv` is `TypeOK`, the mutexes, the count of records and the situation of
  the sleeper at each place.

* `MapInv`: entries refer to keys and values that exist (`WellFormed`) and differ
  in both (`Apart`); between the home of an entry and the entry no slot is free
  (`Reachable`), which is why a search may stop at a free slot; while the table
  grows, the new one holds what was moved from the old one, once each
  (`Copied`); and the number of used slots is bounded by the count that makes
  the table grow (`Room`), so a slot is always free. That adding keeps `Reachable`
  rests on `FirstIs`: the first slot of a set from a home has none of the set
  before it.
* `Inv` of Records: a count is the number of the copies of a record, and one more
  until the record itself was recycled (`Counted`); one that was recycled
  itself has a copy left (`Parked`); a source is no copy and not free (`Sources`);
  a record that is no copy shows its own buffer (`Own`); and what `Pop` read of
  the count is still true when it is acted on (`Steps`), which is where one caller
  is needed.

* `RewriteInv`: what the producer has sent is sorted by pipe and ascends in each
  (`Sorted`); what a call has seen of its inputs is still so where no thread can
  add to them (`Called`). For `fql_update` (`Merged`) the file is exactly the rows
  before `update_idx` and the pipes exactly the rows from there to the last one
  sent, which gives the order of the merge and why the next row is in front of
  one of the pipes. For a filter (`FilterInv`) there are three parts. `Placed`: the
  places it can be at in each state, and the entries it counts on there, which is
  `EntryAtFront`. `Listed`: an entry in the FALSE pipe of a row that is written is of
  a mixed row, what is still in the pipes comes behind what is written, and without
  threads a row that belongs in the file is there or in a pipe. `Decided`, without
  threads: the row that is passed over is decided and comes before the others
  (`PassingThrough`), and an entry of a matched row that is written can only be of that
  row (`Again`), so it is recycled and not written again. `WrittenOnce` needs the first
  and the last, `WrittenInOrder` the second, `AllWritten` the third of what `Listed` says.
* `ScriptInv`: the parts of the layout have their kinds (`Kinded`), every index
  is in range (`Indexed`), leads on if there is no loop (`Forward`), scopes lie
  in earlier ones (`Parented`), the stack holds queries (`Listed`). That the
  index of a branch can be set at its end needs the shape of the stack while the
  text is read (`Parsing`): the branches the walker is in are what is on the
  stack, from the inside (`Stacked`), below the query of the statement it is
  at; each comes after the one around it (`Climbing`) and is the IF or WHILE it
  is taken for (`Active`); and the queries are the statements in the order of
  the text (`Numbered`). A block gives away the query that was made for it, and
  the query after a block is not popped: `Leaf` says when the top of the stack
  is that of the statement.

* `PlanInv`: nodes and plans have their types, for the number of nodes there are
  (`NodeOf`, `PlanOf`); the stack descends, and what is on it is what has not been
  built (`Waiting`); and what a plan refers to, the plan of a subquery or of a value,
  was made after it, while it has its `op_true` from the moment on at which another
  plan can ask for it (`PlanOK`). So a plan that is asked for its graph has one. Each
  operator on the graph being built has a lemma of the form `From(t, s, K, d)`:
  it makes `d` nodes more of the same statement. That the recursive function
  `Kept` returns a part of its sequence is proved by the least counterexample.
* `EdgesInv` is what `PlanInv` does not need: the plans form a tree (`Tree`), the
  graphs of those alive are disjoint (`Disjoint`), and every node of one is its own
  (`Homed`), so that what happens in a plan cannot disturb another. Of a finished plan,
  every edge leads into its graph or to its `entry`, and nothing in it is freed
  (`Within`). The entry is a process of a plan that waits for it (`Handed`), and while
  the subquery is built it is not passive (`Entered`), for what is passive
  `_clear_passive` would free under the subquery's last process. The nodes a
  plan has a name for are its own (`Owned`). While its clauses are built its
  `op_true` and `op_false` are in its graph (`LaidIn`); and while passive processes
  are cut out one by one, those already passed are led to by nobody (`PassedIn`),
  which is why all can be freed in the end. Each clause has a lemma of the form
  `Fits(t, s, K, c)`: its result is a graph of the same kind, and it `Grown` from
  `s`.
* `RefsInv` is about what a node refers to other than by an edge, its wait list and the
  ends of the members of a union. What it refers to is `Fixed`: not passive, of a plan
  that is finished, and no `op_true` that `UnionConsumed` makes passive. So no step of
  another plan frees it or moves it. It lies in the graph of the plan or in one that the
  plan will still take in (`Ahead`), which at the end is the graph alone; of a DELETE,
  and of a query without values, it refers to nothing in its own graph until the end
  (`Bare`), which is why `_disable_stranded_roots` frees nothing that is waited for.
  A plan that ends in the last process before its select has one that is
  not passive (`InClauses`, `InEnd`): that is where `Supported` is needed. `Calling`
  relates a plan to those it waits for, `KindOf` a plan to its query; `SelfMade` says that
  the plan of a query that reads nothing is made of its own processes only, so
  `MarkRootsConst` finds it constant, and `UnionConsumed` then leaves its `op_true`
  alone. A clause has a lemma `Grows`, a rewriting of nodes one `Turned`, the freeing of
  passive ones `Keeps`: each says what an operator may do to the references of nodes that
  were there, and `AfterRefs` or `ClauseRefs` derive `RefsInv'`.
* `TraversalInv`: until a traversal ends, what a visited process leads to has been
  visited or is in the queue, and so has every root before `rootIdx`
  (`Travelling`). When the queue is empty and no root is left, the processes visited
  contain the roots and what they lead to, which by `Connected` is the graph;
  `EdgesInv` gives the half of `Connected` that no edge leads out. The
  first traversal leaves an input count above zero, the second the order.

Each theorem then has the same three parts: the initial states satisfy the
invariant, every action keeps it (one step per action), and it implies the
property. The refinement theorem maps the initial state to the initial state of
`Pipe`, `AddPublish` to `Put`, `Iter` to `Take`, the two closes to `Close`, and
shows that every other action leaves the mapped variables alone. That of the hash
map maps the table to `Contents`, a function from the keys kept to what their
entries refer to, shows that `Rehash` and `Grow` leave it alone, and that `PutNew` and
`PutKnown` merge into it.

## 5. Only model-checked, and not modelled

Only model-checked: `Termination`, `EndsOrKnownStop` and the two `Ends`, which are
liveness under fairness and out of the prover's reach; `FollowsScript`, whose
abstract side follows the text by the nesting of constructs, a recursion over
data; of `PlanGraph`, `OneWriter`, `Routed`, `NoWaitCycle` and `Awaited`, which
hold for the statements the run names and, as section 3 says, not for all; `Passes`, `Query` and `Structured`, which
are built on recursive functions and folds over data: without the induction theorems
each would need an argument by least counterexample of its own, as `Kept` has.

Not modelled: column values, expressions, conditions and names (data to the
machinery above); LIKE and the scalar functions, which are pure and tested by
value; the resolution of names in `schema.c`; files and the rename at the end of a
DELETE; the terminal, options and signals; memory management of the
containers. The largest part of the source, `lib/antlr/gen` (48000 lines), is
generated by ANTLR from a grammar and has no behaviour of fql's own. The rest of
`listenerinterface.cpp` hands names and expressions on to the objects of a query.

Of the modelled parts: several writers of one pipe in threads; the wait on both
pipes; the sleep of a process with a wait list (`process.c:362`) in threads; in
`Passes`, constant selects, HAVING, `fql_left_join_logic`, IN lists, DELETE and
UPDATE, which `Rewrite` has; `fql_exec_until_select`; errors. `fifo_nadd` and the
try variants of `fifo.c` have no caller. BREAK and CONTINUE are not implemented by
the listener (`listenerinterface.cpp:1111`), nor is removal from a hash map.

## 6. What could follow

1. `Reachable`, the condition of `EveryProcessScheduled`, as a theorem: cutting out a
   passive process keeps a way from a root to each of those that remain. And
   `NoWaitCycle`, for which `RefsInv` says where the wait lists lead.
2. Wait lists in threads: the signal of `process_disable`, which is sent once for each
   subquery, against the sleep in `_thread_exec`.
3. HAVING and constant selects in `Passes`, and `fql_left_join_logic` once its
   tests for room fire.
4. Records with several callers, if the counts become atomic: the theorem then
   should hold without `OneCaller`'s first part.
