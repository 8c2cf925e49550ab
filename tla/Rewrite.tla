------------------------------ MODULE Rewrite ------------------------------
(***************************************************************************)
(* How DELETE and UPDATE write a table anew: fql_update (one table with    *)
(* WHERE), fql_delete_filter and fql_update_filter (the left table of a    *)
(* join) of lib/fqlprocesses.c.  A row arrives through the TRUE pipe if it *)
(* matched and through the FALSE pipe if it did not.  From a hash join it  *)
(* may arrive several times through the TRUE pipe, from a join with WHERE  *)
(* several times through both.  Each row is to be written once, in the     *)
(* order of the table; a DELETE writes none that matched.                  *)
(*                                                                         *)
(* A call goes through the steps below; a step ends where the code reads   *)
(* again what the thread of the producer may have changed in between.      *)
(* Entries that a loop recycles one by one go in one step: only the        *)
(* producer sees them go, as room.  Waiting on the two inputs              *)
(* (WAIT_ON_IN_EITHER) is a call that finds nothing to do; module          *)
(* FifoEither has the wait.                                                *)
(***************************************************************************)
EXTENDS MatchPipes

CONSTANT Joins  (* the kinds of join behind the filters *)

ASSUME RewriteAssumption == Joins \subseteq {"hash", "join_where"}

Filters  == {"fql_delete_filter", "fql_update_filter"}
Handlers == Filters \cup {"fql_update"}

VARIABLES
  handler,    (* the action of the process                                 *)
  threaded,   (* a thread per process; otherwise _exec_one_pass calls them *)
              (* in turn and no call is interrupted                        *)
  pc,
  state,      (* FILTER_OPEN, FILTER_FILTERING, FILTER_PASSTHROUGH         *)
  idx,        (* delete_idx, update_idx: the row a filter is at; for       *)
              (* fql_update the row to be written next                     *)
  falseSeen,  (* _del_open: false_node is not NULL                         *)
              (* _del_passthrough: false_done                              *)
  batch,      (* entries before fifo_end of the pipe that is read          *)
  written     (* history: the rows written, in order                       *)

program == <<handler, threaded>>
local   == <<state, idx, falseSeen, batch>>
vars    == <<pipes, producer, program, pc, local, written>>

Init ==
  /\ PipesInit
  /\ handler \in Handlers /\ threaded \in BOOLEAN
  /\ source \in IF handler = "fql_update" THEN {"where"} ELSE Joins
  /\ pc = "call" /\ state = "open" /\ idx = 0 /\ falseSeen = FALSE /\ batch = 0
  /\ written = << >>

Goto(from, to) == pc = from /\ pc' = to

(* undelete__ and noupdate__ write the row as it was, update__ writes it changed; a
   DELETE writes nothing of a row that matched. *)
WriteUnmatched(r) == Append(written, [row |-> r, matched |-> FALSE])

WriteMatched(r) == IF handler = "fql_delete_filter" THEN written
                   ELSE Append(written, [row |-> r, matched |-> TRUE])

(***************************************************************************)
(* Every call: are both inputs empty, and closed?                          *)
(***************************************************************************)

Begin == IF handler = "fql_update" THEN "begin_false" ELSE state

(* Mutant: only in_false is tested. *)
CallFalseOnly ==
  /\ Goto("call", IF inFalse = << >> THEN "call_open_true" ELSE Begin)
  /\ UNCHANGED <<pipes, producer, program, local, written>>

CallFalse ==
  /\ Goto("call", IF inFalse = << >> THEN "call_true" ELSE Begin)
  /\ UNCHANGED <<pipes, producer, program, local, written>>

(* Mutant: goes on although both inputs are empty. *)
CallTrueUntested ==
  /\ Goto("call_true", Begin)
  /\ UNCHANGED <<pipes, producer, program, local, written>>

CallTrue ==
  /\ Goto("call_true", IF inTrue = << >> THEN "call_open_true" ELSE Begin)
  /\ UNCHANGED <<pipes, producer, program, local, written>>

CallOpenTrue ==
  /\ Goto("call_open_true", IF openTrue THEN "call" ELSE "call_open_false")
  /\ UNCHANGED <<pipes, producer, program, local, written>>

(* writer_close, and process_disable recycles what is left in the inputs. *)
CallOpenFalse ==
  /\ Goto("call_open_false", IF openFalse THEN "call" ELSE "done")
  /\ IF openFalse THEN UNCHANGED pipes
     ELSE inFalse' = << >> /\ inTrue' = << >> /\ UNCHANGED <<openFalse, openTrue>>
  /\ UNCHANGED <<producer, program, local, written>>

Call == CallFalse \/ CallTrue \/ CallOpenTrue \/ CallOpenFalse

(***************************************************************************)
(* fql_update merges the two pipes by counting the rows it has written.    *)
(* TOP never ends it: top_count is compared with update->rows_affected,    *)
(* which nothing counts.                                                   *)
(***************************************************************************)

(* fifo_begin: the batch is what is in the pipe now. *)
BeginFalse ==
  /\ Goto("begin_false", "merge_false")
  /\ batch' = Len(inFalse)
  /\ UNCHANGED <<pipes, producer, program, state, idx, falseSeen, written>>

BeginTrue ==
  /\ Goto("begin_true", "merge_true")
  /\ batch' = Len(inTrue)
  /\ UNCHANGED <<pipes, producer, program, state, idx, falseSeen, written>>

(* The front of a pipe is the row to be written next. *)
InTurn(q) == batch > 0 /\ Head(q) <= idx

(* noupdate__: a row of in_false, if it comes next. *)
MergeFalse ==
  /\ pc = "merge_false" /\ InTurn(inFalse)
  /\ written' = WriteUnmatched(Head(inFalse))
  /\ inFalse' = Tail(inFalse)
  /\ idx' = idx + 1 /\ batch' = batch - 1
  /\ UNCHANGED <<pc, inTrue, openFalse, openTrue, producer, program, state, falseSeen>>

EndFalse ==
  /\ Goto("merge_false", "begin_true")
  /\ ~InTurn(inFalse)
  /\ UNCHANGED <<pipes, producer, program, local, written>>

(* Mutant: update_idx stays. *)
MergeTrueUncounted ==
  /\ pc = "merge_true" /\ InTurn(inTrue)
  /\ written' = WriteMatched(Head(inTrue))
  /\ inTrue' = Tail(inTrue)
  /\ batch' = batch - 1
  /\ UNCHANGED <<pc, inFalse, openFalse, openTrue, producer, program, state, idx, falseSeen>>

(* update__: the same for in_true. *)
MergeTrue ==
  /\ pc = "merge_true" /\ InTurn(inTrue)
  /\ written' = WriteMatched(Head(inTrue))
  /\ inTrue' = Tail(inTrue)
  /\ idx' = idx + 1 /\ batch' = batch - 1
  /\ UNCHANGED <<pc, inFalse, openFalse, openTrue, producer, program, state, falseSeen>>

EndTrue ==
  /\ Goto("merge_true", "call")
  /\ ~InTurn(inTrue)
  /\ UNCHANGED <<pipes, producer, program, local, written>>

Merge == BeginFalse \/ MergeFalse \/ EndFalse \/ BeginTrue \/ MergeTrue \/ EndTrue

(***************************************************************************)
(* The filters, which differ in what a matched row writes.                 *)
(***************************************************************************)

(* What true_rec->rec_idx may be once the record of row r is back in its root, where it
   is read from: with threads fql_read may have filled it by then with a later row, or,
   if it was a copy, the join with a record of the other table, whose index may be any.
   (An index beyond the last row does what that of the last row does.) *)
RecycledIdx(r) == IF threaded THEN 0 .. Rows - 1 ELSE {r}

(* Mutant: the TRUE pipe is always taken first. *)
OpenTrueFirst ==
  /\ Goto("open_true", "call")
  /\ IF inTrue # << >>
     THEN /\ written' = WriteMatched(Head(inTrue))
          /\ inTrue' = Tail(inTrue)
          /\ idx' \in RecycledIdx(Head(inTrue))
          /\ state' = "passthrough"
     ELSE /\ idx' = Head(inFalse)
          /\ state' = "filtering"
          /\ UNCHANGED <<inTrue, written>>
  /\ UNCHANGED <<inFalse, openFalse, openTrue, producer, program, falseSeen, batch>>

(* _del_open: the row at the front of the pipes, the TRUE pipe first on a tie. *)
OpenFalse ==
  /\ Goto("open", "open_true")
  /\ falseSeen' = (inFalse # << >>)
  /\ UNCHANGED <<pipes, producer, program, state, idx, batch, written>>

(* The record of a matched row is recycled first and its index read after that. *)
OpenTrue ==
  /\ Goto("open_true", "call")
  /\ IF inTrue # << >> /\ (falseSeen => Head(inTrue) <= Head(inFalse))
     THEN /\ written' = WriteMatched(Head(inTrue))
          /\ inTrue' = Tail(inTrue)
          /\ idx' \in RecycledIdx(Head(inTrue))
          /\ state' = "passthrough"
     ELSE /\ idx' = Head(inFalse)
          /\ state' = "filtering"
          /\ UNCHANGED <<inTrue, written>>
  /\ UNCHANGED <<inFalse, openFalse, openTrue, producer, program, falseSeen, batch>>

(* _del_filtering: an entry of the row is in in_false; is it in in_true as well?  The
   TRUE pipe decides, once it has an entry, *)
FilterTrue ==
  /\ pc = "filtering"
  /\ IF inTrue = << >>
     THEN pc' = "filter_open" /\ UNCHANGED <<inFalse, inTrue, state, written>>
     ELSE /\ pc' = "passthrough" /\ state' = "passthrough"
          /\ IF Head(inTrue) > idx
             THEN /\ written' = WriteUnmatched(Head(inFalse))
                  /\ inFalse' = Tail(inFalse) /\ UNCHANGED inTrue
             ELSE /\ written' = WriteMatched(Head(inTrue))
                  /\ inTrue' = Tail(inTrue) /\ UNCHANGED inFalse
  /\ UNCHANGED <<openFalse, openTrue, producer, program, idx, falseSeen, batch>>

(* or once it is closed. *)
FilterOpen ==
  /\ pc = "filter_open"
  /\ IF openTrue
     THEN /\ pc' = "filter_batch" /\ batch' = Len(inFalse)
          /\ UNCHANGED <<inFalse, state, written>>
     ELSE /\ pc' = "passthrough" /\ state' = "passthrough"
          /\ written' = WriteUnmatched(Head(inFalse))
          /\ inFalse' = Tail(inFalse) /\ UNCHANGED batch
  /\ UNCHANGED <<inTrue, openFalse, openTrue, producer, program, idx, falseSeen>>

(* Mutant: the loop ends at the first row it writes, of the entries of which one stays. *)
FilterBatchNoRecycle ==
  /\ pc = "filter_batch"
  /\ IF batch = 0 \/ Len(inFalse) < 2
     THEN pc' = "call" /\ UNCHANGED <<inFalse, state, batch, written>>
     ELSE IF inFalse[2] > idx
     THEN /\ written' = WriteUnmatched(Head(inFalse)) /\ state' = "open"
          /\ pc' = "call" /\ UNCHANGED <<inFalse, batch>>
     ELSE /\ inFalse' = Tail(inFalse) /\ batch' = batch - 1
          /\ UNCHANGED <<pc, state, written>>
  /\ UNCHANGED <<inTrue, openFalse, openTrue, producer, program, idx, falseSeen>>

(* Until then an entry followed in in_false by one of a later row is taken for the
   last of its row; the loop goes on with the delete_idx it began with. *)
FilterBatch ==
  /\ pc = "filter_batch"
  /\ IF batch = 0 \/ Len(inFalse) < 2
     THEN pc' = "call" /\ UNCHANGED <<inFalse, state, batch, written>>
     ELSE /\ IF inFalse[2] > idx
             THEN written' = WriteUnmatched(Head(inFalse)) /\ state' = "open"
             ELSE UNCHANGED <<written, state>>
          /\ inFalse' = Tail(inFalse) /\ batch' = batch - 1
          /\ UNCHANGED pc
  /\ UNCHANGED <<inTrue, openFalse, openTrue, producer, program, idx, falseSeen>>

(* The entries of a pipe from the first one of a later row than i on. *)
Beyond(q, i) ==
  LET later == {k \in 1 .. Len(q) : q[k] > i}
  IN  IF later = {} THEN << >>
      ELSE SubSeq(q, CHOOSE k \in later : \A j \in later : k <= j, Len(q))

(* _del_passthrough: the row is decided, its other entries are recycled; *)
PassFalse ==
  /\ Goto("passthrough", "pass_true")
  /\ inFalse' = Beyond(inFalse, idx)
  /\ falseSeen' = (inFalse = << >> \/ inFalse' # << >>)
  /\ UNCHANGED <<inTrue, openFalse, openTrue, producer, program, state, idx, batch, written>>

(* Mutant: never returns to FILTER_OPEN. *)
PassTrueForever ==
  /\ Goto("pass_true", "call")
  /\ inTrue' = Beyond(inTrue, idx)
  /\ UNCHANGED <<inFalse, openFalse, openTrue, producer, program, local, written>>

(* both pipes must show a later row, or nothing, before the next one is looked for. *)
PassTrue ==
  /\ Goto("pass_true", "call")
  /\ inTrue' = Beyond(inTrue, idx)
  /\ state' = IF inTrue = << >> \/ (inTrue' # << >> /\ falseSeen) THEN "open" ELSE state
  /\ UNCHANGED <<inFalse, openFalse, openTrue, producer, program, idx, falseSeen, batch, written>>

Filter ==
  \/ OpenFalse \/ OpenTrue
  \/ FilterTrue \/ FilterOpen \/ FilterBatch
  \/ PassFalse \/ PassTrue

-----------------------------------------------------------------------------
Handle == Call \/ Merge \/ Filter

Upstream ==
  /\ threaded \/ pc \in {"call", "done"}
  /\ Produce
  /\ UNCHANGED <<program, pc, local, written>>

Finished == pc = "done" /\ ~openTrue

Ended == Finished /\ UNCHANGED vars

Next == Handle \/ Upstream \/ Ended

Spec == Init /\ [][Next]_vars

(* Every process has a thread of its own, or is called in every pass.  Without threads
   the producer can run only between two calls of the handler, and each pass of
   _exec_one_pass calls it: strong fairness. *)
FairSpec == Spec /\ WF_vars(Handle) /\ SF_vars(Upstream)

(***************************************************************************)
(* Properties.                                                             *)
(***************************************************************************)

(* Every variable has its type; in particular no pipe holds more than its capacity. *)
TypeOK ==
  /\ PipesTypeOK
  /\ handler \in Handlers /\ threaded \in BOOLEAN
  /\ pc \in {"call", "call_true", "call_open_true", "call_open_false",
             "begin_false", "merge_false", "begin_true", "merge_true",
             "open", "open_true", "filtering", "filter_open", "filter_batch",
             "passthrough", "pass_true", "done"}
  /\ state \in {"open", "filtering", "passthrough"}
  /\ idx \in 0 .. Rows /\ falseSeen \in BOOLEAN /\ batch \in 0 .. Capacity
  /\ written \in Seq([row : 0 .. Rows - 1, matched : BOOLEAN])

(* What the file should hold of the rows sent so far, and what it holds. *)
Kept(r) == ~(handler = "fql_delete_filter" /\ r \in matched)

Expected    == {r \in 0 .. sent - 1 : Kept(r)}
WrittenRows == {written[k].row : k \in 1 .. Len(written)}

(* fql_update_filter in a thread: its look-ahead writes rows of in_false while a matched
   row that comes before them has arrived in in_true, and the index that it reads of a
   recycled copy may take it back to the row it has just written. *)
Racing == threaded /\ handler = "fql_update_filter"

(* A row of which the FALSE pipe got one entry or the TRUE pipe all is never written as
   what it is not, although a DELETE matched it, or (unless Racing) twice: in whatever
   order the entries arrive, and whatever becomes of mixed rows next to it.  A mixed row,
   behind a join with WHERE, may be written several times: the filters take one of its
   FALSE entries for its last. *)
WrittenOnce ==
  /\ \A k \in 1 .. Len(written) :
       \/ written[k].row \in mixed
       \/ written[k].row \in Expected /\ written[k] = Outcome(written[k].row)
  /\ ~Racing =>
       \A j, k \in 1 .. Len(written) :
         j # k /\ written[j].row = written[k].row => written[k].row \in mixed

(* The rows are in order, unless Racing, and no row is passed over.  The latter is not
   so for a filter in a thread: the index it reads of a recycled record may be that of a
   later row, and the rows before that are dropped. *)
WrittenInOrder ==
  /\ ~Racing =>
       \A j, k \in 1 .. Len(written) : j < k => written[j].row <= written[k].row
  /\ ~(threaded /\ handler \in Filters) =>
       \A k \in 1 .. Len(written), r \in Expected :
         r < written[k].row => r \in WrittenRows

(* A finished DELETE or UPDATE has written them all, if no thread runs between the
   tests with which a call begins. *)
AllWritten == pc = "done" /\ ~threaded => sent = Rows /\ Expected \subseteq WrittenRows

(* A filter never follows the NULL of a pipe that had no entry, and a row that is being
   filtered still has its entry at the front of in_false. *)
EntryAtFront ==
  /\ pc = "open_true" => falseSeen \/ inTrue # << >>
  /\ state = "filtering" /\ pc \notin {"pass_true", "done"} =>
       inFalse # << >> /\ Head(inFalse) = idx

(* The row fql_update writes next is never stuck behind a later one: once it has been
   sent, one of the pipes has it in front.  A full pipe of later rows cannot starve it. *)
NextRowInFront ==
  handler = "fql_update" /\ pc # "done" /\ idx < sent =>
    \/ inFalse # << >> /\ Head(inFalse) = idx
    \/ inTrue # << >> /\ Head(inTrue) = idx

(* The process and its producer end. *)
Termination == <>Finished
=============================================================================
