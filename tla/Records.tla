------------------------------- MODULE Records -------------------------------
(***************************************************************************)
(* How a record is used again.  A process takes a record from a root fifo  *)
(* and reads a row into it, or makes it a copy of another one by           *)
(* record_copy: a join gives every match of a left row but the last a copy *)
(* of that row.  The fields of a copy point into the buffer of the record  *)
(* that was read.  fqlprocess_recycle gives a record back to its root once *)
(* it and all of its copies were recycled, which ref_count counts.         *)
(*                                                                         *)
(* Which of the processes takes, copies and recycles which record depends  *)
(* on the plan and on the rows; here it may be any, in any order.  Without *)
(* threads there is one caller.                                            *)
(***************************************************************************)
EXTENDS Integers, FiniteSets

CONSTANTS
  Records,        (* _root_data *)
  Threads,        (* the threads that call; one if there are no threads     *)
  CopiesOfCopies, (* a join gets rows from a join: it copies copies too     *)
  NULL

ASSUME RecordsAssumption ==
  IsFiniteSet(Records) /\ NULL \notin Records /\ CopiesOfCopies \in BOOLEAN

VARIABLES
  free,           (* the records that are in a root fifo                    *)
  held,           (* the records that are in a list in the pipeline         *)
  ref_count,
  rec_copy_node,  (* the record that this one is a copy of                  *)
  buffer,         (* the record whose buffer the fields point into          *)
  pc, rec         (* fqlprocess_recycle: what comes next, for which record  *)

vars == <<free, held, ref_count, rec_copy_node, buffer, pc, rec>>

Init ==
  /\ free = Records /\ held = {}
  /\ ref_count = [r \in Records |-> 1]
  /\ rec_copy_node = [r \in Records |-> NULL]
  /\ buffer = [r \in Records |-> r]
  /\ pc = [t \in Threads |-> "idle"] /\ rec = [t \in Threads |-> NULL]

Idle(t) == pc[t] = "idle"

Take(r) == free' = free \ {r} /\ held' = held \cup {r}

(* fql_read, and the right side of fql_hash_join: the reader fills the record. *)
ReadRow(t, r) ==
  /\ Idle(t) /\ r \in free
  /\ Take(r)
  /\ buffer' = [buffer EXCEPT ![r] = r]
  /\ UNCHANGED <<ref_count, rec_copy_node, pc, rec>>

IsCopy(r) == rec_copy_node[r] # NULL

(* Mutant: record_copy does not count. *)
CopyUncounted(t, src, r) ==
  /\ Idle(t) /\ src \in held /\ r \in free
  /\ IsCopy(src) => CopiesOfCopies
  /\ Take(r)
  /\ rec_copy_node' = [rec_copy_node EXCEPT ![r] = src]
  /\ buffer' = [buffer EXCEPT ![r] = buffer[src]]
  /\ UNCHANGED <<ref_count, pc, rec>>

Copy(t, src, r) ==
  /\ Idle(t) /\ src \in held /\ r \in free
  /\ IsCopy(src) => CopiesOfCopies
  /\ Take(r)
  /\ rec_copy_node' = [rec_copy_node EXCEPT ![r] = src]
  /\ ref_count' = [ref_count EXCEPT ![src] = @ + 1]
  /\ buffer' = [buffer EXCEPT ![r] = buffer[src]]
  /\ UNCHANGED <<pc, rec>>

(***************************************************************************)
(* fqlprocess_recycle for one record of the list.  The count of the source *)
(* of a copy is read first; what was read decides what is done with it.    *)
(***************************************************************************)
Goto(t, step) == pc' = [pc EXCEPT ![t] = step]

(* Mutant: the last copy does not take its source with it. *)
AfterTestNever(src) == "drop_src"

AfterTest(src) == IF ref_count[src] - 1 = 0 THEN "recycle_src" ELSE "drop_src"

Pop(t, r) ==
  /\ Idle(t) /\ r \in held
  /\ held' = held \ {r}
  /\ rec' = [rec EXCEPT ![t] = r]
  /\ Goto(t, IF IsCopy(r) THEN AfterTest(rec_copy_node[r]) ELSE "drop_self")
  /\ UNCHANGED <<free, ref_count, rec_copy_node, buffer>>

(* Mutant: the count is not reset. *)
DropNoReset(r) ==
  /\ ref_count' = [ref_count EXCEPT ![r] = @ - 1]
  /\ free' = IF ref_count[r] - 1 = 0 THEN free \cup {r} ELSE free

(* --ref_count == 0, and the record to its root fifo with a count for the next run. *)
Drop(r) ==
  IF ref_count[r] - 1 = 0
    THEN ref_count' = [ref_count EXCEPT ![r] = 1] /\ free' = free \cup {r}
    ELSE ref_count' = [ref_count EXCEPT ![r] = @ - 1] /\ UNCHANGED free

Detach(t) == rec_copy_node' = [rec_copy_node EXCEPT ![rec[t]] = NULL]

(* The call for the source: it is a copy itself no more, its own turn was before. *)
RecycleSrc(t) ==
  /\ pc[t] = "recycle_src"
  /\ Drop(rec_copy_node[rec[t]]) /\ Detach(t) /\ Goto(t, "drop_self")
  /\ UNCHANGED <<held, buffer, rec>>

DropSrc(t) ==
  /\ pc[t] = "drop_src"
  /\ ref_count' = [ref_count EXCEPT ![rec_copy_node[rec[t]]] = @ - 1]
  /\ Detach(t) /\ Goto(t, "drop_self")
  /\ UNCHANGED <<free, held, buffer, rec>>

DropSelf(t) ==
  /\ pc[t] = "drop_self"
  /\ Drop(rec[t]) /\ Goto(t, "idle")
  /\ rec' = [rec EXCEPT ![t] = NULL]
  /\ UNCHANGED <<held, rec_copy_node, buffer>>

Recycle(t) == (\E r \in Records : Pop(t, r)) \/ RecycleSrc(t) \/ DropSrc(t) \/ DropSelf(t)

Next ==
  \E t \in Threads :
    \/ \E r \in Records : ReadRow(t, r)
    \/ \E src, r \in Records : Copy(t, src, r)
    \/ Recycle(t)

Spec == Init /\ [][Next]_vars

(***************************************************************************)
(* The kinds of the variables; a record is in a root fifo or in the        *)
(* pipeline, not in both.                                                  *)
(***************************************************************************)
TypeOK ==
  /\ free \subseteq Records /\ held \subseteq Records /\ free \cap held = {}
  /\ ref_count \in [Records -> Nat]
  /\ rec_copy_node \in [Records -> Records \cup {NULL}]
  /\ buffer \in [Records -> Records]
  /\ pc \in [Threads -> {"idle", "recycle_src", "drop_src", "drop_self"}]
  /\ rec \in [Threads -> Records \cup {NULL}]
  /\ \A t \in Threads : ~Idle(t) => rec[t] \in Records

(***************************************************************************)
(* "Reference counting is necessary because self->fields may be pointing   *)
(* to memory owned by self->libcsv_rec.  If we recycle the src record,     *)
(* this memory can be over-written since we do not actually copy any       *)
(* buffers" (record.c:67): no record in the pipeline shows the buffer of a *)
(* record that may be read into.                                           *)
(***************************************************************************)
NotOverwritten == \A r \in held : buffer[r] \notin free

(***************************************************************************)
(* "We should never lose records" (fqlplan.c:1026): once no call is under  *)
(* way, a record is in a root fifo, or in the pipeline, or a copy that     *)
(* will bring it back is in the pipeline.                                  *)
(***************************************************************************)
NeverLost ==
  (\A t \in Threads : Idle(t)) =>
    \A r \in Records \ (free \cup held) : \E c \in held : rec_copy_node[c] = r
=============================================================================
