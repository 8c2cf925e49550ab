----------------------------- MODULE MatchPipes -----------------------------
(***************************************************************************)
(* What a process with a FALSE and a TRUE input reads: the two pipes that  *)
(* fql_hash_join or fql_logic fills, in row order, for fql_update,         *)
(* fql_delete_filter or fql_update_filter.  A pipe is a bounded queue, as  *)
(* module Pipe says and module Fifo shows; an entry is the rec_idx of the  *)
(* row of the table that is deleted from or updated.                       *)
(***************************************************************************)
EXTENDS Integers, Sequences

CONSTANTS
  Rows,        (* rows of the table (bounds the model)                     *)
  MaxEntries,  (* entries one row may give: the records it joins with      *)
               (* (bounds the model)                                       *)
  Capacity     (* entries a pipe holds                                     *)

ASSUME MatchPipesAssumption ==
  Rows \in Nat /\ MaxEntries \in Nat \ {0} /\ Capacity \in Nat \ {0}

(* Who fills the pipes.  "where": fql_logic on one table, one entry for a row.  "hash":
   fql_hash_join, one FALSE entry for a row without a match, or one TRUE entry for each
   match.  "join_where": fql_logic on the records of a LEFT hash join or of a cartesian
   join, one entry for each record, to the pipe that WHERE says. *)
Producers == {"where", "hash", "join_where"}

VARIABLES
  source,               (* who fills the pipes                             *)
  inFalse, inTrue,      (* the entries in fifo_in[0] and fifo_in[1]        *)
  openFalse, openTrue,  (* their is_open                                   *)
  sent,                 (* rows that have given an entry; the last of them *)
                        (* is row sent - 1                                 *)
  entries,              (* entries that row has given                      *)
  matched,              (* history: the rows with an entry in the TRUE pipe*)
  mixed                 (* history: the rows with a FALSE entry and one    *)
                        (* more, to either pipe                            *)

pipes    == <<inFalse, inTrue, openFalse, openTrue>>
producer == <<source, sent, entries, matched, mixed>>

PipesInit ==
  /\ inFalse = << >> /\ inTrue = << >>
  /\ openFalse = TRUE /\ openTrue = TRUE
  /\ sent = 0 /\ entries = 0 /\ matched = {} /\ mixed = {}

(* Mutant: only one output is tested for room. *)
RoomFalseOnly == Len(inFalse) < Capacity

(* Both outputs are tested for room before an entry is added to either. *)
Room == Len(inFalse) < Capacity /\ Len(inTrue) < Capacity

(* The row sent last has another match, which a hash join sends to the TRUE pipe. *)
AnotherMatch(r, result) == source = "hash" /\ r \in matched /\ result

(* The row sent last is joined with another record, which WHERE sends to either pipe. *)
AnotherRecord == source = "join_where"

(* The row an entry may belong to, and the pipes it may go to. *)
NextEntry(r, result) ==
  \/ r = sent /\ r < Rows
  \/ /\ r = sent - 1 /\ sent > 0 /\ entries < MaxEntries
     /\ AnotherMatch(r, result) \/ AnotherRecord

SendFalse(r) ==
  /\ NextEntry(r, FALSE)
  /\ inFalse' = Append(inFalse, r)
  /\ mixed' = IF r = sent THEN mixed ELSE mixed \cup {r}
  /\ UNCHANGED <<inTrue, matched>>

SendTrue(r) ==
  /\ NextEntry(r, TRUE)
  /\ inTrue' = Append(inTrue, r)
  /\ matched' = matched \cup {r}
  /\ mixed' = IF r = sent \/ r \in matched THEN mixed ELSE mixed \cup {r}
  /\ UNCHANGED inFalse

(* One record goes through the action of the producer. *)
Send ==
  /\ openFalse /\ openTrue /\ Room
  /\ \E r \in {sent - 1, sent} :
       /\ SendFalse(r) \/ SendTrue(r)
       /\ sent' = r + 1
       /\ entries' = IF r = sent THEN 1 ELSE entries + 1
  /\ UNCHANGED <<source, openFalse, openTrue>>

(* Its input has ended, or its reader has closed fifo_out[0]: process_disable closes
   fifo_out[0], then fifo_out[1]. *)
Close ==
  /\ openTrue
  /\ sent = Rows \/ ~openFalse
  /\ IF openFalse THEN openFalse' = FALSE /\ UNCHANGED openTrue
                  ELSE openTrue' = FALSE /\ UNCHANGED openFalse
  /\ UNCHANGED <<inFalse, inTrue, producer>>

Produce == Send \/ Close

(* What the rewritten file should hold of row r. *)
Outcome(r) == [row |-> r, matched |-> r \in matched]

PipesTypeOK ==
  /\ source \in Producers
  /\ inFalse \in Seq(0 .. Rows - 1) /\ Len(inFalse) <= Capacity
  /\ inTrue \in Seq(0 .. Rows - 1) /\ Len(inTrue) <= Capacity
  /\ openFalse \in BOOLEAN /\ openTrue \in BOOLEAN
  /\ sent \in 0 .. Rows /\ entries \in 0 .. MaxEntries
  /\ matched \subseteq 0 .. Rows - 1 /\ mixed \subseteq 0 .. Rows - 1
=============================================================================
