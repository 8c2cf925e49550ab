-------------------------------- MODULE Pipe --------------------------------
(***************************************************************************)
(* What a pipe between two processes of a plan promises, with no ring, no  *)
(* mutex and no condition variable: a bounded queue that can be closed.    *)
(* Entries leave in the order they entered, none is overwritten, none is   *)
(* duplicated, and the queue never holds more than Capacity of them.       *)
(* Fifo.tla is shown to implement it.                                      *)
(***************************************************************************)
EXTENDS Naturals, Sequences

CONSTANTS Capacity, Records

VARIABLES
  queue,  (* entries written and not yet read, oldest first *)
  open    (* no process has closed the pipe                 *)

Init == queue = << >> /\ open = TRUE

Put(r) ==
  /\ Len(queue) < Capacity
  /\ queue' = Append(queue, r)
  /\ UNCHANGED open

Take ==
  /\ queue # << >>
  /\ queue' = Tail(queue)
  /\ UNCHANGED open

Close ==
  /\ open' = FALSE
  /\ UNCHANGED queue

Next == (\E r \in Records : Put(r)) \/ Take \/ Close

Spec == Init /\ [][Next]_<<queue, open>>
=============================================================================
