------------------------------ MODULE FifoRing ------------------------------
(***************************************************************************)
(* Index arithmetic of the circular buffer in util/fifo.c.  The pure       *)
(* operators every fifo operation is built from: they take the two indices *)
(* as parameters, so that modules with one fifo or several share them.     *)
(*                                                                         *)
(* head and tail are C `unsigned`; Word is 2^32 in the build and a small   *)
(* stand-in when model checking.  The width matters: fifo_receivable       *)
(* subtracts unsigned numbers and is compared with zero only.              *)
(***************************************************************************)
EXTENDS Integers

CONSTANTS
  Size,        (* number of slots, buf->size                               *)
  InputCount,  (* processes counted as writers of the pipe (input_count)   *)
  Word         (* number of values of the C type unsigned                  *)

(* fifo_construct never makes a ring of fewer than two slots; _activate_procs
   gives a pipe pipe_factor slots per process of the plan, which is more than
   the edges that can enter one process. *)
ASSUME RingAssumption ==
  /\ Size \in Nat /\ Size >= 2
  /\ InputCount \in Nat \ {0} /\ InputCount < Size
  /\ Word \in Nat /\ Word >= 2 * Size

Slots == 0 .. Size - 1

Unsigned(x) == x % Word

(* Mutant: forgets to wrap. *)
AdvanceUnwrapped(i) == i + 1

(* _idx_adv_ *)
Advance(i) == (i + 1) % Size

IsEmpty(h, t) == h = t

IsFull(h, t) == Advance(h) = t

(* How many entries lie between the indices.  The difference is computed in
   `unsigned` and widened, so a wrapped difference shows as a number larger
   than the ring and is corrected by one turn. *)
Available(h, t) ==
  LET difference == Unsigned(h - t)
  IN  Unsigned(IF difference > Size THEN difference + Size ELSE difference)

(* Mutant: forgets the slots kept back for the writers. *)
ReceivableWithoutReserve(h, t) == Unsigned(Size - Available(h, t))

(* How many entries a writer may add; one slot per writer is kept back so that
   all of them may add after testing "not zero". *)
Receivable(h, t) == Unsigned(Size - Available(h, t) - InputCount)

(* The slot k entries after the oldest one. *)
SlotAt(t, k) == (t + k) % Size

(* The entries of the ring, oldest first. *)
Window(buf, h, t) == [k \in 1 .. Available(h, t) |-> buf[SlotAt(t, k - 1)]]
=============================================================================
