----------------------------- MODULE FifoEither -----------------------------
(***************************************************************************)
(* Waiting on two pipes at once: fifo_wait_for_add_either of util/fifo.c,  *)
(* with the fifo_add and fifo_set_open of the thread that writes both.     *)
(*                                                                         *)
(* The reader sleeps on cond_add of pipe 1 and leaves in pipe 0            *)
(* (shared_mutex_fifo) where it sleeps, so that who adds to pipe 0 wakes   *)
(* it there.  Three mutual exclusions meet: head_mutex of pipe 1, which    *)
(* the sleeper holds when it is awake, head_mutex of pipe 0, and the       *)
(* pointer, which the sleeper clears without the mutex of pipe 0.          *)
(*                                                                         *)
(* Left out: the tail mutexes (fifo_set_open takes its own first, and      *)
(* nobody who holds one asks for a head mutex of the other pipe), room in  *)
(* the pipes (module Fifo), and what the records are (module UpdateMerge). *)
(***************************************************************************)
EXTENDS Integers

CONSTANTS
  MaxRecs,      (* records written (bounds the model)                      *)
  MaxSpurious   (* spurious wakeups of pthread_cond_wait (bounds the model)*)

ASSUME EitherAssumption == MaxRecs \in Nat /\ MaxSpurious \in Nat

Pipes == {0, 1}

VARIABLES
  avail,     (* entries in each pipe                                       *)
  isOpen,
  shared,    (* shared_mutex_fifo of pipe 0 points to pipe 1, or is NULL   *)
  mutex,     (* who holds head_mutex of each pipe                          *)
  wpc, rpc,  (* where the writer and the reader are                        *)
  target,    (* the pipe the writer adds to                                *)
  left,      (* records the writer still has                               *)
  spurious   (* spurious wakeups so far                                    *)

ring   == <<avail, isOpen>>
writer == <<wpc, target, left>>
vars   == <<ring, shared, mutex, writer, rpc, spurious>>

Init ==
  /\ avail = [f \in Pipes |-> 0] /\ isOpen = [f \in Pipes |-> TRUE]
  /\ shared = FALSE
  /\ mutex = [f \in Pipes |-> "free"]
  /\ wpc = "start" /\ rpc = "call"
  /\ target = 0 /\ left = MaxRecs /\ spurious = 0

WGoto(from, to) == wpc = from /\ wpc' = to
RGoto(from, to) == rpc = from /\ rpc' = to

Lock(f, thread)   == mutex[f] = "free" /\ mutex' = [mutex EXCEPT ![f] = thread]
Unlock(f)         == mutex' = [mutex EXCEPT ![f] = "free"]
UnlockBoth        == mutex' = [f \in Pipes |-> "free"]

(* A signal or a broadcast on cond_add of pipe 1: there is one sleeper. *)
Wake == rpc' = IF rpc = "asleep" THEN "wake" ELSE rpc

(***************************************************************************)
(* The writer: fql_logic or fql_hash_join, and process_disable.            *)
(***************************************************************************)

(* The next record goes to either pipe; without one the process completes. *)
Choose ==
  /\ WGoto("start", IF left = 0 THEN "close0" ELSE "add")
  /\ IF left = 0 THEN UNCHANGED target ELSE target' \in Pipes
  /\ UNCHANGED <<ring, shared, mutex, rpc, left, spurious>>

AddLock ==
  /\ WGoto("add", "publish")
  /\ Lock(target, "writer")
  /\ UNCHANGED <<ring, shared, rpc, target, left, spurious>>

(* The slot is written, head advances and cond_add of this pipe is signalled. *)
AddPublish ==
  /\ WGoto("publish", "signal_shared")
  /\ avail' = [avail EXCEPT ![target] = @ + 1]
  /\ left' = left - 1
  /\ IF target = 1 THEN Wake ELSE UNCHANGED rpc
  /\ UNCHANGED <<isOpen, shared, mutex, target, spurious>>

(* Mutant: nobody who sleeps on the other pipe is woken. *)
SignalNobody ==
  /\ WGoto("signal_shared", "start")
  /\ Unlock(target)
  /\ UNCHANGED <<ring, shared, rpc, target, left, spurious>>

(* _fifo_signal_shared: is somebody asleep on the other pipe?  (The pointer of pipe 1
   is never set.) *)
SignalShared ==
  /\ wpc = "signal_shared"
  /\ IF target = 0 /\ shared
     THEN wpc' = "signal_lock" /\ UNCHANGED mutex
     ELSE wpc' = "start" /\ Unlock(target)
  /\ UNCHANGED <<ring, shared, rpc, target, left, spurious>>

(* Lock head_mutex of pipe 1, signal, unlock: the writer holds that of pipe 0. *)
SignalLock ==
  /\ WGoto("signal_lock", "signal_clear")
  /\ mutex[1] = "free"
  /\ Wake
  /\ UNCHANGED <<ring, shared, mutex, target, left, spurious>>

SignalClear ==
  /\ WGoto("signal_clear", "start")
  /\ shared' = FALSE
  /\ Unlock(0)
  /\ UNCHANGED <<ring, rpc, target, left, spurious>>

(* fifo_set_open of pipe 0 *)
CloseFirst ==
  /\ WGoto("close0", "close_shared")
  /\ Lock(0, "writer")
  /\ isOpen' = [isOpen EXCEPT ![0] = FALSE]
  /\ UNCHANGED <<avail, shared, rpc, target, left, spurious>>

(* `if (self->shared_mutex_fifo != NULL)` *)
CloseShared ==
  /\ wpc = "close_shared"
  /\ IF shared THEN wpc' = "close_follow" /\ UNCHANGED mutex
               ELSE wpc' = "close1" /\ Unlock(0)
  /\ UNCHANGED <<ring, shared, rpc, target, left, spurious>>

(* `pthread_mutex_lock(&self->shared_mutex_fifo->head_mutex)`: the pointer is read
   again to find the mutex; the program ends here if it is NULL by now. *)
CloseFollow ==
  /\ WGoto("close_follow", IF shared THEN "close_lock" ELSE "crashed")
  /\ rpc' = IF shared THEN rpc ELSE "crashed"
  /\ UNCHANGED <<ring, shared, mutex, target, left, spurious>>

CloseLock ==
  /\ WGoto("close_lock", "close_wake")
  /\ Lock(1, "writer")
  /\ UNCHANGED <<ring, shared, rpc, target, left, spurious>>

(* Broadcast and unlock read it twice more.  The sleeper may have cleared it while the
   writer waited for the mutex: the program ends.  Who holds that mutex keeps the sleeper
   from clearing it between the two. *)
CloseWake ==
  /\ WGoto("close_wake", IF shared THEN "close1" ELSE "crashed")
  /\ IF shared THEN Wake /\ UnlockBoth
               ELSE rpc' = "crashed" /\ UNCHANGED mutex
  /\ shared' = FALSE
  /\ UNCHANGED <<ring, target, left, spurious>>

(* fifo_set_open of pipe 1 *)
CloseSecond ==
  /\ WGoto("close1", "done")
  /\ mutex[1] = "free"
  /\ isOpen' = [isOpen EXCEPT ![1] = FALSE]
  /\ Wake
  /\ UNCHANGED <<avail, shared, mutex, target, left, spurious>>

Writer ==
  \/ Choose \/ AddLock \/ AddPublish \/ SignalShared \/ SignalLock \/ SignalClear
  \/ CloseFirst \/ CloseShared \/ CloseFollow \/ CloseLock \/ CloseWake \/ CloseSecond

(***************************************************************************)
(* The reader: fql_update or a filter, and _thread_exec.                   *)
(***************************************************************************)

CallFalse ==
  /\ RGoto("call", IF avail[0] = 0 THEN "call_true" ELSE "take")
  /\ UNCHANGED <<ring, shared, mutex, writer, spurious>>

CallTrue ==
  /\ RGoto("call_true", IF avail[1] = 0 THEN "call_open_true" ELSE "take")
  /\ UNCHANGED <<ring, shared, mutex, writer, spurious>>

CallOpenTrue ==
  /\ RGoto("call_open_true", IF isOpen[1] THEN "pre_wait" ELSE "call_open_false")
  /\ UNCHANGED <<ring, shared, mutex, writer, spurious>>

CallOpenFalse ==
  /\ RGoto("call_open_false", IF isOpen[0] THEN "pre_wait" ELSE "done")
  /\ UNCHANGED <<ring, shared, mutex, writer, spurious>>

(* Mutant: one entry too many. *)
TakeOneTooMany ==
  /\ RGoto("take", "call")
  /\ \E f \in Pipes : \E n \in 1 .. avail[f] + 1 : avail' = [avail EXCEPT ![f] = @ - n]
  /\ UNCHANGED <<isOpen, shared, mutex, writer, spurious>>

(* The action takes entries of one pipe; which and how many is its affair. *)
Take ==
  /\ RGoto("take", "call")
  /\ \E f \in Pipes : \E n \in 1 .. avail[f] : avail' = [avail EXCEPT ![f] = @ - n]
  /\ UNCHANGED <<isOpen, shared, mutex, writer, spurious>>

(* _thread_exec on WAIT_ON_IN_EITHER.  Four reads taken as one: the wait tests again,
   under the mutexes. *)
PreWait ==
  /\ RGoto("pre_wait",
           IF \A f \in Pipes : isOpen[f] /\ avail[f] = 0 THEN "wait" ELSE "call")
  /\ UNCHANGED <<ring, shared, mutex, writer, spurious>>

(* fifo_wait_for_add_either *)
WaitLock ==
  /\ RGoto("wait", "wait_test")
  /\ Lock(1, "reader")
  /\ UNCHANGED <<ring, shared, writer, spurious>>

WaitTest ==
  /\ rpc = "wait_test"
  /\ IF isOpen[1] /\ avail[1] = 0
     THEN rpc' = "wait_lock" /\ UNCHANGED mutex
     ELSE rpc' = "call" /\ Unlock(1)
  /\ UNCHANGED <<ring, shared, writer, spurious>>

(* Mutant: the loop is left without unlocking pipe 0. *)
WaitShareKeepsFirst ==
  /\ rpc = "wait_lock"
  /\ mutex[0] = "free"
  /\ IF ~isOpen[0] \/ avail[0] # 0
     THEN rpc' = "call" /\ mutex' = [mutex EXCEPT ![0] = "reader", ![1] = "free"]
          /\ UNCHANGED shared
     ELSE rpc' = "wait_sleep" /\ shared' = TRUE /\ UNCHANGED mutex
  /\ UNCHANGED <<ring, writer, spurious>>

(* Under both mutexes: is there nothing in pipe 0 either?  Then leave the pointer. *)
WaitShare ==
  /\ rpc = "wait_lock"
  /\ mutex[0] = "free"
  /\ IF ~isOpen[0] \/ avail[0] # 0
     THEN rpc' = "call" /\ Unlock(1) /\ UNCHANGED shared
     ELSE rpc' = "wait_sleep" /\ shared' = TRUE /\ UNCHANGED mutex
  /\ UNCHANGED <<ring, writer, spurious>>

WaitSleep ==
  /\ RGoto("wait_sleep", "asleep")
  /\ Unlock(1)
  /\ UNCHANGED <<ring, shared, writer, spurious>>

(* pthread_cond_wait returns with the mutex of pipe 1; the pointer of pipe 0 is
   cleared without that of pipe 0. *)
WaitWake ==
  /\ RGoto("wake", "wait_test")
  /\ Lock(1, "reader")
  /\ shared' = FALSE
  /\ UNCHANGED <<ring, writer, spurious>>

Reader ==
  \/ CallFalse \/ CallTrue \/ CallOpenTrue \/ CallOpenFalse \/ Take
  \/ PreWait \/ WaitLock \/ WaitTest \/ WaitShare \/ WaitSleep \/ WaitWake

SpuriousWakeup ==
  /\ spurious < MaxSpurious /\ spurious' = spurious + 1
  /\ RGoto("asleep", "wake")
  /\ UNCHANGED <<ring, shared, mutex, writer>>

Crashed == wpc = "crashed"

AllDone == wpc = "done" /\ rpc = "done"

(* The threads have been joined, or the program is gone. *)
Ended == (AllDone \/ Crashed) /\ UNCHANGED vars

Next == Writer \/ Reader \/ SpuriousWakeup \/ Ended

Spec == Init /\ [][Next]_vars

(* Both threads run whenever they can; nobody owes anybody a spurious wakeup. *)
FairSpec == Spec /\ WF_vars(Writer) /\ WF_vars(Reader)

(***************************************************************************)
(* Properties.                                                             *)
(***************************************************************************)

(* Every variable has its type; a pipe never holds a negative number of entries. *)
TypeOK ==
  /\ avail \in [Pipes -> 0 .. MaxRecs] /\ isOpen \in [Pipes -> BOOLEAN]
  /\ shared \in BOOLEAN
  /\ mutex \in [Pipes -> {"free", "writer", "reader"}]
  /\ wpc \in {"start", "add", "publish", "signal_shared", "signal_lock", "signal_clear",
              "close0", "close_shared", "close_follow", "close_lock", "close_wake", "close1",
              "done", "crashed"}
  /\ rpc \in {"call", "call_true", "call_open_true", "call_open_false", "take", "pre_wait",
              "wait", "wait_test", "wait_lock", "wait_sleep", "asleep", "wake", "done",
              "crashed"}
  /\ target \in Pipes /\ left \in 0 .. MaxRecs /\ spurious \in 0 .. MaxSpurious

(* The reader does not sleep on: while it sleeps, pipe 1 is empty and open, and so is
   pipe 0 unless the writer is between changing it and waking the reader, with the
   pointer still there to find it by. *)
NoLostWakeup ==
  rpc = "asleep" =>
    /\ avail[1] = 0 /\ isOpen[1]
    /\ (avail[0] = 0 /\ isOpen[0]) \/ (shared /\ mutex[0] = "writer")

(* The two threads hold a mutex each and ask for the other's. *)
LockCycle ==
  /\ mutex[0] = "writer" /\ wpc \in {"signal_lock", "close_lock"}
  /\ mutex[1] = "reader" /\ rpc = "wait_lock"

(* Nothing but these two keeps writer and reader from ending: the program ends at a
   pointer that was cleared before it was read again (CloseFollow, CloseWake), or each
   waits for the mutex of the other.  No wakeup is lost, no other pair of steps blocks
   for good. *)
EndsOrKnownStop == <>(AllDone \/ Crashed \/ LockCycle)
=============================================================================
