-------------------------------- MODULE Fifo --------------------------------
(***************************************************************************)
(* One pipe of a threaded plan: the fifo of util/fifo.c, the threads that  *)
(* write it and the one that reads it.                                     *)
(*                                                                         *)
(* A writer is a process whose fifo_out is the pipe (fql_read, fql_logic,  *)
(* ...); the reader is the process whose fifo_in[0] it is.  Each runs      *)
(* _thread_exec of lib/process.c: call the action, then wait on what the   *)
(* action returned, until process_disable.  The steps are those another    *)
(* thread can see: an access to head, tail or is_open made without the     *)
(* mutex that guards it, a lock, a wait, an unlock.  What the processes do *)
(* with a record is left out; where it decides how the pipe is used (a     *)
(* batch that ends early, an output that was closed) it is a choice.       *)
(***************************************************************************)
EXTENDS FifoRing, Sequences, FiniteSets

CONSTANTS
  Producers,    (* the threads that write the pipe                         *)
  MaxRecs,      (* records each of them writes (bounds the model)          *)
  MaxSpurious,  (* spurious wakeups of pthread_cond_wait (bounds the model)*)
  OpenFirst,    (* the reader tests is_open before emptiness, as           *)
                (* fql_groupby and fql_orderby do; the others read the     *)
                (* two the other way round                                 *)
  CanStop,      (* the reader's own output may be closed before the input  *)
                (* ends (TOP has enough rows)                              *)
  TestsRoom,    (* the writers test for room before they add; the tests of *)
                (* fql_left_join_logic are dead code (`!out_true && ...`)  *)
  Free          (* nobody holds the mutex                                  *)

Consumer == "consumer"

ASSUME FifoAssumption ==
  /\ Producers # {} /\ Consumer \notin Producers /\ Free \notin Producers
  /\ Free # Consumer
  /\ MaxRecs \in Nat /\ MaxSpurious \in Nat
  /\ OpenFirst \in BOOLEAN /\ CanStop \in BOOLEAN /\ TestsRoom \in BOOLEAN

VARIABLES
  buf,        (* the slots                                                 *)
  head, tail, (* next slot to write, oldest entry                          *)
  iterHead,   (* _iter_head: where the reader's batch ends                 *)
  isOpen,
  headMutex, tailMutex,  (* who holds them                                 *)
  pc,         (* where each writer is                                      *)
  cpc,        (* where the reader is                                       *)
  made,       (* records each writer has written                           *)
  ending,     (* why the reader stopped calling its action, if it did      *)
  spurious,   (* spurious wakeups so far                                   *)
  sent,       (* history: records in the order they were published         *)
  handled,    (* history: records in the order the reader took them        *)
  processed   (* history: how many of them its action took; the others     *)
              (* were recycled by process_disable                          *)

ring    == <<buf, head, tail, iterHead, isOpen>>
mutexes == <<headMutex, tailMutex>>
history == <<sent, handled, processed>>
vars == <<ring, mutexes, pc, cpc, made, ending, spurious, history>>

Records == Producers \X (1 .. MaxRecs)

NoRecord == <<>>

(* The record a writer writes next. *)
Record(p) == <<p, made[p] + 1>>

(* A writer asleep in pthread_cond_wait(cond_get). *)
Asleep == {p \in Producers : pc[p] = "asleep"}

Init ==
  /\ buf = [i \in Slots |-> NoRecord]
  /\ head = 0 /\ tail = 0 /\ iterHead = 0 /\ isOpen = TRUE
  /\ headMutex = Free /\ tailMutex = Free
  /\ pc = [p \in Producers |-> "start"] /\ cpc = "start"
  /\ made = [p \in Producers |-> 0]
  /\ ending = "none" /\ spurious = 0
  /\ sent = << >> /\ handled = << >> /\ processed = 0

Goto(p, from, to) == pc[p] = from /\ pc' = [pc EXCEPT ![p] = to]

CGoto(from, to) == cpc = from /\ cpc' = to

(***************************************************************************)
(* The writers.                                                            *)
(***************************************************************************)

(* The action is called: a closed output or an exhausted input completes the
   process. *)
CallWriter(p) ==
  /\ pc[p] = "start"
  /\ pc' = [pc EXCEPT ![p] = IF ~isOpen \/ made[p] = MaxRecs THEN "close" ELSE "room"]
  /\ UNCHANGED <<ring, mutexes, cpc, made, ending, spurious, history>>

(* `!fifo_receivable(out)`, without a mutex: add, or return WAIT_ON_OUT. *)
TestRoom(p) ==
  /\ pc[p] = "room"
  /\ pc' = [pc EXCEPT ![p] = IF TestsRoom /\ Receivable(head, tail) = 0
                              THEN "pre_open" ELSE "add"]
  /\ UNCHANGED <<ring, mutexes, cpc, made, ending, spurious, history>>

(* fifo_add: lock head_mutex, *)
AddLock(p) ==
  /\ Goto(p, "add", "store")
  /\ headMutex = Free /\ headMutex' = p
  /\ UNCHANGED <<ring, tailMutex, cpc, made, ending, spurious, history>>

(* write the slot, *)
AddStore(p) ==
  /\ Goto(p, "store", "publish")
  /\ buf' = [buf EXCEPT ![head] = Record(p)]
  /\ UNCHANGED <<head, tail, iterHead, isOpen, mutexes, cpc, made, ending, spurious, history>>

(* Mutant: publishes without signalling cond_add. *)
AddPublishSilently(p) ==
  /\ pc[p] = "publish"
  /\ \E next \in IF made[p] + 1 = MaxRecs THEN {"start"} ELSE {"start", "room"} :
       pc' = [pc EXCEPT ![p] = next]
  /\ head' = Advance(head)
  /\ headMutex' = Free
  /\ made' = [made EXCEPT ![p] = @ + 1]
  /\ sent' = Append(sent, Record(p))
  /\ UNCHANGED <<buf, tail, iterHead, isOpen, tailMutex, cpc, ending, spurious, handled, processed>>

(* advance head, signal cond_add, unlock.  The batch then goes on or, at the
   end of the writer's own input, returns to _thread_exec. *)
AddPublish(p) ==
  /\ pc[p] = "publish"
  /\ \E next \in IF made[p] + 1 = MaxRecs THEN {"start"} ELSE {"start", "room"} :
       pc' = [pc EXCEPT ![p] = next]
  /\ head' = Advance(head)
  /\ cpc' = IF cpc = "asleep" THEN "wait_lock" ELSE cpc
  /\ headMutex' = Free
  /\ made' = [made EXCEPT ![p] = @ + 1]
  /\ sent' = Append(sent, Record(p))
  /\ UNCHANGED <<buf, tail, iterHead, isOpen, tailMutex, ending, spurious, handled, processed>>

(* _thread_exec on WAIT_ON_OUT0: `out0->is_open && fifo_is_full(out0)`. *)
PreWaitOpen(p) ==
  /\ pc[p] = "pre_open"
  /\ pc' = [pc EXCEPT ![p] = IF isOpen THEN "pre_full" ELSE "start"]
  /\ UNCHANGED <<ring, mutexes, cpc, made, ending, spurious, history>>

PreWaitFull(p) ==
  /\ pc[p] = "pre_full"
  /\ pc' = [pc EXCEPT ![p] = IF IsFull(head, tail) THEN "wait_lock" ELSE "start"]
  /\ UNCHANGED <<ring, mutexes, cpc, made, ending, spurious, history>>

(* fifo_wait_for_get: lock tail_mutex (also on the way out of the wait), *)
WaitGetLock(p) ==
  /\ Goto(p, "wait_lock", "wait_test")
  /\ tailMutex = Free /\ tailMutex' = p
  /\ UNCHANGED <<ring, headMutex, cpc, made, ending, spurious, history>>

(* test for room, *)
WaitGetTest(p) ==
  /\ pc[p] = "wait_test"
  /\ IF Receivable(head, tail) = 0
     THEN pc' = [pc EXCEPT ![p] = "wait_sleep"] /\ UNCHANGED tailMutex
     ELSE pc' = [pc EXCEPT ![p] = "start"] /\ tailMutex' = Free
  /\ UNCHANGED <<ring, headMutex, cpc, made, ending, spurious, history>>

(* and pthread_cond_wait, which gives the mutex up. *)
WaitGetSleep(p) ==
  /\ Goto(p, "wait_sleep", "asleep")
  /\ tailMutex' = Free
  /\ UNCHANGED <<ring, headMutex, cpc, made, ending, spurious, history>>

(* process_disable closes its output: fifo_set_open locks tail_mutex, then
   head_mutex, clears is_open and wakes everybody on both conditions. *)
CloseTail(p) ==
  /\ Goto(p, "close", "close_head")
  /\ tailMutex = Free /\ tailMutex' = p
  /\ UNCHANGED <<ring, headMutex, cpc, made, ending, spurious, history>>

(* Mutant: closes without waking anybody. *)
CloseHeadSilently(p) ==
  /\ headMutex = Free
  /\ isOpen' = FALSE
  /\ Goto(p, "close_head", "done")
  /\ tailMutex' = Free
  /\ UNCHANGED <<buf, head, tail, iterHead, headMutex, cpc, made, ending, spurious, history>>

CloseHead(p) ==
  /\ pc[p] = "close_head"
  /\ headMutex = Free
  /\ isOpen' = FALSE
  /\ pc' = [q \in Producers |-> IF q = p THEN "done"
                                ELSE IF q \in Asleep THEN "wait_lock" ELSE pc[q]]
  /\ cpc' = IF cpc = "asleep" THEN "wait_lock" ELSE cpc
  /\ tailMutex' = Free
  /\ UNCHANGED <<buf, head, tail, iterHead, headMutex, made, ending, spurious, history>>

Writer(p) ==
  \/ CallWriter(p) \/ TestRoom(p) \/ AddLock(p) \/ AddStore(p) \/ AddPublish(p)
  \/ PreWaitOpen(p) \/ PreWaitFull(p)
  \/ WaitGetLock(p) \/ WaitGetTest(p) \/ WaitGetSleep(p)
  \/ CloseTail(p) \/ CloseHead(p)

(***************************************************************************)
(* The reader.                                                             *)
(***************************************************************************)

(* The action is called.  Its first test is that of its own output. *)
CallReader ==
  /\ CGoto("start", IF OpenFirst THEN "test_closed" ELSE "test_empty")
  /\ UNCHANGED <<ring, mutexes, pc, made, ending, spurious, history>>

StopReader ==
  /\ CanStop
  /\ CGoto("start", "quit")
  /\ ending' = "stopped"
  /\ UNCHANGED <<ring, mutexes, pc, made, spurious, history>>

(* fql_logic and most others: `if (fifo_is_empty(in)) { if (!in->is_open) ...` *)
TestEmpty ==
  /\ CGoto("test_empty", IF IsEmpty(head, tail) THEN "empty_open" ELSE "begin")
  /\ UNCHANGED <<ring, mutexes, pc, made, ending, spurious, history>>

TestEmptyOpen ==
  /\ CGoto("empty_open", IF isOpen THEN "pre_open" ELSE "quit")
  /\ ending' = IF isOpen THEN "none" ELSE "eof"
  /\ UNCHANGED <<ring, mutexes, pc, made, spurious, history>>

(* Mutant: a closed input is taken for an exhausted one. *)
TestClosedOnly ==
  /\ CGoto("test_closed", IF isOpen THEN "begin" ELSE "quit")
  /\ ending' = IF isOpen THEN "none" ELSE "eof"
  /\ UNCHANGED <<ring, mutexes, pc, made, spurious, history>>

(* fql_groupby, fql_orderby: `if (!in->is_open && fifo_is_empty(in))`. *)
TestClosed ==
  /\ CGoto("test_closed", IF isOpen THEN "begin" ELSE "closed_empty")
  /\ UNCHANGED <<ring, mutexes, pc, made, ending, spurious, history>>

TestClosedEmpty ==
  /\ CGoto("closed_empty", IF IsEmpty(head, tail) THEN "quit" ELSE "begin")
  /\ ending' = IF IsEmpty(head, tail) THEN "eof" ELSE "none"
  /\ UNCHANGED <<ring, mutexes, pc, made, spurious, history>>

(* Mutant: the batch ends one slot past what is in the ring. *)
BeginOneTooFar ==
  /\ CGoto("begin", "batch")
  /\ iterHead' = Advance(head)
  /\ UNCHANGED <<buf, head, tail, isOpen, mutexes, pc, made, ending, spurious, history>>

(* fifo_begin: the batch is what is in the ring now. *)
Begin ==
  /\ CGoto("begin", "batch")
  /\ iterHead' = head % Size
  /\ UNCHANGED <<buf, head, tail, isOpen, mutexes, pc, made, ending, spurious, history>>

(* The loop `rg_iter != fifo_end(in)`: take the record in the oldest slot. *)
TakeRecord ==
  /\ cpc = "batch"
  /\ IF tail = iterHead
     THEN cpc' = "update" /\ UNCHANGED <<handled, processed>>
     ELSE /\ cpc' = "iter"
          /\ handled' = Append(handled, buf[tail])
          /\ processed' = IF ending = "none" THEN processed + 1 ELSE processed
  /\ UNCHANGED <<ring, mutexes, pc, made, ending, spurious, sent>>

(* fifo_iter: advance tail, without a mutex.  A full output of its own breaks the
   loop of a running action; nothing does when the pipe is drained. *)
Iter ==
  /\ cpc = "iter"
  /\ tail' = Advance(tail)
  /\ \E next \in IF ending = "none" THEN {"batch", "break"} ELSE {"batch"} : cpc' = next
  /\ UNCHANGED <<buf, head, iterHead, isOpen, mutexes, pc, made, ending, spurious, history>>

(* fifo_update: under tail_mutex, signal one writer that waits for room.  A finished
   batch returns WAIT_ON_IN0; a broken one waits on the reader's own output, another
   pipe, until its action is called again. *)
Update ==
  /\ tailMutex = Free
  /\ CGoto("break", "start") \/ CGoto("update", IF ending = "none" THEN "pre_open" ELSE "done")
  /\ IF Asleep = {} THEN UNCHANGED pc
     ELSE \E p \in Asleep : pc' = [pc EXCEPT ![p] = "wait_lock"]
  /\ UNCHANGED <<ring, mutexes, made, ending, spurious, history>>

(* _thread_exec on WAIT_ON_IN0: `is_open && fifo_is_empty`. *)
PreWaitInOpen ==
  /\ CGoto("pre_open", IF isOpen THEN "pre_empty" ELSE "start")
  /\ UNCHANGED <<ring, mutexes, pc, made, ending, spurious, history>>

PreWaitInEmpty ==
  /\ CGoto("pre_empty", IF IsEmpty(head, tail) THEN "wait_lock" ELSE "start")
  /\ UNCHANGED <<ring, mutexes, pc, made, ending, spurious, history>>

(* fifo_wait_for_add *)
WaitAddLock ==
  /\ CGoto("wait_lock", "wait_test")
  /\ headMutex = Free /\ headMutex' = Consumer
  /\ UNCHANGED <<ring, tailMutex, pc, made, ending, spurious, history>>

(* Mutant: sleeps on a closed pipe. *)
WaitAddTestEmptyOnly ==
  /\ cpc = "wait_test"
  /\ IF IsEmpty(head, tail)
     THEN cpc' = "wait_sleep" /\ UNCHANGED headMutex
     ELSE cpc' = "start" /\ headMutex' = Free
  /\ UNCHANGED <<ring, tailMutex, pc, made, ending, spurious, history>>

WaitAddTest ==
  /\ cpc = "wait_test"
  /\ IF isOpen /\ IsEmpty(head, tail)
     THEN cpc' = "wait_sleep" /\ UNCHANGED headMutex
     ELSE cpc' = "start" /\ headMutex' = Free
  /\ UNCHANGED <<ring, tailMutex, pc, made, ending, spurious, history>>

WaitAddSleep ==
  /\ CGoto("wait_sleep", "asleep")
  /\ headMutex' = Free
  /\ UNCHANGED <<ring, tailMutex, pc, made, ending, spurious, history>>

(* process_disable closes the reader's input, then drains and recycles it with
   the same begin, iter and update. *)
QuitTail ==
  /\ CGoto("quit", "quit_head")
  /\ tailMutex = Free /\ tailMutex' = Consumer
  /\ UNCHANGED <<ring, headMutex, pc, made, ending, spurious, history>>

QuitHead ==
  /\ CGoto("quit_head", "begin")
  /\ headMutex = Free
  /\ isOpen' = FALSE
  /\ pc' = [p \in Producers |-> IF p \in Asleep THEN "wait_lock" ELSE pc[p]]
  /\ tailMutex' = Free
  /\ UNCHANGED <<buf, head, tail, iterHead, headMutex, made, ending, spurious, history>>

Reader ==
  \/ CallReader \/ StopReader \/ TestEmpty \/ TestEmptyOpen \/ TestClosed \/ TestClosedEmpty
  \/ Begin \/ TakeRecord \/ Iter \/ Update
  \/ PreWaitInOpen \/ PreWaitInEmpty \/ WaitAddLock \/ WaitAddTest \/ WaitAddSleep
  \/ QuitTail \/ QuitHead

(* pthread_cond_wait may return without a signal. *)
SpuriousWakeup ==
  /\ spurious < MaxSpurious /\ spurious' = spurious + 1
  /\ \/ /\ \E p \in Asleep : pc' = [pc EXCEPT ![p] = "wait_lock"]
        /\ UNCHANGED cpc
     \/ CGoto("asleep", "wait_lock") /\ UNCHANGED pc
  /\ UNCHANGED <<ring, mutexes, made, ending, history>>

AllDone == cpc = "done" /\ \A p \in Producers : pc[p] = "done"

(* pthread_join has every thread; keeps a finished run from being a deadlock. *)
Joined == AllDone /\ UNCHANGED vars

Next == (\E p \in Producers : Writer(p)) \/ Reader \/ SpuriousWakeup \/ Joined

Spec == Init /\ [][Next]_vars

(* The scheduler runs every thread that can run, and a free mutex is got by a
   thread that keeps asking; it owes nobody a spurious wakeup. *)
FairSpec == Spec /\ WF_vars(Reader) /\ \A p \in Producers : WF_vars(Writer(p))

(***************************************************************************)
(* Properties.                                                             *)
(***************************************************************************)

WriterPoints == {"start", "room", "add", "store", "publish", "pre_open", "pre_full",
                 "wait_lock", "wait_test", "wait_sleep", "asleep", "close", "close_head", "done"}

ReaderPoints == {"start", "test_empty", "empty_open", "test_closed", "closed_empty",
                 "begin", "batch", "iter", "break", "update", "pre_open", "pre_empty",
                 "wait_lock", "wait_test", "wait_sleep", "asleep", "quit", "quit_head", "done"}

(* Every variable has its type; in particular the indices stay in the ring. *)
TypeOK ==
  /\ buf \in [Slots -> Records \cup {NoRecord}]
  /\ head \in Slots /\ tail \in Slots /\ iterHead \in Slots
  /\ isOpen \in BOOLEAN
  /\ headMutex \in Producers \cup {Consumer, Free}
  /\ tailMutex \in Producers \cup {Consumer, Free}
  /\ pc \in [Producers -> WriterPoints] /\ cpc \in ReaderPoints
  /\ made \in [Producers -> 0 .. MaxRecs]
  /\ ending \in {"none", "eof", "stopped"}
  /\ spurious \in 0 .. MaxSpurious
  /\ sent \in Seq(Records) /\ handled \in Seq(Records \cup {NoRecord})
  /\ processed \in Nat

(* A writer that is inside fifo_add has a slot to write to that no unread record
   occupies and that is not the last free one: fifo_add itself tests nothing, it
   relies on a test made earlier, without a mutex, against a moving tail. *)
RoomToAdd == \A p \in Producers : pc[p] \in {"add", "store", "publish"} => ~IsFull(head, tail)

(* Entries read but still in the ring while the reader is between taking the
   record of a slot and fifo_iter. *)
InHand == IF cpc = "iter" THEN 1 ELSE 0

Consumed == Len(handled) - InHand

(* The ring holds, in order, exactly the records that were written and not yet
   consumed, and what was consumed is what was written first: no record is lost,
   overwritten, duplicated or reordered between fifo_add and the reader. *)
RingIsBacklog ==
  /\ Len(sent) = Consumed + Available(head, tail)
  /\ \A i \in 1 .. Available(head, tail) : Window(buf, head, tail)[i] = sent[Consumed + i]
  /\ \A i \in 1 .. Len(handled) : handled[i] = sent[i]

(* No sleeper is left behind.  The reader sleeps only while the pipe is empty and
   open.  A writer sleeps only while there is no room, or the reader is in a batch
   that ends in the fifo_update that wakes it. *)
NoLostWakeup ==
  /\ cpc = "asleep" => isOpen /\ IsEmpty(head, tail)
  /\ Asleep # {} =>
       \/ cpc \in {"begin", "batch", "iter", "break", "update"}
       \/ Receivable(head, tail) = 0 /\ cpc # "done"

(* A reader that saw the end of its input has processed every record the writers
   had; process_disable recycled none of them. *)
AllProcessed ==
  cpc = "done" /\ ending = "eof" => processed = Len(sent) /\ \A p \in Producers : made[p] = MaxRecs

(* Every thread ends, whatever ends first: process_exec_plan_thread returns. *)
Termination == <>AllDone

(* The pipe without ring and locks. *)
P == INSTANCE Pipe WITH Capacity <- Size - 1, queue <- Window(buf, head, tail), open <- isOpen

PipeSpec == P!Spec
=============================================================================
