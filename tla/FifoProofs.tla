----------------------------- MODULE FifoProofs -----------------------------
(***************************************************************************)
(* Proofs about Fifo for every ring size, input count, word width, number  *)
(* of records and of spurious wakeups, and every set of writers unless the *)
(* theorem says that there is one: type, locks and wakeups first, then the *)
(* ring as the backlog of what was written and not yet read, the fifo as   *)
(* an implementation of the pipe, and the reader that tests is_open first. *)
(***************************************************************************)
EXTENDS Fifo, SequenceTheorems, TLAPS

-----------------------------------------------------------------------------
(* What the index arithmetic of FifoRing computes, without the modulus and the
   unsigned wrap: facts that every proof about a fifo cites. *)

LEMMA ModBelow == ASSUME NEW n \in Nat, NEW x \in 0 .. n - 1 PROVE x % n = x
  OBVIOUS

LEMMA ModNegative ==
  ASSUME NEW n \in Nat \ {0}, NEW x \in Int, -n <= x, x < 0 PROVE x % n = x + n
  OBVIOUS

LEMMA ModOnce ==
  ASSUME NEW n \in Nat \ {0}, NEW x \in Int, n <= x, x < n + n PROVE x % n = x - n
  OBVIOUS

(* An index that is advanced stays in the ring and wraps at its end. *)
LEMMA AdvanceIs ==
  ASSUME NEW i \in Slots
  PROVE  /\ Advance(i) \in Slots
         /\ Advance(i) = IF i + 1 = Size THEN 0 ELSE i + 1
<1>1. CASE i + 1 = Size
  <2>1. Size % Size = 0
    BY RingAssumption
  <2>2. Advance(i) = 0
    BY <1>1, <2>1 DEF Advance
  <2>3. QED
    BY <1>1, <2>2, RingAssumption DEF Slots
<1>2. CASE i + 1 # Size
  <2>1. i + 1 \in 0 .. Size - 1
    BY <1>2, RingAssumption DEF Slots
  <2>2. QED
    BY <1>2, <2>1, RingAssumption, ModBelow DEF Advance, Slots
<1>3. QED
  BY <1>1, <1>2

(* The unsigned difference, corrected by a turn, is the distance from tail to
   head along the ring. *)
LEMMA AvailableIs ==
  ASSUME NEW h \in Slots, NEW t \in Slots
  PROVE  /\ Available(h, t) = IF h >= t THEN h - t ELSE h - t + Size
         /\ Available(h, t) \in 0 .. Size - 1
<1>1. CASE h >= t
  <2>1. h - t \in 0 .. Word - 1 /\ h - t <= Size
    BY <1>1, RingAssumption DEF Slots
  <2>2. Unsigned(h - t) = h - t
    BY <2>1, RingAssumption, ModBelow DEF Unsigned
  <2>3. QED
    BY <1>1, <2>1, <2>2, RingAssumption DEF Available, Slots
<1>2. CASE h < t
  <2>1. Unsigned(h - t) = h - t + Word
    BY <1>2, RingAssumption, ModNegative DEF Unsigned, Slots
  <2>2. h - t + Word > Size /\ h - t + Size \in 0 .. Word - 1
    BY <1>2, RingAssumption DEF Slots
  <2>3. Unsigned(h - t + Word + Size) = h - t + Size
    BY <2>2, RingAssumption, ModOnce DEF Unsigned, Slots
  <2>4. QED
    BY <1>2, <2>1, <2>2, <2>3, RingAssumption DEF Available, Slots
<1>3. QED
  BY <1>1, <1>2 DEF Slots

(* Adding to a ring that is not full adds one to its backlog. *)
LEMMA AvailableAfterAdd ==
  ASSUME NEW h \in Slots, NEW t \in Slots, Available(h, t) < Size - 1
  PROVE  Available(Advance(h), t) = Available(h, t) + 1
<1>1. Advance(h) \in Slots /\ Advance(h) = IF h + 1 = Size THEN 0 ELSE h + 1
  BY AdvanceIs
<1>2. Available(h, t) = IF h >= t THEN h - t ELSE h - t + Size
  BY AvailableIs
<1>3. Available(Advance(h), t) =
        IF Advance(h) >= t THEN Advance(h) - t ELSE Advance(h) - t + Size
  BY <1>1, AvailableIs
<1>4. QED
  BY <1>1, <1>2, <1>3, RingAssumption DEF Slots

(* Consuming from a ring that is not empty takes one off its backlog. *)
LEMMA AvailableAfterIter ==
  ASSUME NEW h \in Slots, NEW t \in Slots, Available(h, t) > 0
  PROVE  Available(h, Advance(t)) = Available(h, t) - 1
<1>1. Advance(t) \in Slots /\ Advance(t) = IF t + 1 = Size THEN 0 ELSE t + 1
  BY AdvanceIs
<1>2. Available(h, t) = IF h >= t THEN h - t ELSE h - t + Size
  BY AvailableIs
<1>3. Available(h, Advance(t)) =
        IF h >= Advance(t) THEN h - Advance(t) ELSE h - Advance(t) + Size
  BY <1>1, AvailableIs
<1>4. QED
  BY <1>1, <1>2, <1>3, RingAssumption DEF Slots

LEMMA EmptyIs ==
  ASSUME NEW h \in Slots, NEW t \in Slots PROVE IsEmpty(h, t) <=> Available(h, t) = 0
<1>1. Available(h, t) = IF h >= t THEN h - t ELSE h - t + Size
  BY AvailableIs
<1>2. QED
  BY <1>1, RingAssumption DEF Slots, IsEmpty

LEMMA FullIs ==
  ASSUME NEW h \in Slots, NEW t \in Slots PROVE IsFull(h, t) <=> Available(h, t) = Size - 1
<1>1. Available(h, t) = IF h >= t THEN h - t ELSE h - t + Size
  BY AvailableIs
<1>2. Advance(h) = IF h + 1 = Size THEN 0 ELSE h + 1
  BY AdvanceIs
<1>3. QED
  BY <1>1, <1>2, RingAssumption DEF Slots, IsFull

(* The unsigned subtraction of fifo_receivable is exact as long as the backlog
   has not reached into the slots kept back for the writers. *)
LEMMA ReceivableIs ==
  ASSUME NEW h \in Slots, NEW t \in Slots, Available(h, t) <= Size - InputCount
  PROVE  Receivable(h, t) = Size - Available(h, t) - InputCount
<1>1. Size - Available(h, t) - InputCount \in 0 .. Word - 1
  BY AvailableIs, RingAssumption
<1>2. QED
  BY <1>1, RingAssumption, ModBelow DEF Receivable, Unsigned

(* The slot k entries past the tail is where k calls of fifo_iter would get. *)
LEMMA SlotAtIs ==
  ASSUME NEW t \in Slots, NEW k \in 0 .. Size - 1
  PROVE  /\ SlotAt(t, k) \in Slots
         /\ SlotAt(t, k) = IF t + k < Size THEN t + k ELSE t + k - Size
<1>1. CASE t + k < Size
  <2>1. t + k \in 0 .. Size - 1
    BY <1>1, RingAssumption DEF Slots
  <2>2. QED
    BY <1>1, <2>1, RingAssumption, ModBelow DEF SlotAt, Slots
<1>2. CASE t + k >= Size
  <2>1. /\ Size \in Nat \ {0} /\ t + k \in Int
        /\ Size <= t + k /\ t + k < Size + Size
    BY <1>2, RingAssumption DEF Slots
  <2> DEFINE x == t + k
  <2>2. x % Size = x - Size
    BY <2>1, ModOnce
  <2>3. QED
    BY <1>2, <2>1, <2>2, RingAssumption DEF SlotAt, Slots
<1>3. QED
  BY <1>1, <1>2, RingAssumption DEF Slots

-----------------------------------------------------------------------------
(* A writer on its way to fifo_add has a record left to write; what makes
   `made` and the records written well typed. *)
Unfinished ==
  \A p \in Producers : pc[p] \in {"room", "add", "store", "publish"} => made[p] < MaxRecs

TypeInv == TypeOK /\ Unfinished

LEMMA TypeInit == Init => TypeInv
  BY RingAssumption, FifoAssumption
  DEF Init, TypeInv, TypeOK, Unfinished, Slots, WriterPoints, ReaderPoints

LEMMA RecordType ==
  ASSUME TypeInv, NEW p \in Producers, pc[p] \in {"store", "publish"}
  PROVE  Record(p) \in Records
  BY FifoAssumption DEF TypeInv, TypeOK, Unfinished, Record, Records

(* No step of a writer breaks the typing. *)
LEMMA TypeWriter ==
  ASSUME TypeInv, NEW p \in Producers, Writer(p)
  PROVE  TypeInv'
<1> USE DEF TypeInv, TypeOK, Unfinished, WriterPoints, ReaderPoints, ring, mutexes, history, Goto
<1>1. CASE CallWriter(p)
  BY <1>1, FifoAssumption DEF CallWriter
<1>2. CASE TestRoom(p)
  BY <1>2 DEF TestRoom
<1>3. CASE AddLock(p)
  BY <1>3 DEF AddLock
<1>4. CASE AddStore(p)
  BY <1>4, RecordType DEF AddStore
<1>5. CASE AddPublish(p)
  <2>1. Record(p) \in Records /\ made[p] + 1 \in 0 .. MaxRecs
    BY <1>5, RecordType, FifoAssumption DEF AddPublish
  <2>2. Advance(head) \in Slots
    BY AdvanceIs
  <2>3. Unfinished'
    BY <1>5, <2>1, FifoAssumption DEF AddPublish
  <2>4. QED
    BY <1>5, <2>1, <2>2, <2>3 DEF AddPublish
<1>6. CASE PreWaitOpen(p)
  BY <1>6 DEF PreWaitOpen
<1>7. CASE PreWaitFull(p)
  BY <1>7 DEF PreWaitFull
<1>8. CASE WaitGetLock(p)
  BY <1>8 DEF WaitGetLock
<1>9. CASE WaitGetTest(p)
  BY <1>9 DEF WaitGetTest
<1>10. CASE WaitGetSleep(p)
  BY <1>10 DEF WaitGetSleep
<1>11. CASE CloseTail(p)
  BY <1>11 DEF CloseTail
<1>12. CASE CloseHead(p)
  BY <1>12 DEF CloseHead, Asleep
<1>13. QED
  BY <1>1, <1>2, <1>3, <1>4, <1>5, <1>6, <1>7, <1>8, <1>9, <1>10, <1>11, <1>12 DEF Writer

(* No step of the reader breaks the typing. *)
LEMMA TypeReader ==
  ASSUME TypeInv, Reader
  PROVE  TypeInv'
<1> USE DEF TypeInv, TypeOK, Unfinished, WriterPoints, ReaderPoints, ring, mutexes, history, CGoto
<1>1. CASE CallReader \/ StopReader \/ TestEmpty \/ TestEmptyOpen \/ TestClosed \/ TestClosedEmpty
  BY <1>1 DEF CallReader, StopReader, TestEmpty, TestEmptyOpen, TestClosed, TestClosedEmpty
<1>2. CASE Begin
  <2>1. head % Size \in Slots
    BY RingAssumption DEF Slots
  <2>2. QED
    BY <1>2, <2>1 DEF Begin
<1>3. CASE TakeRecord
  <2> DEFINE entries == Records \cup {NoRecord}
  <2>1. buf[tail] \in entries /\ handled \in Seq(entries) /\ processed \in Nat
    OBVIOUS
  <2>2. handled' \in Seq(entries) /\ processed' \in Nat
    <3> HIDE DEF TypeInv, entries
    <3> QED
      BY <1>3, <2>1 DEF TakeRecord
  <2>3. QED
    BY <1>3, <2>2 DEF TakeRecord
<1>4. CASE Iter
  <2>1. Advance(tail) \in Slots
    BY AdvanceIs
  <2>2. QED
    BY <1>4, <2>1 DEF Iter
<1>5. CASE Update
  BY <1>5 DEF Update, Asleep
<1>6. CASE PreWaitInOpen \/ PreWaitInEmpty \/ WaitAddLock \/ WaitAddTest \/ WaitAddSleep
  BY <1>6 DEF PreWaitInOpen, PreWaitInEmpty, WaitAddLock, WaitAddTest, WaitAddSleep
<1>7. CASE QuitTail
  BY <1>7 DEF QuitTail
<1>8. CASE QuitHead
  BY <1>8 DEF QuitHead, Asleep
<1>9. QED
  BY <1>1, <1>2, <1>3, <1>4, <1>5, <1>6, <1>7, <1>8 DEF Reader

LEMMA TypeStep == TypeInv /\ [Next]_vars => TypeInv'
<1> SUFFICES ASSUME TypeInv, [Next]_vars PROVE TypeInv'
  OBVIOUS
<1>1. CASE \E p \in Producers : Writer(p)
  BY <1>1, TypeWriter
<1>2. CASE Reader
  BY <1>2, TypeReader
<1>3. CASE SpuriousWakeup
  BY <1>3, FifoAssumption
  DEF SpuriousWakeup, TypeInv, TypeOK, Unfinished, WriterPoints, ReaderPoints, Asleep, ring,
      mutexes, history, CGoto
<1>4. CASE UNCHANGED vars
  BY <1>4 DEF vars, ring, mutexes, history, TypeInv, TypeOK, Unfinished
<1>5. QED
  BY <1>1, <1>2, <1>3, <1>4 DEF Next, Joined

(* Every variable keeps its type: the indices stay in the ring and a writer never
   writes a record it does not have. *)
THEOREM TypeCorrect == Spec => []TypeOK
<1>1. TypeInv => TypeOK
  BY DEF TypeInv
<1>2. QED
  BY <1>1, TypeInit, TypeStep, PTL DEF Spec

-----------------------------------------------------------------------------
SingleWriter == \A p, q \in Producers : p = q

Adding == {"add", "store", "publish"}

(* The slots kept back are never written: a writer that passed the test for room
   leaves room for one more until it has added. *)
Reserve ==
  /\ Available(head, tail) <= Size - InputCount
  /\ \A p \in Producers : pc[p] \in Adding => Available(head, tail) <= Size - InputCount - 1

(* The reader's batch ends within what was written. *)
BatchInRing ==
  /\ cpc \in {"batch", "iter"} => Available(iterHead, tail) <= Available(head, tail)
  /\ cpc = "iter" => tail # iterHead

RoomInv == TypeInv /\ Reserve /\ BatchInRing

LEMMA RoomImplies == RoomInv => RoomToAdd
<1> SUFFICES ASSUME RoomInv, NEW p \in Producers, pc[p] \in Adding PROVE ~IsFull(head, tail)
  BY DEF RoomToAdd, Adding
<1>1. head \in Slots /\ tail \in Slots
  BY DEF RoomInv, TypeInv, TypeOK
<1>2. Available(head, tail) <= Size - InputCount - 1
  BY DEF RoomInv, Reserve
<1>3. QED
  BY <1>1, <1>2, FullIs, AvailableIs, RingAssumption

LEMMA RoomInit == Init => RoomInv
<1> SUFFICES ASSUME Init PROVE RoomInv
  OBVIOUS
<1>1. 0 \in Slots
  BY RingAssumption DEF Slots
<1>2. Available(0, 0) = 0
  BY <1>1, AvailableIs
<1>3. QED
  BY <1>2, TypeInit, RingAssumption, FifoAssumption DEF Init, RoomInv, Reserve, BatchInRing, Adding

(* Steps that move neither index and let no writer into fifo_add. *)
LEMMA RoomFrame ==
  ASSUME RoomInv, UNCHANGED <<head, tail, iterHead>>,
         \A p \in Producers : pc'[p] \in Adding => pc[p] \in Adding,
         cpc' \in {"batch", "iter"} => cpc = cpc'
  PROVE  Reserve' /\ BatchInRing'
  BY DEF RoomInv, Reserve, BatchInRing

LEMMA RoomWriter ==
  ASSUME RoomInv, SingleWriter, TestsRoom, NEW p \in Producers, Writer(p)
  PROVE  RoomInv'
<1> USE DEF ring, mutexes, history, Goto
<1>1. TypeInv'
  BY TypeWriter DEF RoomInv
<1>2. head \in Slots /\ tail \in Slots /\ iterHead \in Slots /\ pc \in [Producers -> WriterPoints]
  BY DEF RoomInv, TypeInv, TypeOK
<1>3. CASE TestRoom(p)
  <2>1. Receivable(head, tail) = Size - Available(head, tail) - InputCount
    BY <1>2, ReceivableIs DEF RoomInv, Reserve
  <2>2. pc'[p] = "add" => Available(head, tail) <= Size - InputCount - 1
    BY <1>2, <1>3, <2>1, AvailableIs, RingAssumption DEF TestRoom, RoomInv, Reserve
  <2>3. \A q \in Producers : q = p
    BY DEF SingleWriter
  <2>4. pc'[p] \in Adding => pc'[p] = "add"
    BY <1>2, <1>3 DEF TestRoom, Adding
  <2>5. QED
    BY <1>1, <1>3, <2>2, <2>3, <2>4 DEF TestRoom, RoomInv, Reserve, BatchInRing
<1>4. CASE AddPublish(p)
  <2>1. Available(head, tail) <= Size - InputCount - 1
    BY <1>4 DEF AddPublish, RoomInv, Reserve, Adding
  <2>2. Available(Advance(head), tail) = Available(head, tail) + 1
    BY <1>2, <2>1, AvailableAfterAdd, AvailableIs, RingAssumption
  <2>3. Available(head, tail) \in 0 .. Size - 1 /\ Available(iterHead, tail) \in 0 .. Size - 1
    BY <1>2, AvailableIs
  <2>4. head' = Advance(head) /\ tail' = tail /\ iterHead' = iterHead
    BY <1>4 DEF AddPublish
  <2>5. \A q \in Producers : pc'[q] \notin Adding
    BY <1>2, <1>4 DEF AddPublish, SingleWriter, Adding
  <2>6. Reserve'
    BY <2>1, <2>2, <2>3, <2>4, <2>5, RingAssumption DEF Reserve
  <2>7. cpc' \in {"batch", "iter"} => cpc = cpc'
    BY <1>4 DEF AddPublish
  <2>8. BatchInRing'
    BY <2>2, <2>3, <2>4, <2>7 DEF RoomInv, BatchInRing
  <2>9. QED
    BY <1>1, <2>6, <2>8 DEF RoomInv
<1>5. CASE ~TestRoom(p) /\ ~AddPublish(p)
  <2>1. UNCHANGED <<head, tail, iterHead>>
    BY <1>5 DEF Writer, CallWriter, AddLock, AddStore, PreWaitOpen, PreWaitFull, WaitGetLock,
                WaitGetTest, WaitGetSleep, CloseTail, CloseHead
  <2>2. \A q \in Producers : pc'[q] \in Adding => pc[q] \in Adding
    BY <1>2, <1>5 DEF Writer, CallWriter, AddLock, AddStore, PreWaitOpen, PreWaitFull, WaitGetLock,
                WaitGetTest, WaitGetSleep, CloseTail, CloseHead, SingleWriter, Adding
  <2>3. cpc' \in {"batch", "iter"} => cpc = cpc'
    BY <1>5 DEF Writer, CallWriter, AddLock, AddStore, PreWaitOpen, PreWaitFull, WaitGetLock,
                WaitGetTest, WaitGetSleep, CloseTail, CloseHead
  <2>4. QED
    BY <1>1, <2>1, <2>2, <2>3, RoomFrame DEF RoomInv
<1>6. QED
  BY <1>3, <1>4, <1>5

LEMMA RoomReader ==
  ASSUME RoomInv, Reader
  PROVE  RoomInv'
<1> USE DEF ring, mutexes, history, CGoto
<1>1. TypeInv'
  BY TypeReader DEF RoomInv
<1>2. head \in Slots /\ tail \in Slots /\ iterHead \in Slots /\ pc \in [Producers -> WriterPoints]
  BY DEF RoomInv, TypeInv, TypeOK
<1>3. CASE Begin
  <2>1. head % Size = head
    BY <1>2, RingAssumption, ModBelow DEF Slots
  <2>2. QED
    BY <1>1, <1>2, <1>3, <2>1, AvailableIs DEF Begin, RoomInv, Reserve, BatchInRing
<1>4. CASE TakeRecord
  BY <1>1, <1>4 DEF TakeRecord, RoomInv, Reserve, BatchInRing
<1>5. CASE Iter
  <2>1. Available(iterHead, tail) > 0
    <3>1. ~IsEmpty(iterHead, tail)
      BY <1>5 DEF Iter, RoomInv, BatchInRing, IsEmpty
    <3>2. QED
      BY <1>2, <3>1, EmptyIs, AvailableIs
  <2>2. Available(iterHead, tail) <= Available(head, tail)
    BY <1>5 DEF Iter, RoomInv, BatchInRing
  <2>3. Available(head, tail) \in 0 .. Size - 1 /\ Available(iterHead, tail) \in 0 .. Size - 1
    BY <1>2, AvailableIs
  <2>4. Available(head, Advance(tail)) = Available(head, tail) - 1
    BY <1>2, <2>1, <2>2, <2>3, AvailableAfterIter
  <2>5. Available(iterHead, Advance(tail)) = Available(iterHead, tail) - 1
    BY <1>2, <2>1, AvailableAfterIter
  <2>6. /\ tail' = Advance(tail) /\ UNCHANGED <<head, iterHead, pc>>
        /\ cpc' \in {"batch", "break"}
    BY <1>5 DEF Iter
  <2>7. Reserve'
    BY <2>3, <2>4, <2>6, RingAssumption DEF RoomInv, Reserve
  <2>8. BatchInRing'
    BY <2>2, <2>3, <2>4, <2>5, <2>6 DEF BatchInRing
  <2>9. QED
    BY <1>1, <2>7, <2>8 DEF RoomInv
<1>6. CASE ~Begin /\ ~TakeRecord /\ ~Iter
  <2>1. UNCHANGED <<head, tail, iterHead>> /\ cpc' \notin {"batch", "iter"}
    BY <1>6 DEF Reader, CallReader, StopReader, TestEmpty, TestEmptyOpen, TestClosed,
      TestClosedEmpty, Update, PreWaitInOpen, PreWaitInEmpty, WaitAddLock, WaitAddTest,
      WaitAddSleep, QuitTail, QuitHead
  <2>2. \A q \in Producers : pc'[q] \in Adding => pc[q] \in Adding
    BY <1>2, <1>6 DEF Reader, CallReader, StopReader, TestEmpty, TestEmptyOpen, TestClosed,
      TestClosedEmpty, Update, PreWaitInOpen, PreWaitInEmpty, WaitAddLock, WaitAddTest,
      WaitAddSleep, QuitTail, QuitHead, Adding, Asleep
  <2>3. QED
    BY <1>1, <2>1, <2>2, RoomFrame DEF RoomInv
<1>7. QED
  BY <1>3, <1>4, <1>5, <1>6

LEMMA RoomStep == SingleWriter /\ TestsRoom /\ RoomInv /\ [Next]_vars => RoomInv'
<1> SUFFICES ASSUME SingleWriter, TestsRoom, RoomInv, [Next]_vars PROVE RoomInv'
  OBVIOUS
<1>1. CASE \E p \in Producers : Writer(p)
  BY <1>1, RoomWriter
<1>2. CASE Reader
  BY <1>2, RoomReader
<1>3. CASE SpuriousWakeup
  <2>1. TypeInv' /\ pc \in [Producers -> WriterPoints]
    BY TypeStep DEF RoomInv, TypeInv, TypeOK
  <2>2. QED
    BY <1>3, <2>1, RoomFrame DEF SpuriousWakeup, RoomInv, Adding, Asleep, ring, CGoto
<1>4. CASE UNCHANGED vars
  <2>1. TypeInv'
    BY TypeStep DEF RoomInv
  <2>2. QED
    BY <1>4, <2>1, RoomFrame DEF vars, ring, RoomInv
<1>5. QED
  BY <1>1, <1>2, <1>3, <1>4 DEF Next, Joined

(* The test for room that a writer makes without a mutex, against a tail the reader
   moves, is still good when fifo_add stores, for every ring size and every number
   of slots kept back, as long as the pipe has one writer. *)
THEOREM RoomCorrect == SingleWriter /\ TestsRoom => (Spec => []RoomToAdd)
<1> SUFFICES ASSUME SingleWriter, TestsRoom PROVE Spec => []RoomToAdd
  OBVIOUS
<1>1. Init => RoomInv
  BY RoomInit
<1>2. RoomInv /\ [Next]_vars => RoomInv'
  BY RoomStep
<1>3. RoomInv => RoomToAdd
  BY RoomImplies
<1>4. QED
  BY <1>1, <1>2, <1>3, PTL DEF Spec

-----------------------------------------------------------------------------
(* Who holds the two mutexes, read off the program counters. *)
Mutexes ==
  /\ \A p \in Producers : headMutex = p <=> pc[p] \in {"store", "publish"}
  /\ headMutex = Consumer <=> cpc \in {"wait_test", "wait_sleep"}
  /\ \A p \in Producers : tailMutex = p <=> pc[p] \in {"wait_test", "wait_sleep", "close_head"}
  /\ tailMutex = Consumer <=> cpc = "quit_head"

BatchPoints == {"begin", "batch", "iter", "break", "update"}

(* The reader drains the pipe only after it has closed it, *)
Closing ==
  /\ ending = "none" => cpc \notin {"quit", "quit_head", "done"}
  /\ ending # "none" => cpc \in {"begin", "batch", "iter", "update", "quit", "quit_head", "done"}
  /\ ending # "none" /\ cpc \in BatchPoints \cup {"done"} => ~isOpen

(* and a writer that is about to wait saw the pipe open and has written nothing
   since, so that what the reader drains then is all there is. *)
Drained ==
  \A p \in Producers :
    pc[p] \in {"pre_full", "wait_lock", "wait_test", "wait_sleep", "asleep"} /\ ending # "none" =>
      /\ cpc \in {"batch", "iter", "update"} => iterHead = head
      /\ cpc \in {"update", "done"} => tail = head

(* NoLostWakeup, from the test under the mutex on. *)
Sleepers ==
  /\ cpc \in {"wait_sleep", "asleep"} => isOpen /\ IsEmpty(head, tail)
  /\ \A p \in Producers : pc[p] \in {"wait_sleep", "asleep"} =>
       \/ cpc \in BatchPoints
       \/ Receivable(head, tail) = 0 /\ cpc # "done"

WakeInv == TypeInv /\ Mutexes /\ Closing /\ Drained /\ Sleepers

LEMMA WakeInit == Init => WakeInv
  BY TypeInit, FifoAssumption
  DEF Init, WakeInv, Mutexes, Closing, Drained, Sleepers, BatchPoints

LEMMA WakeImplies ==
  ASSUME SingleWriter, WakeInv
  PROVE  NoLostWakeup
  BY DEF WakeInv, Sleepers, NoLostWakeup, Asleep, BatchPoints

LEMMA WakeWriter ==
  ASSUME SingleWriter, WakeInv, NEW p \in Producers, Writer(p)
  PROVE  Mutexes' /\ Closing' /\ Drained' /\ Sleepers'
<1> USE FifoAssumption DEF ring, mutexes, history, Goto, BatchPoints
<1>1. /\ pc \in [Producers -> WriterPoints] /\ \A q \in Producers : q = p
      /\ Mutexes /\ Closing /\ Drained /\ Sleepers
  BY DEF WakeInv, TypeInv, TypeOK, SingleWriter
<1>2. CASE CallWriter(p) \/ TestRoom(p)
  BY <1>1, <1>2 DEF CallWriter, TestRoom, Mutexes, Closing, Drained, Sleepers
<1>3. CASE AddLock(p) \/ AddStore(p)
  BY <1>1, <1>3 DEF AddLock, AddStore, Mutexes, Closing, Drained, Sleepers
<1>4. CASE AddPublish(p)
  BY <1>1, <1>4 DEF AddPublish, Mutexes, Closing, Drained, Sleepers
<1>5. CASE PreWaitOpen(p) \/ PreWaitFull(p)
  BY <1>1, <1>5 DEF PreWaitOpen, PreWaitFull, Mutexes, Closing, Drained, Sleepers
<1>6. CASE WaitGetLock(p) \/ WaitGetSleep(p)
  BY <1>1, <1>6 DEF WaitGetLock, WaitGetSleep, Mutexes, Closing, Drained, Sleepers
<1>7. CASE WaitGetTest(p)
  (* A reader that is done has drained the pipe, so there is room. *)
  <2>1. cpc = "done" => Receivable(head, tail) # 0
    <3>1. SUFFICES ASSUME cpc = "done" PROVE Receivable(head, tail) # 0
      OBVIOUS
    <3>2. head = tail /\ head \in Slots
      BY <1>1, <1>7, <3>1 DEF WaitGetTest, Closing, Drained, WakeInv, TypeInv, TypeOK
    <3>3. Available(head, tail) = 0
      BY <3>2, AvailableIs, RingAssumption DEF Slots
    <3>4. QED
      BY <3>2, <3>3, ReceivableIs, RingAssumption
  <2>2. Mutexes' /\ Closing' /\ Drained'
    BY <1>1, <1>7 DEF WaitGetTest, Mutexes, Closing, Drained
  <2>3. Sleepers'
    BY <1>1, <1>7, <2>1 DEF WaitGetTest, Sleepers
  <2>4. QED
    BY <2>2, <2>3
<1>8. CASE CloseTail(p) \/ CloseHead(p)
  BY <1>1, <1>8 DEF CloseTail, CloseHead, Asleep, Mutexes, Closing, Drained, Sleepers
<1>9. QED
  BY <1>2, <1>3, <1>4, <1>5, <1>6, <1>7, <1>8 DEF Writer

LEMMA WakeReader ==
  ASSUME SingleWriter, WakeInv, Reader
  PROVE  Mutexes' /\ Closing' /\ Drained' /\ Sleepers'
<1> USE FifoAssumption DEF ring, mutexes, history, CGoto, BatchPoints
<1>1. /\ pc \in [Producers -> WriterPoints] /\ \A p, q \in Producers : q = p
      /\ Mutexes /\ Closing /\ Drained /\ Sleepers
  BY DEF WakeInv, TypeInv, TypeOK, SingleWriter
<1>2. CASE CallReader \/ StopReader \/ TestEmpty \/ TestEmptyOpen
  BY <1>1, <1>2 DEF CallReader, StopReader, TestEmpty, TestEmptyOpen, Mutexes, Closing, Drained, Sleepers
<1>3. CASE TestClosed \/ TestClosedEmpty
  BY <1>1, <1>3 DEF TestClosed, TestClosedEmpty, Mutexes, Closing, Drained, Sleepers
<1>4. CASE Begin
  <2>1. head % Size = head
    BY RingAssumption, ModBelow DEF WakeInv, TypeInv, TypeOK, Slots
  <2>2. QED
    BY <1>1, <1>4, <2>1 DEF Begin, Mutexes, Closing, Drained, Sleepers
<1>5. CASE TakeRecord \/ Iter
  BY <1>1, <1>5 DEF TakeRecord, Iter, Mutexes, Closing, Drained, Sleepers
<1>6. CASE Update
  (* A writer between its test and its sleep holds tail_mutex, so fifo_update does
     not pass it by. *)
  BY <1>1, <1>6 DEF Update, Asleep, Mutexes, Closing, Drained, Sleepers
<1>7. CASE PreWaitInOpen \/ PreWaitInEmpty \/ WaitAddLock \/ WaitAddTest \/ WaitAddSleep
  BY <1>1, <1>7 DEF PreWaitInOpen, PreWaitInEmpty, WaitAddLock, WaitAddTest, WaitAddSleep,
                    Mutexes, Closing, Drained, Sleepers
<1>8. CASE QuitTail \/ QuitHead
  BY <1>1, <1>8 DEF QuitTail, QuitHead, Asleep, Mutexes, Closing, Drained, Sleepers
<1>9. QED
  BY <1>2, <1>3, <1>4, <1>5, <1>6, <1>7, <1>8 DEF Reader

LEMMA WakeStep == SingleWriter /\ WakeInv /\ [Next]_vars => WakeInv'
<1> SUFFICES ASSUME SingleWriter, WakeInv, [Next]_vars PROVE WakeInv'
  OBVIOUS
<1>1. TypeInv'
  BY TypeStep DEF WakeInv
<1>2. CASE \E p \in Producers : Writer(p)
  BY <1>1, <1>2, WakeWriter DEF WakeInv
<1>3. CASE Reader
  BY <1>1, <1>3, WakeReader DEF WakeInv
<1>4. CASE SpuriousWakeup
  <2>1. pc \in [Producers -> WriterPoints]
    BY DEF WakeInv, TypeInv, TypeOK
  <2>2. Mutexes' /\ Closing' /\ Drained' /\ Sleepers'
    BY <1>4, <2>1, FifoAssumption
    DEF SpuriousWakeup, CGoto, Asleep, ring, mutexes, history, BatchPoints,
        WakeInv, Mutexes, Closing, Drained, Sleepers
  <2>3. QED
    BY <1>1, <2>2 DEF WakeInv
<1>5. CASE UNCHANGED vars
  BY <1>1, <1>5 DEF vars, ring, mutexes, history, WakeInv, Mutexes, Closing, Drained, Sleepers
<1>6. QED
  BY <1>2, <1>3, <1>4, <1>5 DEF Next, Joined

(* In a pipe with one writer nobody sleeps on a condition that holds already: the
   tests _thread_exec makes before it waits, the tests the waits make under their
   mutex, the signals of fifo_add and fifo_update and the broadcast of
   fifo_set_open leave no window, whatever the sizes and whether or not the writer
   tests for room. *)
THEOREM WakeCorrect == SingleWriter => (Spec => []NoLostWakeup)
<1> SUFFICES ASSUME SingleWriter PROVE Spec => []NoLostWakeup
  OBVIOUS
<1>1. Init => WakeInv
  BY WakeInit
<1>2. WakeInv /\ [Next]_vars => WakeInv'
  BY WakeStep
<1>3. WakeInv => NoLostWakeup
  BY WakeImplies
<1>4. QED
  BY <1>1, <1>2, <1>3, PTL DEF Spec

-----------------------------------------------------------------------------
(* What the two index moves and the store do to the window of the ring. *)

LEMMA WindowIs ==
  ASSUME NEW S, NEW b \in [Slots -> S], NEW h \in Slots, NEW t \in Slots
  PROVE  /\ Window(b, h, t) \in Seq(S)
         /\ Len(Window(b, h, t)) = Available(h, t)
<1>1. Available(h, t) \in 0 .. Size - 1
  BY AvailableIs
<1>2. \A k \in 1 .. Available(h, t) : k - 1 \in 0 .. Size - 1
  BY <1>1, RingAssumption
<1>3. \A k \in 1 .. Available(h, t) : SlotAt(t, k - 1) \in Slots
  BY <1>2, SlotAtIs
<1>4. Window(b, h, t) \in [1 .. Available(h, t) -> S]
  BY <1>3 DEF Window
<1>5. QED
  BY <1>1, <1>4, RingAssumption

LEMMA WindowStore ==
  ASSUME NEW b \in [Slots -> Records \cup {NoRecord}], NEW h \in Slots, NEW t \in Slots, NEW r
  PROVE  Window([b EXCEPT ![h] = r], h, t) = Window(b, h, t)
<1>1. Available(h, t) = IF h >= t THEN h - t ELSE h - t + Size
  BY AvailableIs
<1>2. ASSUME NEW k \in 1 .. Available(h, t)
      PROVE  [b EXCEPT ![h] = r][SlotAt(t, k - 1)] = b[SlotAt(t, k - 1)]
  <2>1. k - 1 \in 0 .. Size - 1
    BY <1>1, RingAssumption DEF Slots
  <2>2. /\ SlotAt(t, k - 1) \in Slots
        /\ SlotAt(t, k - 1) = IF t + (k - 1) < Size THEN t + (k - 1) ELSE t + (k - 1) - Size
    BY <2>1, SlotAtIs
  <2>3. SlotAt(t, k - 1) # h
    BY <1>1, <2>2, RingAssumption DEF Slots
  <2>4. QED
    BY <2>2, <2>3
<1>3. QED
  BY <1>2 DEF Window

LEMMA WindowAdd ==
  ASSUME NEW S, NEW b \in [Slots -> S], NEW h \in Slots, NEW t \in Slots, Available(h, t) < Size - 1
  PROVE  Window(b, Advance(h), t) = Append(Window(b, h, t), b[h])
<1> DEFINE n == Available(h, t)
<1>1. n \in 0 .. Size - 1 /\ n = IF h >= t THEN h - t ELSE h - t + Size
  BY AvailableIs
<1>2. Available(Advance(h), t) = n + 1
  BY AvailableAfterAdd
<1>3. SlotAt(t, n) = IF t + n < Size THEN t + n ELSE t + n - Size
  BY <1>1, SlotAtIs
<1>4. SlotAt(t, n) = h
  BY <1>1, <1>3, RingAssumption DEF Slots
<1>5. (n + 1) - 1 = n
  BY <1>1, RingAssumption
<1>6. /\ Window(b, h, t) \in Seq(S) /\ Len(Window(b, h, t)) = n
      /\ Window(b, Advance(h), t) \in Seq(S) /\ Len(Window(b, Advance(h), t)) = n + 1
  <2> DEFINE g == Advance(h)
  <2>1. g \in Slots
    BY AdvanceIs
  <2>2. Window(b, g, t) \in Seq(S) /\ Len(Window(b, g, t)) = Available(g, t)
    BY <2>1, WindowIs
  <2>3. QED
    BY <1>2, <2>2, WindowIs
<1>7. \A k \in 1 .. n : Window(b, h, t)[k] = b[SlotAt(t, k - 1)]
  BY DEF Window
<1>8. \A k \in 1 .. n + 1 : Window(b, Advance(h), t)[k] = b[SlotAt(t, k - 1)]
  BY <1>2 DEF Window
<1>9. b[h] \in S
  OBVIOUS
<1> HIDE DEF n
<1>10. /\ Append(Window(b, h, t), b[h]) \in Seq(S)
       /\ Len(Append(Window(b, h, t), b[h])) = n + 1
       /\ \A k \in 1 .. n : Append(Window(b, h, t), b[h])[k] = Window(b, h, t)[k]
       /\ Append(Window(b, h, t), b[h])[n + 1] = b[h]
  BY <1>1, <1>6, <1>9
<1>11. ASSUME NEW k \in 1 .. n + 1
       PROVE  Window(b, Advance(h), t)[k] = Append(Window(b, h, t), b[h])[k]
  <2>1. CASE k = n + 1
    BY <1>4, <1>5, <1>8, <1>10, <2>1
  <2>2. CASE k # n + 1
    BY <1>1, <1>7, <1>8, <1>10, <2>2, RingAssumption
  <2>3. QED
    BY <2>1, <2>2
<1>12. QED
  BY <1>6, <1>10, <1>11, SeqEqual

LEMMA WindowIter ==
  ASSUME NEW S, NEW b \in [Slots -> S], NEW h \in Slots, NEW t \in Slots, Available(h, t) > 0
  PROVE  Window(b, h, Advance(t)) = Tail(Window(b, h, t))
<1> DEFINE n == Available(h, t)
<1>1. n \in 1 .. Size - 1
  BY AvailableIs, RingAssumption
<1>2. Available(h, Advance(t)) = n - 1
  BY AvailableAfterIter
<1>3. Advance(t) \in Slots /\ Advance(t) = IF t + 1 = Size THEN 0 ELSE t + 1
  BY AdvanceIs
<1>4. /\ Window(b, h, t) \in Seq(S) /\ Len(Window(b, h, t)) = n
      /\ Window(b, h, Advance(t)) \in Seq(S) /\ Len(Window(b, h, Advance(t))) = n - 1
  <2>1. Window(b, h, t) \in Seq(S) /\ Len(Window(b, h, t)) = n
    BY WindowIs
  <2>2. /\ Window(b, h, Advance(t)) \in Seq(S)
        /\ Len(Window(b, h, Advance(t))) = Available(h, Advance(t))
    BY <1>3, WindowIs
  <2>3. QED
    BY <1>2, <2>1, <2>2
<1>5. /\ Tail(Window(b, h, t)) \in Seq(S) /\ Len(Tail(Window(b, h, t))) = n - 1
      /\ \A k \in 1 .. n - 1 : Tail(Window(b, h, t))[k] = Window(b, h, t)[k + 1]
  <2> DEFINE w == Window(b, h, t)
  <2>1. w \in Seq(S) /\ Len(w) = n /\ n \in Nat \ {0}
    BY <1>1, <1>4, RingAssumption
  <2> HIDE DEF w, n
  <2>2. w # << >>
    BY <2>1, EmptySeq
  <2>3. /\ Tail(w) \in Seq(S) /\ Len(Tail(w)) = Len(w) - 1
        /\ \A k \in 1 .. Len(Tail(w)) : Tail(w)[k] = w[k + 1]
    BY ONLY <2>1, <2>2, HeadTailProperties
  <2>4. QED
    BY <2>1, <2>3 DEF w
<1>6. /\ \A k \in 1 .. n : Window(b, h, t)[k] = b[SlotAt(t, k - 1)]
      /\ \A k \in 1 .. n - 1 : Window(b, h, Advance(t))[k] = b[SlotAt(Advance(t), k - 1)]
  BY <1>2 DEF Window
<1> HIDE DEF n
<1>7. ASSUME NEW k \in 1 .. n - 1
      PROVE  Window(b, h, t)[k + 1] = b[SlotAt(Advance(t), k - 1)]
  <2>1. k \in 0 .. Size - 1 /\ k - 1 \in 0 .. Size - 1 /\ k + 1 \in 1 .. n /\ (k + 1) - 1 = k
    BY <1>1, RingAssumption
  <2>2. SlotAt(t, k) = IF t + k < Size THEN t + k ELSE t + k - Size
    BY <2>1, SlotAtIs
  <2>3. SlotAt(Advance(t), k - 1) =
          IF Advance(t) + (k - 1) < Size THEN Advance(t) + (k - 1) ELSE Advance(t) + (k - 1) - Size
    BY <1>3, <2>1, SlotAtIs
  <2>4. SlotAt(Advance(t), k - 1) = SlotAt(t, k)
    BY <1>3, <2>1, <2>2, <2>3, RingAssumption DEF Slots
  <2>5. QED
    BY <1>6, <2>1, <2>4
<1>8. \A k \in 1 .. n - 1 : Window(b, h, Advance(t))[k] = Tail(Window(b, h, t))[k]
  BY <1>1, <1>5, <1>6, <1>7, RingAssumption
<1>9. QED
  BY <1>4, <1>5, <1>8, SeqEqual

-----------------------------------------------------------------------------
(* What a writer has stored is in the slot it is about to publish. *)
Stored == \A p \in Producers : pc[p] = "publish" => buf[head] = Record(p)

(* The reader took the record of the slot it is about to free. *)
TakenInHand == cpc = "iter" => handled # << >>

BacklogInv == RoomInv /\ RingIsBacklog /\ Stored /\ TakenInHand

LEMMA BacklogInit == Init => BacklogInv
<1> SUFFICES ASSUME Init PROVE BacklogInv
  OBVIOUS
<1>1. 0 \in Slots
  BY RingAssumption DEF Slots
<1>2. Available(0, 0) = 0
  BY <1>1, AvailableIs
<1>3. QED
  BY <1>2, RoomInit DEF Init, BacklogInv, RingIsBacklog, Stored, TakenInHand, Consumed, InHand

(* The typing facts the steps below need. *)
LEMMA BacklogTypes ==
  ASSUME BacklogInv
  PROVE  /\ head \in Slots /\ tail \in Slots /\ iterHead \in Slots
         /\ buf \in [Slots -> Records \cup {NoRecord}]
         /\ pc \in [Producers -> WriterPoints]
         /\ sent \in Seq(Records) /\ handled \in Seq(Records \cup {NoRecord})
         /\ Available(head, tail) \in 0 .. Size - 1
  BY AvailableIs DEF BacklogInv, RoomInv, TypeInv, TypeOK

LEMMA WindowType ==
  ASSUME BacklogInv
  PROVE  /\ Window(buf, head, tail) \in Seq(Records \cup {NoRecord})
         /\ Len(Window(buf, head, tail)) = Available(head, tail)
  BY BacklogTypes, WindowIs

LEMMA AppendIs ==
  ASSUME NEW S, NEW s \in Seq(S), NEW e \in S
  PROVE  /\ Append(s, e) \in Seq(S) /\ Len(Append(s, e)) = Len(s) + 1
         /\ Append(s, e)[Len(s) + 1] = e
         /\ \A i \in 1 .. Len(s) : Append(s, e)[i] = s[i]
  OBVIOUS

(* Steps that change neither the ring nor the histories. *)
LEMMA BacklogFrame ==
  ASSUME BacklogInv, UNCHANGED <<buf, head, tail, made, sent, handled>>,
         \A p \in Producers : pc'[p] = "publish" => pc[p] = "publish",
         cpc' = "iter" <=> cpc = "iter"
  PROVE  RingIsBacklog' /\ Stored' /\ TakenInHand'
  BY DEF BacklogInv, RingIsBacklog, Stored, TakenInHand, Consumed, InHand, Record

(* fifo_add puts a record behind the others. *)
LEMMA PublishPuts ==
  ASSUME BacklogInv, NEW p \in Producers, AddPublish(p)
  PROVE  /\ Window(buf, head, tail)' = Append(Window(buf, head, tail), Record(p))
         /\ Available(head, tail) < Size - 1
         /\ Available(head, tail)' = Available(head, tail) + 1
<1>1. head' = Advance(head) /\ tail' = tail /\ buf' = buf /\ buf[head] = Record(p)
  BY DEF AddPublish, BacklogInv, Stored, Goto
<1>2. Available(head, tail) < Size - 1
  BY BacklogTypes, RingAssumption DEF AddPublish, BacklogInv, RoomInv, Reserve, Adding, Goto
<1>3. Window(buf, Advance(head), tail) = Append(Window(buf, head, tail), buf[head])
  BY <1>2, BacklogTypes, WindowAdd
<1>4. Available(Advance(head), tail) = Available(head, tail) + 1
  BY <1>2, BacklogTypes, AvailableAfterAdd
<1>5. QED
  BY <1>1, <1>2, <1>3, <1>4

(* There is a record in the slot the reader looks at, and fifo_iter takes it off. *)
LEMMA BatchNotEmpty ==
  ASSUME BacklogInv, \/ cpc = "iter"
                     \/ cpc = "batch" /\ tail # iterHead
  PROVE  Available(head, tail) > 0
<1>1. ~IsEmpty(iterHead, tail) /\ Available(iterHead, tail) <= Available(head, tail)
  BY DEF BacklogInv, RoomInv, BatchInRing, IsEmpty
<1>2. Available(iterHead, tail) \in 0 .. Size - 1 /\ Available(iterHead, tail) # 0
  BY <1>1, BacklogTypes, EmptyIs, AvailableIs
<1>3. QED
  BY <1>1, <1>2, BacklogTypes

LEMMA IterTakes ==
  ASSUME BacklogInv, Iter
  PROVE  /\ Window(buf, head, tail)' = Tail(Window(buf, head, tail))
         /\ Available(head, tail) > 0
         /\ Available(head, tail)' = Available(head, tail) - 1
<1>1. head' = head /\ tail' = Advance(tail) /\ buf' = buf
  BY DEF Iter
<1>2. Available(head, tail) > 0
  BY BatchNotEmpty DEF Iter
<1>3. Window(buf, head, Advance(tail)) = Tail(Window(buf, head, tail))
  BY <1>2, BacklogTypes, WindowIter
<1>4. Available(head, Advance(tail)) = Available(head, tail) - 1
  BY <1>2, BacklogTypes, AvailableAfterIter
<1>5. QED
  BY <1>1, <1>2, <1>3, <1>4

LEMMA BacklogWriter ==
  ASSUME BacklogInv, SingleWriter, NEW p \in Producers, Writer(p)
  PROVE  RingIsBacklog' /\ Stored' /\ TakenInHand'
<1> USE DEF ring, mutexes, history, Goto
<1>1. \A q \in Producers : q = p
  BY DEF SingleWriter
<1>2. CASE AddStore(p)
  <2>1. buf' = [buf EXCEPT ![head] = Record(p)] /\ UNCHANGED <<head, tail, made, sent, handled, cpc>>
    BY <1>2 DEF AddStore
  <2>2. Window(buf', head, tail) = Window(buf, head, tail)
    BY <2>1, BacklogTypes, WindowStore
  <2>3. buf'[head] = Record(p)
    BY <2>1, BacklogTypes
  <2>4. QED
    BY <1>1, <2>1, <2>2, <2>3
    DEF BacklogInv, RingIsBacklog, Stored, TakenInHand, Consumed, InHand, Record
<1>3. CASE AddPublish(p)
  <2> DEFINE w == Window(buf, head, tail)
             n == Available(head, tail)
             c == Consumed
  <2>1. /\ sent' = Append(sent, Record(p)) /\ handled' = handled
        /\ cpc' = "iter" <=> cpc = "iter"
    BY <1>3 DEF AddPublish
  <2>2. c' = c /\ c \in Nat
    BY <2>1, BacklogTypes, EmptySeq DEF Consumed, InHand, BacklogInv, TakenInHand
  <2>3. w' = Append(w, Record(p)) /\ n' = n + 1 /\ n \in 0 .. Size - 1
    BY <1>3, PublishPuts, BacklogTypes
  <2>4. Record(p) \in Records
    BY <1>3, RecordType DEF BacklogInv, RoomInv, AddPublish
  <2>5. /\ Len(w) = n
        /\ Append(w, Record(p))[n + 1] = Record(p)
        /\ \A i \in 1 .. n : Append(w, Record(p))[i] = w[i]
    <3>1. w \in Seq(Records \cup {NoRecord}) /\ Len(w) = n
      BY WindowType
    <3>2. Record(p) \in Records \cup {NoRecord}
      BY <2>4
    <3> HIDE DEF w, n
    <3>3. QED
      BY <3>1, <3>2, AppendIs
  <2>6. /\ Len(sent) = c + n
        /\ \A i \in 1 .. n : w[i] = sent[c + i]
        /\ \A i \in 1 .. Len(handled) : handled[i] = sent[i]
    BY DEF BacklogInv, RingIsBacklog
  <2>7. /\ Len(Append(sent, Record(p))) = c + n + 1
        /\ Append(sent, Record(p))[c + n + 1] = Record(p)
        /\ \A i \in 1 .. c + n : Append(sent, Record(p))[i] = sent[i]
    BY <2>4, <2>6, BacklogTypes, AppendIs
  <2>8. /\ Len(sent)' = c' + n'
        /\ \A i \in 1 .. n' : w'[i] = sent'[c' + i]
    <3> HIDE DEF w, n, c
    <3>1. Len(sent)' = c' + n'
      BY <2>1, <2>2, <2>3, <2>7, RingAssumption
    <3>2. ASSUME NEW i \in 1 .. n + 1
          PROVE  Append(w, Record(p))[i] = Append(sent, Record(p))[c + i]
      <4>1. CASE i = n + 1
        BY <2>2, <2>3, <2>5, <2>7, <4>1, RingAssumption
      <4>2. CASE i # n + 1
        <5>1. i \in 1 .. n /\ c + i \in 1 .. c + n
          BY <2>2, <2>3, <4>2, RingAssumption
        <5>2. QED
          BY <2>5, <2>6, <2>7, <5>1
      <4>3. QED
        BY <4>1, <4>2
    <3>3. QED
      BY <2>1, <2>2, <2>3, <3>1, <3>2
  <2>9. Len(handled) <= Len(sent)
    BY <2>2, <2>3, <2>6, BacklogTypes, BatchNotEmpty, RingAssumption DEF Consumed, InHand
  <2>10. \A i \in 1 .. Len(handled') : handled'[i] = sent'[i]
    BY <2>1, <2>4, <2>6, <2>9, BacklogTypes
  <2>11. RingIsBacklog'
    BY <2>8, <2>10 DEF RingIsBacklog
  <2>12. Stored' /\ TakenInHand'
    BY <1>1, <1>3, <2>1, BacklogTypes DEF AddPublish, Stored, TakenInHand, BacklogInv
  <2>13. QED
    BY <2>11, <2>12
<1>4. CASE ~AddStore(p) /\ ~AddPublish(p)
  <2>1. /\ UNCHANGED <<buf, head, tail, made, sent, handled>>
        /\ cpc' = "iter" <=> cpc = "iter"
    BY <1>4 DEF Writer, CallWriter, TestRoom, AddLock, PreWaitOpen, PreWaitFull, WaitGetLock,
                WaitGetTest, WaitGetSleep, CloseTail, CloseHead
  <2>2. \A q \in Producers : pc'[q] = "publish" => pc[q] = "publish"
    BY <1>1, <1>4, BacklogTypes DEF Writer, CallWriter, TestRoom, AddLock, PreWaitOpen,
                PreWaitFull, WaitGetLock, WaitGetTest, WaitGetSleep, CloseTail, CloseHead
  <2>3. QED
    BY <2>1, <2>2, BacklogFrame
<1>5. QED
  BY <1>2, <1>3, <1>4

LEMMA BacklogReader ==
  ASSUME BacklogInv, Reader
  PROVE  RingIsBacklog' /\ Stored' /\ TakenInHand'
<1> USE DEF ring, mutexes, history, CGoto
<1> DEFINE w == Window(buf, head, tail)
           n == Available(head, tail)
           c == Consumed
<1>1. /\ Len(sent) = c + n
      /\ \A i \in 1 .. n : w[i] = sent[c + i]
      /\ \A i \in 1 .. Len(handled) : handled[i] = sent[i]
  BY DEF BacklogInv, RingIsBacklog
<1>2. n \in 0 .. Size - 1 /\ c \in Nat
  BY BacklogTypes, EmptySeq DEF Consumed, InHand, BacklogInv, TakenInHand
<1>3. w \in Seq(Records \cup {NoRecord}) /\ Len(w) = n
  BY WindowType
<1>4. CASE TakeRecord /\ tail # iterHead
  <2>1. /\ handled' = Append(handled, buf[tail]) /\ cpc = "batch" /\ cpc' = "iter"
        /\ UNCHANGED <<buf, head, tail, pc, made, sent>>
    BY <1>4 DEF TakeRecord
  <2>2. c' = c /\ c = Len(handled) /\ Len(handled') = Len(handled) + 1
    BY <2>1, BacklogTypes DEF Consumed, InHand
  <2>3. n > 0
    BY <1>4, <2>1, BatchNotEmpty
  <2>4. SlotAt(tail, 0) = tail
    BY BacklogTypes, SlotAtIs, RingAssumption DEF Slots
  <2>5. w[1] = buf[tail]
    BY <1>2, <2>3, <2>4, RingAssumption DEF Window
  <2>6. buf[tail] = sent[Len(handled) + 1]
    BY <1>1, <1>2, <2>2, <2>3, <2>5, RingAssumption
  <2>7. RingIsBacklog'
    <3>1. \A i \in 1 .. Len(handled') : handled'[i] = sent'[i]
      BY <1>1, <2>1, <2>2, <2>6, BacklogTypes
    <3>2. w' = w /\ n' = n /\ sent' = sent
      BY <2>1
    <3> HIDE DEF w, n, c
    <3>3. /\ Len(sent)' = c' + n'
          /\ \A i \in 1 .. n' : w'[i] = sent'[c' + i]
      BY <1>1, <2>2, <3>2
    <3>4. QED
      BY <3>1, <3>3 DEF RingIsBacklog, w, n, c
  <2>8. Stored' /\ TakenInHand'
    BY <2>1, <2>2, BacklogTypes DEF Stored, TakenInHand, BacklogInv, Record
  <2>9. QED
    BY <2>7, <2>8
<1>5. CASE Iter
  <2>1. /\ UNCHANGED <<buf, head, pc, made, sent, handled>>
        /\ cpc = "iter" /\ cpc' # "iter"
    BY <1>5 DEF Iter
  <2>2. c' = c + 1
    BY <2>1, BacklogTypes DEF Consumed, InHand
  <2>3. w' = Tail(w) /\ n' = n - 1 /\ n > 0
    BY <1>5, IterTakes
  <2>4. /\ Len(Tail(w)) = n - 1
        /\ \A i \in 1 .. n - 1 : Tail(w)[i] = w[i + 1]
    <3> HIDE DEF w, n
    <3> QED
      BY <1>2, <1>3, <2>3, HeadTailProperties, EmptySeq
  <2>5. RingIsBacklog'
    <3>1. \A i \in 1 .. Len(handled') : handled'[i] = sent'[i]
      BY <1>1, <2>1
    <3> HIDE DEF w, n, c
    <3>2. \A i \in 1 .. n' : w'[i] = sent'[c' + i]
      <4>1. ASSUME NEW i \in 1 .. n - 1 PROVE Tail(w)[i] = sent[(c + 1) + i]
        <5>1. Tail(w)[i] = w[i + 1] /\ i + 1 \in 1 .. n /\ c + (i + 1) = (c + 1) + i
          BY <1>2, <2>4, RingAssumption
        <5>2. QED
          BY <1>1, <5>1
      <4>2. QED
        BY <2>1, <2>2, <2>3, <4>1
    <3>3. Len(sent)' = c' + n'
      BY <1>1, <1>2, <2>1, <2>2, <2>3, RingAssumption
    <3>4. QED
      BY <3>1, <3>2, <3>3 DEF RingIsBacklog, w, n, c
  <2>6. Stored' /\ TakenInHand'
    BY <2>1 DEF Stored, TakenInHand, BacklogInv, Record
  <2>7. QED
    BY <2>5, <2>6
<1>6. CASE ~(TakeRecord /\ tail # iterHead) /\ ~Iter
  <2>1. /\ UNCHANGED <<buf, head, tail, made, sent, handled>>
        /\ cpc' # "iter" /\ cpc # "iter"
    BY <1>6 DEF Reader, CallReader, StopReader, TestEmpty, TestEmptyOpen, TestClosed,
      TestClosedEmpty, Begin, TakeRecord, Update, PreWaitInOpen, PreWaitInEmpty, WaitAddLock,
      WaitAddTest, WaitAddSleep, QuitTail, QuitHead
  <2>2. \A q \in Producers : pc'[q] = "publish" => pc[q] = "publish"
    BY <1>6, BacklogTypes DEF Reader, CallReader, StopReader, TestEmpty, TestEmptyOpen, TestClosed,
      TestClosedEmpty, Begin, TakeRecord, Update, PreWaitInOpen, PreWaitInEmpty, WaitAddLock,
      WaitAddTest, WaitAddSleep, QuitTail, QuitHead, Asleep
  <2>3. QED
    BY <2>1, <2>2, BacklogFrame
<1>7. QED
  BY <1>4, <1>5, <1>6

LEMMA BacklogStep == SingleWriter /\ TestsRoom /\ BacklogInv /\ [Next]_vars => BacklogInv'
<1> SUFFICES ASSUME SingleWriter, TestsRoom, BacklogInv, [Next]_vars PROVE BacklogInv'
  OBVIOUS
<1>1. RoomInv'
  BY RoomStep DEF BacklogInv
<1>2. CASE \E p \in Producers : Writer(p)
  BY <1>1, <1>2, BacklogWriter DEF BacklogInv
<1>3. CASE Reader
  BY <1>1, <1>3, BacklogReader DEF BacklogInv
<1>4. CASE SpuriousWakeup
  <2>1. /\ UNCHANGED <<buf, head, tail, made, sent, handled>>
        /\ cpc' = "iter" <=> cpc = "iter"
        /\ \A q \in Producers : pc'[q] = "publish" => pc[q] = "publish"
    BY <1>4, BacklogTypes DEF SpuriousWakeup, CGoto, ring, history, Asleep
  <2>2. QED
    BY <1>1, <2>1, BacklogFrame DEF BacklogInv
<1>5. CASE UNCHANGED vars
  <2>1. /\ UNCHANGED <<buf, head, tail, made, sent, handled>>
        /\ cpc' = "iter" <=> cpc = "iter"
        /\ \A q \in Producers : pc'[q] = "publish" => pc[q] = "publish"
    BY <1>5 DEF vars, ring, history
  <2>2. QED
    BY <1>1, <2>1, BacklogFrame DEF BacklogInv
<1>6. QED
  BY <1>2, <1>3, <1>4, <1>5 DEF Next, Joined

(* The ring of a pipe with one writer holds exactly the records written and not yet
   read, in order; what the reader took is what was written first.  fifo_add,
   fifo_iter and the indices they move without a common mutex lose, overwrite,
   duplicate and reorder nothing, for every ring size. *)
THEOREM BacklogCorrect == SingleWriter /\ TestsRoom => (Spec => []RingIsBacklog)
<1> SUFFICES ASSUME SingleWriter, TestsRoom PROVE Spec => []RingIsBacklog
  OBVIOUS
<1>1. Init => BacklogInv
  BY BacklogInit
<1>2. BacklogInv /\ [Next]_vars => BacklogInv'
  BY BacklogStep
<1>3. BacklogInv => RingIsBacklog
  BY DEF BacklogInv
<1>4. QED
  BY <1>1, <1>2, <1>3, PTL DEF Spec

-----------------------------------------------------------------------------
(* The refinement: which steps of the fifo are steps of the pipe. *)

LEMMA PipeInit == Init => P!Init
<1> SUFFICES ASSUME Init PROVE P!Init
  OBVIOUS
<1>1. head \in Slots /\ tail \in Slots /\ head = tail /\ isOpen = TRUE
  BY RingAssumption DEF Init, Slots
<1>2. Available(head, tail) = 0
  BY <1>1, EmptyIs DEF IsEmpty
<1>3. Window(buf, head, tail) = << >>
  BY <1>2 DEF Window
<1>4. QED
  BY <1>1, <1>3 DEF P!Init

(* Steps that leave the ring alone leave the pipe alone or close it. *)
LEMMA PipeFrame ==
  ASSUME UNCHANGED <<buf, head, tail>>, isOpen' \in {isOpen, FALSE}
  PROVE  P!Close \/ UNCHANGED <<Window(buf, head, tail), isOpen>>
  BY DEF P!Close

LEMMA PipeWriter ==
  ASSUME BacklogInv, NEW p \in Producers, Writer(p)
  PROVE  P!Next \/ UNCHANGED <<Window(buf, head, tail), isOpen>>
<1> USE DEF ring, mutexes, history, Goto
<1>1. CASE AddStore(p)
  <2>1. Window([buf EXCEPT ![head] = Record(p)], head, tail) = Window(buf, head, tail)
    BY BacklogTypes, WindowStore
  <2>2. QED
    BY <1>1, <2>1 DEF AddStore
<1>2. CASE AddPublish(p)
  <2>1. Record(p) \in Records
    BY <1>2, RecordType DEF BacklogInv, RoomInv, AddPublish
  <2>2. /\ Window(buf, head, tail)' = Append(Window(buf, head, tail), Record(p))
        /\ Len(Window(buf, head, tail)) < Size - 1
    BY <1>2, PublishPuts, WindowType
  <2>3. isOpen' = isOpen
    BY <1>2 DEF AddPublish
  <2>4. P!Put(Record(p))
    BY <2>2, <2>3 DEF P!Put
  <2>5. QED
    BY <2>1, <2>4 DEF P!Next
<1>3. CASE ~AddStore(p) /\ ~AddPublish(p)
  <2>1. UNCHANGED <<buf, head, tail>> /\ isOpen' \in {isOpen, FALSE}
    BY <1>3 DEF Writer, CallWriter, TestRoom, AddLock, PreWaitOpen, PreWaitFull, WaitGetLock,
                WaitGetTest, WaitGetSleep, CloseTail, CloseHead
  <2>2. QED
    BY <2>1, PipeFrame DEF P!Next
<1>4. QED
  BY <1>1, <1>2, <1>3

LEMMA PipeReader ==
  ASSUME BacklogInv, Reader
  PROVE  P!Next \/ UNCHANGED <<Window(buf, head, tail), isOpen>>
<1> USE DEF ring, mutexes, history, CGoto
<1>1. CASE Iter
  <2>1. /\ Window(buf, head, tail)' = Tail(Window(buf, head, tail))
        /\ Len(Window(buf, head, tail)) > 0
    BY <1>1, IterTakes, WindowType
  <2>2. Window(buf, head, tail) # << >>
    BY <2>1
  <2>3. isOpen' = isOpen
    BY <1>1 DEF Iter
  <2>4. P!Take
    BY <2>1, <2>2, <2>3 DEF P!Take
  <2>5. QED
    BY <2>4 DEF P!Next
<1>2. CASE ~Iter
  <2>1. UNCHANGED <<buf, head, tail>> /\ isOpen' \in {isOpen, FALSE}
    BY <1>2 DEF Reader, CallReader, StopReader, TestEmpty, TestEmptyOpen, TestClosed,
      TestClosedEmpty, Begin, TakeRecord, Update, PreWaitInOpen, PreWaitInEmpty, WaitAddLock,
      WaitAddTest, WaitAddSleep, QuitTail, QuitHead
  <2>2. QED
    BY <2>1, PipeFrame DEF P!Next
<1>3. QED
  BY <1>1, <1>2

LEMMA PipeStep ==
  BacklogInv /\ [Next]_vars => [P!Next]_<<Window(buf, head, tail), isOpen>>
<1> SUFFICES ASSUME BacklogInv, [Next]_vars
             PROVE  P!Next \/ UNCHANGED <<Window(buf, head, tail), isOpen>>
  OBVIOUS
<1>1. CASE \E p \in Producers : Writer(p)
  BY <1>1, PipeWriter
<1>2. CASE Reader
  BY <1>2, PipeReader
<1>3. CASE SpuriousWakeup \/ UNCHANGED vars
  BY <1>3 DEF SpuriousWakeup, vars, ring
<1>4. QED
  BY <1>1, <1>2, <1>3 DEF Next, Joined

(* The fifo with its indices, mutexes and condition variables implements a bounded
   queue that can be closed: fifo_add is the only step that puts a record, fifo_iter
   the only one that takes one, and every other step of the threads is invisible. *)
THEOREM PipeCorrect == SingleWriter /\ TestsRoom => (Spec => PipeSpec)
<1> SUFFICES ASSUME SingleWriter, TestsRoom PROVE Spec => PipeSpec
  OBVIOUS
<1>1. Init => BacklogInv /\ P!Init
  BY BacklogInit, PipeInit
<1>2. BacklogInv /\ [Next]_vars => BacklogInv'
  BY BacklogStep
<1>3. BacklogInv /\ [Next]_vars => [P!Next]_<<Window(buf, head, tail), isOpen>>
  BY PipeStep
<1>4. QED
  BY <1>1, <1>2, <1>3, PTL DEF Spec, PipeSpec, P!Spec

-----------------------------------------------------------------------------
(* A reader that tests is_open before it tests for emptiness, as fql_groupby and
   fql_orderby do, misses no record at the end of its input.  (MCFifo_end shows what
   the opposite order loses.) *)

Finished == \A p \in Producers : pc[p] = "done"

(* A closed pipe gets no more records: who closed it is the writer, when it had
   written everything, or the reader, when it had seen that. *)
ClosedIsFinal ==
  /\ ~isOpen => ending = "eof" \/ Finished
  /\ \A p \in Producers : pc[p] \in {"close", "close_head", "done"} => made[p] = MaxRecs
  /\ cpc \notin {"test_empty", "empty_open"}
  /\ cpc = "closed_empty" => Finished

(* What the reader's action took, until it decides that the input ended, *)
Running ==
  ending = "none" => processed = Len(handled) /\ cpc \notin {"quit", "quit_head", "done"}

(* and from then on. *)
Ended ==
  ending = "eof" =>
    /\ Finished /\ processed = Len(sent) /\ head = tail
    /\ cpc \in {"quit", "quit_head", "begin", "batch", "update", "done"}
    /\ cpc \in {"batch", "update"} => iterHead = tail

EndInv == BacklogInv /\ ending # "stopped" /\ ClosedIsFinal /\ Running /\ Ended

LEMMA EndInit == Init => EndInv
  BY BacklogInit, EmptySeq, FifoAssumption DEF Init, EndInv, ClosedIsFinal, Running, Ended, Finished

LEMMA EndImplies == EndInv => AllProcessed
  BY DEF EndInv, AllProcessed, ClosedIsFinal, Ended, Finished

LEMMA EndTypes ==
  ASSUME EndInv
  PROVE  /\ BacklogInv /\ head \in Slots /\ pc \in [Producers -> WriterPoints]
         /\ made \in [Producers -> 0 .. MaxRecs]
         /\ sent \in Seq(Records) /\ handled \in Seq(Records \cup {NoRecord}) /\ processed \in Nat
         /\ ending \in {"none", "eof"}
  BY DEF EndInv, BacklogInv, RoomInv, TypeInv, TypeOK

LEMMA EndWriter ==
  ASSUME EndInv, SingleWriter, NEW p \in Producers, Writer(p)
  PROVE  ending' # "stopped" /\ ClosedIsFinal' /\ Running' /\ Ended'
<1> USE FifoAssumption DEF ring, mutexes, history, Goto, EndInv, ClosedIsFinal, Running, Ended, Finished
<1>1. \A q \in Producers : q = p
  BY DEF SingleWriter
<1>2. pc[p] # "done"
  BY DEF Writer, CallWriter, TestRoom, AddLock, AddStore, AddPublish, PreWaitOpen, PreWaitFull,
         WaitGetLock, WaitGetTest, WaitGetSleep, CloseTail, CloseHead
<1>3. CASE AddPublish(p)
  <2>1. ending = "none" /\ ending' = ending /\ handled' = handled /\ processed' = processed
    BY <1>2, <1>3, EndTypes DEF AddPublish
  <2>2. pc'[p] \in {"start", "room"}
    BY <1>3, EndTypes DEF AddPublish
  <2>3. cpc' = cpc \/ cpc' = "wait_lock"
    BY <1>3 DEF AddPublish
  <2>4. isOpen' = isOpen
    BY <1>3 DEF AddPublish
  <2>5. QED
    BY <1>1, <1>2, <2>1, <2>2, <2>3, <2>4
<1>4. CASE CallWriter(p)
  BY <1>1, <1>2, <1>4, EndTypes DEF CallWriter
<1>5. CASE TestRoom(p) \/ AddLock(p) \/ AddStore(p) \/ PreWaitOpen(p) \/ PreWaitFull(p)
  BY <1>1, <1>2, <1>5, EndTypes DEF TestRoom, AddLock, AddStore, PreWaitOpen, PreWaitFull
<1>6. CASE WaitGetLock(p) \/ WaitGetTest(p) \/ WaitGetSleep(p)
  BY <1>1, <1>2, <1>6, EndTypes DEF WaitGetLock, WaitGetTest, WaitGetSleep
<1>7. CASE CloseTail(p) \/ CloseHead(p)
  BY <1>1, <1>2, <1>7, EndTypes DEF CloseTail, CloseHead
<1>8. QED
  BY <1>3, <1>4, <1>5, <1>6, <1>7 DEF Writer

LEMMA EndReader ==
  ASSUME EndInv, OpenFirst, ~CanStop, Reader
  PROVE  ending' # "stopped" /\ ClosedIsFinal' /\ Running' /\ Ended'
<1> USE FifoAssumption DEF ring, mutexes, history, CGoto, EndInv, ClosedIsFinal, Running, Ended, Finished
<1>1. CASE CallReader \/ StopReader \/ TestEmpty \/ TestEmptyOpen \/ TestClosed
  BY <1>1, EndTypes DEF CallReader, StopReader, TestEmpty, TestEmptyOpen, TestClosed
<1>2. CASE TestClosedEmpty
  <2>1. IsEmpty(head, tail) => Len(sent) = Len(handled)
    <3>1. SUFFICES ASSUME IsEmpty(head, tail) PROVE Len(sent) = Len(handled)
      OBVIOUS
    <3>2. Available(head, tail) = 0
      BY <3>1, BacklogTypes, EmptyIs
    <3>3. Consumed = Len(handled)
      BY <1>2, BacklogTypes DEF TestClosedEmpty, Consumed, InHand
    <3>4. QED
      BY <3>2, <3>3, BacklogTypes DEF BacklogInv, RingIsBacklog
  <2>2. QED
    BY <1>2, <2>1, EndTypes DEF TestClosedEmpty, IsEmpty
<1>3. CASE Begin
  <2>1. head % Size = head
    BY EndTypes, RingAssumption, ModBelow DEF Slots
  <2>2. QED
    BY <1>3, <2>1, EndTypes DEF Begin
<1>4. CASE TakeRecord
  <2>1. Len(Append(handled, buf[tail])) = Len(handled) + 1
    BY EndTypes, BacklogTypes
  <2>2. QED
    BY <1>4, <2>1, EndTypes DEF TakeRecord
<1>5. CASE Iter \/ Update
  BY <1>5, EndTypes DEF Iter, Update, Asleep
<1>6. CASE PreWaitInOpen \/ PreWaitInEmpty \/ WaitAddLock \/ WaitAddTest \/ WaitAddSleep
  BY <1>6, EndTypes DEF PreWaitInOpen, PreWaitInEmpty, WaitAddLock, WaitAddTest, WaitAddSleep
<1>7. CASE QuitTail \/ QuitHead
  BY <1>7, EndTypes DEF QuitTail, QuitHead, Asleep
<1>8. QED
  BY <1>1, <1>2, <1>3, <1>4, <1>5, <1>6, <1>7 DEF Reader

LEMMA EndStep ==
  SingleWriter /\ TestsRoom /\ OpenFirst /\ ~CanStop /\ EndInv /\ [Next]_vars => EndInv'
<1> SUFFICES ASSUME SingleWriter, TestsRoom, OpenFirst, ~CanStop, EndInv, [Next]_vars PROVE EndInv'
  OBVIOUS
<1>1. BacklogInv'
  BY BacklogStep DEF EndInv
<1>2. CASE \E p \in Producers : Writer(p)
  BY <1>1, <1>2, EndWriter DEF EndInv
<1>3. CASE Reader
  BY <1>1, <1>3, EndReader DEF EndInv
<1>4. CASE SpuriousWakeup
  BY <1>1, <1>4, EndTypes
  DEF SpuriousWakeup, CGoto, Asleep, ring, mutexes, history, EndInv, ClosedIsFinal, Running, Ended, Finished
<1>5. CASE UNCHANGED vars
  BY <1>1, <1>5 DEF vars, ring, mutexes, history, EndInv, ClosedIsFinal, Running, Ended, Finished
<1>6. QED
  BY <1>2, <1>3, <1>4, <1>5 DEF Next, Joined

(* A reader that reads is_open first and finds the pipe closed and empty has taken
   every record of the writer: what it sees empty after it saw it closed stays
   empty.  For every ring size and number of records. *)
THEOREM EndCorrect ==
  SingleWriter /\ TestsRoom /\ OpenFirst /\ ~CanStop => (Spec => []AllProcessed)
<1> SUFFICES ASSUME SingleWriter, TestsRoom, OpenFirst, ~CanStop PROVE Spec => []AllProcessed
  OBVIOUS
<1>1. Init => EndInv
  BY EndInit
<1>2. EndInv /\ [Next]_vars => EndInv'
  BY EndStep
<1>3. EndInv => AllProcessed
  BY EndImplies
<1>4. QED
  BY <1>1, <1>2, <1>3, PTL DEF Spec
=============================================================================
