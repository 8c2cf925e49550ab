-------------------------- MODULE FifoEitherProofs --------------------------
(***************************************************************************)
(* A wait on two pipes misses no wakeup: proved of FifoEither for any      *)
(* number of records and of spurious wakeups.                              *)
(***************************************************************************)
EXTENDS FifoEither, TLAPS

-----------------------------------------------------------------------------
(* Who holds the mutexes, read off the program counters. *)
WriterHolds0 ==
  \/ wpc \in {"signal_lock", "signal_clear", "close_shared", "close_follow", "close_lock",
              "close_wake"}
  \/ target = 0 /\ wpc \in {"publish", "signal_shared"}

WriterHolds1 ==
  \/ wpc = "close_wake"
  \/ target = 1 /\ wpc \in {"publish", "signal_shared"}

ReaderHolds1 == rpc \in {"wait_test", "wait_lock", "wait_sleep"}

Mutexes ==
  ~Crashed =>
    /\ mutex[0] = IF WriterHolds0 THEN "writer" ELSE "free"
    /\ mutex[1] = IF WriterHolds1 THEN "writer" ELSE IF ReaderHolds1 THEN "reader" ELSE "free"
    /\ ~(WriterHolds1 /\ ReaderHolds1)

(* The records are somewhere: none is made or taken twice. *)
Counted ==
  /\ avail[0] + avail[1] + left <= MaxRecs
  /\ wpc \in {"add", "publish"} => left > 0
  /\ rpc = "crashed" <=> Crashed

(* NoLostWakeup, from the test under the mutexes on: the pointer stays in pipe 0 while
   the reader sleeps, and a writer that has changed pipe 0 has yet to look at it. *)
Sleeper ==
  /\ rpc = "wait_lock" => avail[1] = 0 /\ isOpen[1]
  /\ rpc \in {"wait_sleep", "asleep"} =>
       /\ avail[1] = 0 /\ isOpen[1] /\ shared
       /\ wpc # "signal_clear"
       /\ \/ avail[0] = 0 /\ isOpen[0]
          \/ WriterHolds0 /\ wpc # "publish"

EitherInv == TypeOK /\ Mutexes /\ Counted /\ Sleeper

LEMMA EitherInit == Init => EitherInv
<1> SUFFICES ASSUME Init PROVE EitherInv
  OBVIOUS
<1>1. avail[0] = 0 /\ avail[1] = 0 /\ left = MaxRecs
  BY DEF Init, Pipes
<1>2. TypeOK
  <2>1. isOpen \in [Pipes -> BOOLEAN] /\ shared \in BOOLEAN
    BY DEF Init
  <2>2. /\ avail \in [Pipes -> 0 .. MaxRecs]
        /\ mutex \in [Pipes -> {"free", "writer", "reader"}]
    BY EitherAssumption DEF Init
  <2>3. QED
    BY <2>1, <2>2, EitherAssumption DEF Init, TypeOK, Pipes
<1>3. Counted /\ Sleeper
  BY <1>1, EitherAssumption DEF Init, Crashed, Counted, Sleeper
<1>4. Mutexes
  BY DEF Init, Pipes, Mutexes, WriterHolds0, WriterHolds1, ReaderHolds1
<1>5. QED
  BY <1>2, <1>3, <1>4 DEF EitherInv

LEMMA EitherImplies == EitherInv => NoLostWakeup
<1> SUFFICES ASSUME EitherInv, rpc = "asleep"
             PROVE  /\ avail[1] = 0 /\ isOpen[1]
                    /\ (avail[0] = 0 /\ isOpen[0]) \/ (shared /\ mutex[0] = "writer")
  BY DEF NoLostWakeup
<1>1. ~Crashed
  BY DEF EitherInv, Counted
<1>2. WriterHolds0 => mutex[0] = "writer"
  BY <1>1 DEF EitherInv, Mutexes
<1>3. QED
  BY <1>2 DEF EitherInv, Sleeper

LEMMA EitherWriter ==
  ASSUME EitherInv, Writer
  PROVE  EitherInv'
<1> USE EitherAssumption
    DEF EitherInv, TypeOK, Pipes, Mutexes, WriterHolds0, WriterHolds1, ReaderHolds1, Crashed,
        Counted, Sleeper, ring, writer, WGoto, Lock, Unlock, UnlockBoth, Wake
<1>1. CASE Choose
  BY <1>1 DEF Choose
<1>2. CASE AddLock
  BY <1>2 DEF AddLock
<1>3. CASE AddPublish
  BY <1>3 DEF AddPublish
<1>4. CASE SignalShared
  <2>1. CASE target = 0 /\ shared
    BY <1>4, <2>1 DEF SignalShared
  <2>2. CASE ~(target = 0 /\ shared)
    BY <1>4, <2>2 DEF SignalShared
  <2>3. QED
    BY <2>1, <2>2
<1>5. CASE SignalLock
  BY <1>5 DEF SignalLock
<1>6. CASE SignalClear
  BY <1>6 DEF SignalClear
<1>7. CASE CloseFirst
  BY <1>7 DEF CloseFirst
<1>8. CASE CloseShared \/ CloseFollow
  BY <1>8 DEF CloseShared, CloseFollow
<1>9. CASE CloseLock \/ CloseWake
  <2>1. CASE CloseLock
    BY <2>1 DEF CloseLock
  <2>2. CASE CloseWake /\ shared
    <3>1. /\ wpc = "close_wake" /\ wpc' = "close1" /\ shared' = FALSE
          /\ rpc' = (IF rpc = "asleep" THEN "wake" ELSE rpc)
          /\ mutex' = [f \in {0, 1} |-> "free"]
          /\ UNCHANGED <<avail, isOpen, target, left, spurious>>
      BY <2>2 DEF CloseWake
    <3>2. QED
      BY <3>1
  <2>3. CASE CloseWake /\ ~shared
    BY <2>3 DEF CloseWake
  <2>4. QED
    BY <1>9, <2>1, <2>2, <2>3
<1>10. CASE CloseSecond
  BY <1>10 DEF CloseSecond
<1>11. QED
  BY <1>1, <1>2, <1>3, <1>4, <1>5, <1>6, <1>7, <1>8, <1>9, <1>10 DEF Writer

LEMMA EitherReader ==
  ASSUME EitherInv, Reader
  PROVE  EitherInv'
<1> USE EitherAssumption
    DEF EitherInv, TypeOK, Pipes, Mutexes, WriterHolds0, WriterHolds1, ReaderHolds1, Crashed,
        Counted, Sleeper, ring, writer, RGoto, Lock, Unlock
<1>1. CASE CallFalse \/ CallTrue \/ CallOpenTrue \/ CallOpenFalse
  BY <1>1 DEF CallFalse, CallTrue, CallOpenTrue, CallOpenFalse
<1>2. CASE Take
  BY <1>2 DEF Take
<1>3. CASE PreWait
  BY <1>3 DEF PreWait
<1>4. CASE WaitLock \/ WaitTest
  BY <1>4 DEF WaitLock, WaitTest
<1>5. CASE WaitShare
  <2>1. TypeOK' /\ Counted'
    BY <1>5 DEF WaitShare
  <2>2. Mutexes'
    BY <1>5 DEF WaitShare
  <2>3. Sleeper'
    BY <1>5 DEF WaitShare
  <2>4. QED
    BY <2>1, <2>2, <2>3
<1>6. CASE WaitSleep
  <2>1. TypeOK' /\ Counted'
    BY <1>6 DEF WaitSleep
  <2>2. Mutexes'
    BY <1>6 DEF WaitSleep
  <2>3. Sleeper'
    BY <1>6 DEF WaitSleep
  <2>4. QED
    BY <2>1, <2>2, <2>3
<1>7. CASE WaitWake
  <2>1. TypeOK' /\ Counted' /\ Sleeper'
    BY <1>7 DEF WaitWake
  <2>2. Mutexes'
    BY <1>7 DEF WaitWake
  <2>3. QED
    BY <2>1, <2>2
<1>8. QED
  BY <1>1, <1>2, <1>3, <1>4, <1>5, <1>6, <1>7 DEF Reader

LEMMA EitherStep == EitherInv /\ [Next]_vars => EitherInv'
<1> SUFFICES ASSUME EitherInv, [Next]_vars PROVE EitherInv'
  OBVIOUS
<1>1. CASE Writer
  BY <1>1, EitherWriter
<1>2. CASE Reader
  BY <1>2, EitherReader
<1>3. CASE SpuriousWakeup
  BY <1>3, EitherAssumption
  DEF SpuriousWakeup, RGoto, ring, writer, EitherInv, TypeOK, Pipes, Mutexes, WriterHolds0,
      WriterHolds1, ReaderHolds1, Crashed, Counted, Sleeper
<1>4. CASE UNCHANGED vars
  BY <1>4
  DEF vars, ring, writer, EitherInv, TypeOK, Pipes, Mutexes, WriterHolds0, WriterHolds1,
      ReaderHolds1, Crashed, Counted, Sleeper
<1>5. QED
  BY <1>1, <1>2, <1>3, <1>4 DEF Next, Ended

(* The entries of the two pipes are counted right: no pipe ever holds less than none,
   or more than was written. *)
THEOREM EitherTypeCorrect == Spec => []TypeOK
<1>1. EitherInv => TypeOK
  BY DEF EitherInv
<1>2. QED
  BY <1>1, EitherInit, EitherStep, PTL DEF Spec

(* The reader of two pipes never sleeps while one of them has an entry for it or is
   closed, but for the moment in which the writer, holding the mutex of pipe 0, is on
   its way to wake it; whatever the number of records and however often
   pthread_cond_wait returns for no reason. *)
THEOREM EitherWakeCorrect == Spec => []NoLostWakeup
  BY EitherInit, EitherStep, EitherImplies, PTL DEF Spec
=============================================================================
