---------------------------- MODULE RecordsProofs ----------------------------
(***************************************************************************)
(* Why a record is used again neither too early nor never, for any number  *)
(* of records, when one caller recycles and no copy is copied.  All three  *)
(* properties need Counted: the count of a record is the number of its     *)
(* copies, and one more until the record itself was recycled.              *)
(***************************************************************************)
EXTENDS Records, FiniteSetTheorems, TLAPS

OneCaller == (\A t, u \in Threads : t = u) /\ ~CopiesOfCopies

Copies(r) == {c \in Records : rec_copy_node[c] = r}

(* The record is popped, and its own count is still to go. *)
Popped(r) == \E t \in Threads : ~Idle(t) /\ rec[t] = r

InUse(r) == r \in free \/ r \in held \/ Popped(r)

Counted == \A r \in Records :
  ref_count[r] = Cardinality(Copies(r)) + IF InUse(r) THEN 1 ELSE 0

(* A record that was recycled itself still has a copy. *)
Parked == \A r \in Records : InUse(r) \/ Copies(r) # {}

Sources == \A c \in Records : IsCopy(c) =>
  /\ ~IsCopy(rec_copy_node[c]) /\ rec_copy_node[c] \notin free
  /\ c \in held \/ Popped(c)
  /\ buffer[c] = rec_copy_node[c]

Own == \A r \in held : ~IsCopy(r) => buffer[r] = r

Steps == \A t \in Threads : ~Idle(t) =>
  /\ rec[t] \in Records /\ rec[t] \notin free /\ rec[t] \notin held
  /\ pc[t] = "recycle_src" => IsCopy(rec[t]) /\ ref_count[rec_copy_node[rec[t]]] = 1
  /\ pc[t] = "drop_src" => IsCopy(rec[t]) /\ ref_count[rec_copy_node[rec[t]]] # 1
  /\ pc[t] = "drop_self" => ~IsCopy(rec[t])

Inv == TypeOK /\ Counted /\ Parked /\ Sources /\ Own /\ Steps

(* The copies of a record can be counted. *)
LEMMA CopiesFinite == IsFiniteSet(Records) => \A r : IsFiniteSet(Copies(r)) /\ Cardinality(Copies(r)) \in Nat
  <1> SUFFICES ASSUME IsFiniteSet(Records), NEW r PROVE IsFiniteSet(Copies(r)) /\ Cardinality(Copies(r)) \in Nat
    OBVIOUS
  <1>1. Copies(r) \subseteq Records BY DEF Copies
  <1> QED BY <1>1, FS_Subset, FS_CardinalityType

(* With one caller the popped record is its own. *)
LEMMA PoppedByCaller ==
  ASSUME OneCaller, NEW t \in Threads
  PROVE  \A r : Popped(r) <=> ~Idle(t) /\ rec[t] = r
  BY DEF OneCaller, Popped

(* At first every record is in a root fifo and has no copy. *)
LEMMA InitInv == Init => Inv
  <1> SUFFICES ASSUME Init PROVE Inv OBVIOUS
  <1> USE RecordsAssumption DEF Init
  <1>1. TypeOK BY DEF TypeOK, Idle
  <1>2. \A r \in Records : Copies(r) = {} /\ InUse(r) BY DEF Copies, InUse
  <1>3. Counted BY <1>2, FS_EmptySet DEF Counted
  <1>4. Parked BY <1>2 DEF Parked
  <1>5. Sources /\ Own /\ Steps BY DEF Sources, Own, Steps, IsCopy, Idle
  <1> QED BY <1>1, <1>3, <1>4, <1>5 DEF Inv

(* A record that is read into has no copy, and its fields are its own. *)
LEMMA ReadRowInv ==
  ASSUME OneCaller, Inv, NEW t \in Threads, NEW r \in Records, ReadRow(t, r)
  PROVE  Inv'
  <1> USE DEF ReadRow, Take, Inv
  <1>1. TypeOK' BY DEF TypeOK, Idle
  <1>2. \A x \in Records : Copies(x)' = Copies(x) BY DEF Copies
  <1>3. \A x \in Records : InUse(x)' <=> InUse(x)
    BY DEF InUse, Popped, Idle
  <1>4. Counted' BY <1>2, <1>3 DEF Counted
  <1>5. Parked' BY <1>2, <1>3 DEF Parked
  <1>6. \A x : ~Popped(x) BY PoppedByCaller
  <1>7. Sources' BY <1>6 DEF Sources, IsCopy, TypeOK
  <1>8. Own' BY DEF Own, IsCopy, TypeOK
  <1>9. Steps' BY DEF Steps, Idle, OneCaller
  <1> QED BY <1>1, <1>4, <1>5, <1>7, <1>8, <1>9

(* A copy is counted by the record it is a copy of. *)
LEMMA CopyInv ==
  ASSUME OneCaller, Inv, NEW t \in Threads, NEW src \in Records, NEW r \in Records, Copy(t, src, r)
  PROVE  Inv'
  <1> USE RecordsAssumption DEF Copy, Take, Inv
  <1>1. TypeOK' BY DEF TypeOK, Idle
  <1>2. \A x : ~Popped(x) BY PoppedByCaller
  <1>3. ~IsCopy(r) /\ ~IsCopy(src) /\ r # src BY <1>2 DEF Sources, OneCaller, TypeOK
  <1>4. Copies(src)' = Copies(src) \cup {r} /\ r \notin Copies(src)
    BY <1>3 DEF Copies, IsCopy, TypeOK
  <1>5. \A x \in Records : x # src => Copies(x)' = Copies(x)
    BY <1>3 DEF Copies, IsCopy, TypeOK
  <1>6. \A x \in Records : InUse(x)' <=> InUse(x)
    BY DEF InUse, Popped, Idle
  <1>7. Counted'
    <2> SUFFICES ASSUME NEW x \in Records
                 PROVE  ref_count'[x] = Cardinality(Copies(x)') + IF InUse(x)' THEN 1 ELSE 0
      BY DEF Counted
    <2>1. CASE x = src
      <3>1. Cardinality(Copies(src)') = Cardinality(Copies(src)) + 1 /\ Cardinality(Copies(src)) \in Nat
        BY <1>4, CopiesFinite, FS_AddElement
      <3> QED BY <2>1, <3>1, <1>6 DEF Counted, TypeOK
    <2>2. CASE x # src BY <2>2, <1>5, <1>6 DEF Counted, TypeOK
    <2> QED BY <2>1, <2>2
  <1>8. Parked' BY <1>4, <1>5, <1>6 DEF Parked
  <1>9. Sources'
    <2> SUFFICES ASSUME NEW c \in Records, IsCopy(c)'
                 PROVE  /\ ~IsCopy(rec_copy_node[c])' /\ rec_copy_node'[c] \notin free'
                        /\ c \in held' \/ Popped(c)'
                        /\ buffer'[c] = rec_copy_node'[c]
      BY DEF Sources
    <2>1. CASE c = r BY <2>1, <1>3 DEF Own, IsCopy, TypeOK
    <2>2. CASE c # r
      <3>1. IsCopy(c) /\ c \in held BY <2>2, <1>2 DEF Sources, IsCopy, TypeOK
      <3>2. rec_copy_node[c] # r /\ ~IsCopy(rec_copy_node[c]) BY <3>1 DEF Sources
      <3> QED BY <2>2, <3>1, <3>2 DEF Sources, IsCopy, TypeOK
    <2> QED BY <2>1, <2>2
  <1>10. Own' BY <1>3 DEF Own, IsCopy, TypeOK
  <1>11. Steps' BY DEF Steps, Idle, OneCaller
  <1> QED BY <1>1, <1>7, <1>8, <1>9, <1>10, <1>11

(* A record taken off its list is the caller's until its own count went down. *)
LEMMA PopInv ==
  ASSUME OneCaller, Inv, NEW t \in Threads, NEW r \in Records, Pop(t, r)
  PROVE  Inv'
  <1> USE DEF Pop, Goto, Inv
  <1>1. TypeOK' BY DEF TypeOK, Idle, AfterTest
  <1>2. \A x \in Records : Copies(x)' = Copies(x) BY DEF Copies
  <1>3. (\A x : ~Popped(x)) /\ (\A x : Popped(x)' <=> x = r)
    BY PoppedByCaller DEF Popped, Idle, TypeOK, AfterTest, OneCaller
  <1>4. \A x \in Records : InUse(x)' <=> InUse(x) BY <1>3 DEF InUse
  <1>5. Counted' BY <1>2, <1>4 DEF Counted
  <1>6. Parked' BY <1>2, <1>4 DEF Parked
  <1>7. Sources' BY <1>3 DEF Sources, IsCopy
  <1>8. Own' BY DEF Own, IsCopy
  <1>9. Steps'
    BY DEF Steps, Idle, AfterTest, IsCopy, OneCaller, TypeOK
  <1> QED BY <1>1, <1>5, <1>6, <1>7, <1>8, <1>9

(* A copy is one of the copies of its source, and with it goes one of them. *)
LEMMA Detached ==
  ASSUME OneCaller, Inv, NEW t \in Threads, ~Idle(t), IsCopy(rec[t]), Detach(t),
         NEW r, r = rec[t], NEW s, s = rec_copy_node[r]
  PROVE  /\ r \in Records /\ s \in Records /\ r # s /\ ~IsCopy(s)
         /\ Cardinality(Copies(s)) \in Nat \ {0}
         /\ Cardinality(Copies(s)') = Cardinality(Copies(s)) - 1
         /\ Copies(s)' = Copies(s) \ {r}
         /\ \A x \in Records : x # s => Copies(x)' = Copies(x)
         /\ rec_copy_node'[r] = NULL
  <1> USE RecordsAssumption DEF Inv
  <1>1. r \in Records /\ s \in Records /\ r # s /\ ~IsCopy(s)
    BY DEF Steps, Sources, IsCopy, TypeOK
  <1>2. r \in Copies(s) BY <1>1 DEF Copies
  <1>3. Copies(s)' = Copies(s) \ {r} BY <1>1 DEF Copies, Detach, TypeOK, IsCopy
  <1>4. IsFiniteSet(Copies(s)) /\ Cardinality(Copies(s)) \in Nat BY CopiesFinite
  <1>5. Cardinality(Copies(s)) # 0 BY <1>2, <1>4, FS_EmptySet
  <1>6. Cardinality(Copies(s)') = Cardinality(Copies(s)) - 1
    <2> DEFINE S == Copies(s)
    <2>1. IsFiniteSet(S) /\ r \in S BY <1>2, <1>4
    <2>2. Copies(s)' = S \ {r} BY <1>3
    <2> HIDE DEF S
    <2>3. Cardinality(S \ {r}) = Cardinality(S) - 1 BY ONLY <2>1, FS_RemoveElement
    <2>4. QED BY <2>2, <2>3 DEF S
  <1>7. \A x \in Records : x # s => Copies(x)' = Copies(x)
    BY <1>1 DEF Copies, Detach, TypeOK, IsCopy
  <1>8. rec_copy_node'[r] = NULL BY <1>1 DEF Detach, TypeOK
  <1> QED BY <1>1, <1>3, <1>4, <1>5, <1>6, <1>7, <1>8

(* The last copy of a record that was recycled before brings it back to its root. *)
LEMMA RecycleSrcInv ==
  ASSUME OneCaller, Inv, NEW t \in Threads, RecycleSrc(t)
  PROVE  Inv'
  <1> USE RecordsAssumption DEF RecycleSrc, Goto, Inv
  <1>0. PICK r, s : r = rec[t] /\ s = rec_copy_node[r] OBVIOUS
  <1> USE <1>0
  <1>1. ~Idle(t) /\ IsCopy(r) /\ ref_count[s] = 1 BY DEF Steps, Idle
  <1>2. /\ r \in Records /\ s \in Records /\ r # s /\ ~IsCopy(s)
        /\ Cardinality(Copies(s)) \in Nat \ {0}
        /\ Cardinality(Copies(s)') = Cardinality(Copies(s)) - 1
        /\ Copies(s)' = Copies(s) \ {r}
        /\ \A x \in Records : x # s => Copies(x)' = Copies(x)
        /\ rec_copy_node'[r] = NULL
    BY <1>1, Detached
  <1>3. Cardinality(Copies(s)) = 1 /\ ~InUse(s) BY <1>1, <1>2 DEF Counted
  <1>4. IsFiniteSet(Copies(s)')
    <2> DEFINE S == Copies(s)
    <2>1. IsFiniteSet(S) /\ Copies(s)' = S \ {r} BY <1>2, CopiesFinite
    <2> HIDE DEF S
    <2>2. IsFiniteSet(S \ {r}) BY ONLY <2>1, FS_RemoveElement
    <2>3. QED BY ONLY <2>1, <2>2
  <1>5. Copies(s)' = {} BY <1>2, <1>3, <1>4, FS_EmptySet
  <1>6. ref_count' = [ref_count EXCEPT ![s] = 1] /\ free' = free \cup {s} BY <1>1 DEF Drop
  <1>7. TypeOK' BY <1>1, <1>2, <1>3, <1>6 DEF TypeOK, InUse, Detach, Idle
  <1>8. \A x : Popped(x)' <=> Popped(x) BY <1>1 DEF Popped, Idle, TypeOK, OneCaller
  <1>9. \A x \in Records : InUse(x)' <=> InUse(x) \/ x = s BY <1>6, <1>8 DEF InUse
  <1>10. Counted'
    <2> SUFFICES ASSUME NEW x \in Records
                 PROVE  ref_count'[x] = Cardinality(Copies(x)') + IF InUse(x)' THEN 1 ELSE 0
      BY DEF Counted
    <2>1. CASE x = s BY <2>1, <1>2, <1>3, <1>6, <1>9 DEF TypeOK
    <2>2. CASE x # s BY <2>2, <1>2, <1>6, <1>9 DEF Counted, TypeOK
    <2> QED BY <2>1, <2>2
  <1>11. Parked' BY <1>2, <1>9 DEF Parked
  <1>12. Sources'
    <2> SUFFICES ASSUME NEW c \in Records, IsCopy(c)'
                 PROVE  /\ ~IsCopy(rec_copy_node[c])' /\ rec_copy_node'[c] \notin free'
                        /\ c \in held' \/ Popped(c)'
                        /\ buffer'[c] = rec_copy_node'[c]
      BY DEF Sources
    <2>1. c # r /\ rec_copy_node'[c] = rec_copy_node[c] /\ IsCopy(c)
      BY <1>2 DEF IsCopy, Detach, TypeOK
    <2>2. rec_copy_node[c] # s BY <1>5, <2>1 DEF Copies
    <2>3. ~IsCopy(rec_copy_node[c])'
      BY <2>1, <1>2 DEF Sources, IsCopy, Detach, TypeOK
    <2> QED BY <2>1, <2>2, <2>3, <1>6, <1>8 DEF Sources
  <1>13. Own' BY <1>1 DEF Own, IsCopy, Detach, Steps, TypeOK
  <1>14. Steps'
    BY <1>1, <1>2, <1>6 DEF Steps, IsCopy, Idle, OneCaller, TypeOK
  <1> QED BY <1>7, <1>10, <1>11, <1>12, <1>13, <1>14

(* A copy that is not the last, or whose source is still in use, takes its count. *)
LEMMA DropSrcInv ==
  ASSUME OneCaller, Inv, NEW t \in Threads, DropSrc(t)
  PROVE  Inv'
  <1> USE RecordsAssumption DEF DropSrc, Goto, Inv
  <1>0. PICK r, s : r = rec[t] /\ s = rec_copy_node[r] OBVIOUS
  <1> USE <1>0
  <1>1. ~Idle(t) /\ IsCopy(r) /\ ref_count[s] # 1 BY DEF Steps, Idle
  <1>2. /\ r \in Records /\ s \in Records /\ r # s /\ ~IsCopy(s)
        /\ Cardinality(Copies(s)) \in Nat \ {0}
        /\ Cardinality(Copies(s)') = Cardinality(Copies(s)) - 1
        /\ Copies(s)' = Copies(s) \ {r}
        /\ \A x \in Records : x # s => Copies(x)' = Copies(x)
        /\ rec_copy_node'[r] = NULL
    BY <1>1, Detached
  <1>3. ref_count[s] = Cardinality(Copies(s)) + (IF InUse(s) THEN 1 ELSE 0) BY <1>2 DEF Counted
  <1>4. ref_count[s] - 1 \in Nat BY <1>2, <1>3
  <1>5. TypeOK' BY <1>1, <1>2, <1>4 DEF TypeOK, Detach, Idle
  <1>6. \A x : Popped(x)' <=> Popped(x) BY <1>1 DEF Popped, Idle, TypeOK, OneCaller
  <1>7. \A x \in Records : InUse(x)' <=> InUse(x) BY <1>6 DEF InUse
  <1>8. Counted'
    <2> SUFFICES ASSUME NEW x \in Records
                 PROVE  ref_count'[x] = Cardinality(Copies(x)') + IF InUse(x)' THEN 1 ELSE 0
      BY DEF Counted
    <2>1. CASE x = s BY <2>1, <1>2, <1>3, <1>7 DEF TypeOK
    <2>2. CASE x # s BY <2>2, <1>2, <1>7 DEF Counted, TypeOK
    <2> QED BY <2>1, <2>2
  <1>9. Parked'
    <2>1. ASSUME ~InUse(s) PROVE Copies(s)' # {}
      <3>1. Cardinality(Copies(s)') # 0 BY <2>1, <1>1, <1>2, <1>3
      <3> QED BY <3>1, FS_EmptySet
    <2> QED BY <2>1, <1>2, <1>7 DEF Parked
  <1>10. Sources'
    <2> SUFFICES ASSUME NEW c \in Records, IsCopy(c)'
                 PROVE  /\ ~IsCopy(rec_copy_node[c])' /\ rec_copy_node'[c] \notin free'
                        /\ c \in held' \/ Popped(c)'
                        /\ buffer'[c] = rec_copy_node'[c]
      BY DEF Sources
    <2>1. c # r /\ rec_copy_node'[c] = rec_copy_node[c] /\ IsCopy(c)
      BY <1>2 DEF IsCopy, Detach, TypeOK
    <2>2. ~IsCopy(rec_copy_node[c])'
      BY <2>1, <1>2 DEF Sources, IsCopy, Detach, TypeOK
    <2> QED BY <2>1, <2>2, <1>6 DEF Sources
  <1>11. Own' BY <1>1 DEF Own, IsCopy, Detach, Steps, TypeOK
  <1>12. Steps'
    BY <1>1, <1>2 DEF Steps, IsCopy, Idle, OneCaller, TypeOK
  <1> QED BY <1>5, <1>8, <1>9, <1>10, <1>11, <1>12

(* A record goes back to its root when no copy of it is left. *)
LEMMA DropSelfInv ==
  ASSUME OneCaller, Inv, NEW t \in Threads, DropSelf(t)
  PROVE  Inv'
  <1> USE RecordsAssumption DEF DropSelf, Goto, Inv
  <1>0. PICK r : r = rec[t] OBVIOUS
  <1> USE <1>0
  <1>1. ~Idle(t) /\ ~IsCopy(r) /\ r \in Records /\ r \notin free /\ r \notin held
    BY DEF Steps, Idle
  <1>2. Popped(r) /\ (\A x : Popped(x) => x = r) /\ (\A x : ~Popped(x)')
    BY <1>1, PoppedByCaller DEF Popped, Idle, TypeOK, OneCaller
  <1>3. \A x \in Records : Copies(x)' = Copies(x) BY DEF Copies
  <1>4. IsFiniteSet(Copies(r)) /\ Cardinality(Copies(r)) \in Nat BY CopiesFinite
  <1>5. ref_count[r] = Cardinality(Copies(r)) + 1 BY <1>1, <1>2 DEF Counted, InUse
  <1>6. \A c \in Records : IsCopy(c) => c \in held BY <1>1, <1>2 DEF Sources
  <1>7. CASE ref_count[r] - 1 = 0
    <2>1. free' = free \cup {r} /\ ref_count' = [ref_count EXCEPT ![r] = 1] BY <1>7 DEF Drop
    <2>2. Copies(r) = {} BY <1>4, <1>5, <1>7, FS_EmptySet
    <2>3. TypeOK' BY <1>1, <2>1 DEF TypeOK, Idle
    <2>4. \A x \in Records : InUse(x)' <=> InUse(x) BY <1>2, <2>1 DEF InUse
    <2>5. Counted' BY <1>1, <1>2, <1>3, <1>5, <1>7, <2>1, <2>4 DEF Counted, TypeOK
    <2>6. Parked' BY <1>3, <2>4 DEF Parked
    <2>7. Sources' BY <1>6, <2>1, <2>2 DEF Sources, IsCopy, Copies
    <2>8. Own' BY DEF Own, IsCopy
    <2>9. Steps' BY DEF Steps, Idle, OneCaller, TypeOK
    <2> QED BY <2>3, <2>5, <2>6, <2>7, <2>8, <2>9
  <1>8. CASE ref_count[r] - 1 # 0
    <2>1. free' = free /\ ref_count' = [ref_count EXCEPT ![r] = @ - 1] BY <1>8 DEF Drop
    <2>2. Copies(r) # {} BY <1>4, <1>5, <1>8, FS_EmptySet
    <2>3. TypeOK' BY <1>1, <1>4, <1>5, <2>1 DEF TypeOK, Idle
    <2>4. \A x \in Records : InUse(x)' <=> InUse(x) /\ x # r BY <1>1, <1>2, <2>1 DEF InUse
    <2>5. Counted'
      <3> SUFFICES ASSUME NEW x \in Records
                   PROVE  ref_count'[x] = Cardinality(Copies(x)') + IF InUse(x)' THEN 1 ELSE 0
        BY DEF Counted
      <3>1. CASE x = r BY <3>1, <1>3, <1>4, <1>5, <2>1, <2>4 DEF TypeOK
      <3>2. CASE x # r BY <3>2, <1>3, <2>1, <2>4 DEF Counted, TypeOK
      <3> QED BY <3>1, <3>2
    <2>6. Parked' BY <1>3, <2>2, <2>4 DEF Parked
    <2>7. Sources' BY <1>6, <2>1 DEF Sources, IsCopy
    <2>8. Own' BY DEF Own, IsCopy
    <2>9. Steps' BY DEF Steps, Idle, OneCaller, TypeOK
    <2> QED BY <2>3, <2>5, <2>6, <2>7, <2>8, <2>9
  <1> QED BY <1>7, <1>8

(* The inductive invariant holds in every reachable state. *)
THEOREM InvCorrect == OneCaller => (Spec => []Inv)
  <1> SUFFICES ASSUME OneCaller PROVE Spec => []Inv OBVIOUS
  <1>1. Inv /\ [Next]_vars => Inv'
    <2> SUFFICES ASSUME Inv, [Next]_vars PROVE Inv' OBVIOUS
    <2>1. ASSUME NEW t \in Threads, NEW r \in Records, ReadRow(t, r) PROVE Inv' BY <2>1, ReadRowInv
    <2>2. ASSUME NEW t \in Threads, NEW s \in Records, NEW r \in Records, Copy(t, s, r) PROVE Inv'
      BY <2>2, CopyInv
    <2>3. ASSUME NEW t \in Threads, NEW r \in Records, Pop(t, r) PROVE Inv' BY <2>3, PopInv
    <2>4. ASSUME NEW t \in Threads, RecycleSrc(t) PROVE Inv' BY <2>4, RecycleSrcInv
    <2>5. ASSUME NEW t \in Threads, DropSrc(t) PROVE Inv' BY <2>5, DropSrcInv
    <2>6. ASSUME NEW t \in Threads, DropSelf(t) PROVE Inv' BY <2>6, DropSelfInv
    <2>7. CASE UNCHANGED vars
      BY <2>7 DEF vars, Inv, TypeOK, Counted, Parked, Sources, Own, Steps, InUse, Popped, Copies, IsCopy, Idle
    <2> QED BY <2>1, <2>2, <2>3, <2>4, <2>5, <2>6, <2>7 DEF Next, Recycle
  <1> QED BY <1>1, InitInv, PTL DEF Spec

(* The variables keep their types, and no record is both free and in the pipeline: with
   one caller and no copies of copies, for any number of records. *)
THEOREM RecordTypeCorrect == OneCaller => (Spec => []TypeOK)
  <1>1. Inv => TypeOK BY DEF Inv
  <1> QED BY <1>1, InvCorrect, PTL

(* No record in the pipeline shows a buffer that fql_read may fill again. *)
THEOREM BufferCorrect == OneCaller => (Spec => []NotOverwritten)
  <1>1. Inv => NotOverwritten
    BY DEF Inv, NotOverwritten, Own, Sources, TypeOK, IsCopy
  <1> QED BY <1>1, InvCorrect, PTL

(* Every record that is neither free nor in the pipeline comes back with a copy. *)
THEOREM NoneLost == OneCaller => (Spec => []NeverLost)
  <1>1. ASSUME Inv, \A t \in Threads : Idle(t), NEW r \in Records \ (free \cup held)
        PROVE  \E c \in held : rec_copy_node[c] = r
    <2>1. \A x : ~Popped(x) BY <1>1 DEF Popped
    <2>2. PICK c \in Records : rec_copy_node[c] = r BY <1>1, <2>1 DEF Inv, Parked, InUse, Copies
    <2>3. c \in held BY <1>1, <2>1, <2>2, RecordsAssumption DEF Inv, Sources, IsCopy
    <2> QED BY <2>2, <2>3
  <1>2. Inv => NeverLost BY <1>1 DEF NeverLost
  <1> QED BY <1>2, InvCorrect, PTL
=============================================================================
