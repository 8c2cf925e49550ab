---------------------------- MODULE HashMapProofs ----------------------------
(***************************************************************************)
(* For every set of keys, every hash function, every first size and every  *)
(* number of calls: a table is well formed, its searches end, a stored key *)
(* is found, and the table implements a map.                               *)
(***************************************************************************)
EXTENDS HashMap, FiniteSetTheorems, WellFoundedInduction, TLAPS

------------------------------------------------------------------------------
(* Searching *)

(* A set of numbers that is not empty has a least element. *)
LEMMA LeastOf ==
  ASSUME NEW T, T \subseteq Nat, T # {}
  PROVE  \E x \in T : \A y \in T : x <= y
<1>1. PICK x \in T : \A y \in T : <<y, x>> \notin OpToRel(<, Nat)
  BY NatLessThanWellFounded, WFMin
<1>2. ASSUME NEW y \in T PROVE x <= y
  <2>1. <<y, x>> \notin OpToRel(<, Nat)
    BY <1>1
  <2>2. <<y, x>> \in Nat \X Nat
    OBVIOUS
  <2>3. ~(y < x)
    BY <2>1, <2>2 DEF OpToRel
  <2>4. QED
    BY <2>3
<1>3. QED
  BY <1>2

LEMMA HomeIs ==
  ASSUME NEW h \in Nat, NEW l \in Nat \ {0} PROVE Home(h, l) \in 0 .. l - 1
  BY DEF Home

(* The steps of a search lead to every slot once. *)
LEMMA AtIs ==
  ASSUME NEW h \in Nat, NEW l \in Nat \ {0}
  PROVE  /\ \A d \in 0 .. l - 1 : At(h, d, l) \in 0 .. l - 1
         /\ \A s \in 0 .. l - 1 : \E d \in 0 .. l - 1 : At(h, d, l) = s
<1>1. Home(h, l) \in 0 .. l - 1
  BY HomeIs
<1>2. \A d \in 0 .. l - 1 : At(h, d, l) \in 0 .. l - 1
  BY <1>1 DEF At
<1>3. ASSUME NEW s \in 0 .. l - 1 PROVE \E d \in 0 .. l - 1 : At(h, d, l) = s
  <2>1. CASE s >= Home(h, l)
    <3>1. s - Home(h, l) \in 0 .. l - 1 /\ At(h, s - Home(h, l), l) = s
      BY <1>1, <2>1 DEF At
    <3>2. QED
      BY <3>1
  <2>2. CASE s < Home(h, l)
    <3>1. s - Home(h, l) + l \in 0 .. l - 1 /\ At(h, s - Home(h, l) + l, l) = s
      BY <1>1, <2>2 DEF At
    <3>2. QED
      BY <3>1
  <2>3. QED
    BY <1>1, <2>1, <2>2
<1>4. QED
  BY <1>2, <1>3

LEMMA AtOnce ==
  ASSUME NEW h \in Nat, NEW l \in Nat \ {0}, NEW d \in 0 .. l - 1, NEW e \in 0 .. d - 1
  PROVE  e \in 0 .. l - 1 /\ At(h, d, l) # At(h, e, l)
<1>1. Home(h, l) \in 0 .. l - 1
  BY HomeIs
<1>2. QED
  BY <1>1 DEF At

(* A search that can stop anywhere stops at a slot of S and passes none before. *)
LEMMA FirstIs ==
  ASSUME NEW h \in Nat, NEW l \in Nat \ {0}, NEW S, S \subseteq 0 .. l - 1, S # {}
  PROVE  \E d \in 0 .. l - 1 :
           /\ FirstOf(h, S, l) = At(h, d, l)
           /\ At(h, d, l) \in S
           /\ \A e \in 0 .. d - 1 : At(h, e, l) \notin S
<1> DEFINE D == {d \in 0 .. l - 1 : At(h, d, l) \in S}
           Least(d) == At(h, d, l) \in S
                       /\ \A e \in 0 .. l - 1 : At(h, e, l) \in S => d <= e
           c == CHOOSE d \in 0 .. l - 1 : Least(d)
<1>1. D \subseteq Nat /\ D # {}
  <2>1. PICK s \in 0 .. l - 1 : s \in S
    OBVIOUS
  <2>2. PICK d \in 0 .. l - 1 : At(h, d, l) = s
    BY <2>1, AtIs
  <2>3. d \in D
    BY <2>1, <2>2
  <2>4. QED
    BY <2>3
<1>2. PICK d \in D : \A e \in D : d <= e
  <2> HIDE DEF D
  <2>1. QED
    BY <1>1, LeastOf
<1>3. d \in 0 .. l - 1 /\ Least(d)
  BY <1>2
<1>4. c \in 0 .. l - 1 /\ Least(c)
  BY <1>3
<1>5. \A e \in 0 .. c - 1 : At(h, e, l) \notin S
  BY <1>4
<1>6. FirstOf(h, S, l) = At(h, c, l)
  BY DEF FirstOf
<1>7. QED
  BY <1>4, <1>5, <1>6

(* There is only one such slot. *)
LEMMA FirstUnique ==
  ASSUME NEW h \in Nat, NEW l \in Nat \ {0}, NEW S, S \subseteq 0 .. l - 1,
         NEW d \in 0 .. l - 1, At(h, d, l) \in S,
         \A e \in 0 .. d - 1 : At(h, e, l) \notin S
  PROVE  FirstOf(h, S, l) = At(h, d, l)
<1>1. PICK c \in 0 .. l - 1 :
        /\ FirstOf(h, S, l) = At(h, c, l)
        /\ At(h, c, l) \in S
        /\ \A e \in 0 .. c - 1 : At(h, e, l) \notin S
  BY FirstIs
<1>2. ~(c < d) /\ ~(d < c)
  BY <1>1
<1>3. QED
  BY <1>1, <1>2

(* A table with fewer entries than slots has a free slot. *)
LEMMA FreeSlot ==
  ASSUME NEW l \in Nat \ {0}, NEW t, DOMAIN t = 0 .. l - 1, Cardinality(Used(t)) < l
  PROVE  \E s \in 0 .. l - 1 : t[s] = None
<1>1. SUFFICES ASSUME \A s \in 0 .. l - 1 : t[s] # None PROVE FALSE
  OBVIOUS
<1>2. Used(t) = 0 .. l - 1
  BY <1>1 DEF Used
<1>3. Cardinality(0 .. l - 1) = l
  BY FS_Interval
<1>4. QED
  BY <1>2, <1>3

LEMMA UsedFinite ==
  ASSUME NEW l \in Nat, NEW t, DOMAIN t = 0 .. l - 1
  PROVE  IsFiniteSet(Used(t)) /\ Cardinality(Used(t)) \in Nat /\ Cardinality(Used(t)) <= l
<1>1. IsFiniteSet(0 .. l - 1) /\ Cardinality(0 .. l - 1) = l
  BY FS_Interval
<1>2. Used(t) \in SUBSET (0 .. l - 1)
  BY DEF Used
<1>3. QED
  BY <1>1, <1>2, FS_Subset, FS_CardinalityType

(* Filling a free slot adds it to the used ones. *)
LEMMA UsedAfterFill ==
  ASSUME NEW l \in Nat, NEW t, DOMAIN t = 0 .. l - 1, NEW s, t[s] = None
  PROVE  s \notin Used(t) /\ Cardinality(Used(t) \cup {s}) = Cardinality(Used(t)) + 1
<1>1. s \notin Used(t)
  BY DEF Used
<1>2. IsFiniteSet(Used(t))
  BY UsedFinite
<1>3. QED
  BY <1>1, <1>2, FS_AddElement

------------------------------------------------------------------------------
(* The invariant *)

KeyOf(t, s) == keybuf[t[s].key]

(* Every entry refers to a key and a value that exist, and has the key's hash. *)
WellFormed(t) ==
  \A s \in Used(t) :
    /\ t[s] \in Entry
    /\ t[s].key \in 1 .. Len(keybuf)
    /\ t[s].hash = Hash[KeyOf(t, s)]
    /\ kind # "set" => t[s].val \in 1 .. Len(values)

(* No two entries have the same key or share a value. *)
Apart(t) ==
  \A s, u \in Used(t) :
    s # u => /\ KeyOf(t, s) # KeyOf(t, u)
             /\ kind # "set" => t[s].val # t[u].val

(* Between the home of an entry and the entry there is no free slot. *)
Reachable(t, l) ==
  \A s \in Used(t) :
    \E d \in 0 .. l - 1 : /\ At(t[s].hash, d, l) = s
                          /\ \A e \in 0 .. d - 1 : t[At(t[s].hash, e, l)] # None

(* How far _increase_size is: the entries of the old table before i, and no
   others, are in the new one, once each. *)
Moved == {j \in Used(src) : j < i}

Copied ==
  /\ \A s \in Used(entries) : \E j \in Moved : src[j] = entries[s]
  /\ \A j \in Moved : \E s \in Used(entries) : src[j] = entries[s]
  /\ \A s, u \in Used(entries) : entries[s] = entries[u] => s = u
  /\ Cardinality(Used(entries)) = Cardinality(Moved)

(* There are no more entries than the number that decides when to grow. *)
Room ==
  /\ pc = "idle" => ~TooFull(Size, limit)
  /\ pc = "grow" => Size <= limit
  /\ pc # "rehash" => Cardinality(Used(entries)) <= Size
  /\ pc = "rehash" => /\ Size <= oldLimit /\ limit = 2 * oldLimit
                      /\ Cardinality(Used(src)) <= Size

MapInv ==
  /\ TypeOK
  /\ Reachable(entries, limit)
  /\ pc # "rehash" => WellFormed(entries) /\ Apart(entries)
  /\ pc = "rehash" => WellFormed(src) /\ Apart(src) /\ Copied
  /\ Room

LEMMA SizeNat == TypeOK => Size \in Nat
  BY DEF TypeOK, Size

(* The search for a key that is there ends at it. *)
LEMMA FoundIs ==
  ASSUME MapInv, pc # "rehash", NEW s \in Used(entries)
  PROVE  GetEntry(KeyOf(entries, s)) = s
<1> DEFINE k == KeyOf(entries, s)
           S == {x \in 0 .. limit - 1 : entries[x] = None \/ Matches(entries[x], k)}
<1>1. /\ limit \in Nat \ {0} /\ DOMAIN entries = 0 .. limit - 1
  BY DEF MapInv, TypeOK
<1>2. /\ entries[s] \in Entry /\ entries[s].hash = Hash[k]
      /\ entries[s].hash \in Nat /\ s \in 0 .. limit - 1
  BY <1>1 DEF MapInv, WellFormed, Used, Entry
<1>3. PICK d \in 0 .. limit - 1 :
        /\ At(Hash[k], d, limit) = s
        /\ \A e \in 0 .. d - 1 : entries[At(Hash[k], e, limit)] # None
  BY <1>2 DEF MapInv, Reachable
<1>4. s \in S
  BY <1>2 DEF Matches, KeyOf
<1>5. ASSUME NEW e \in 0 .. d - 1 PROVE At(Hash[k], e, limit) \notin S
  <2> DEFINE x == At(Hash[k], e, limit)
  <2>1. x # s /\ x \in 0 .. limit - 1 /\ entries[x] # None
    <3>1. Hash[k] \in Nat
      BY <1>2
    <3>2. e \in 0 .. limit - 1 /\ x # s
      BY <1>1, <1>3, <3>1, AtOnce
    <3>3. QED
      BY <1>1, <1>3, <3>1, <3>2, AtIs
  <2>2. x \in Used(entries)
    BY <1>1, <2>1 DEF Used
  <2>3. KeyOf(entries, x) # k
    BY <1>1, <2>1, <2>2 DEF MapInv, Apart
  <2>4. QED
    BY <2>1, <2>3 DEF Matches, KeyOf
<1>6. FirstOf(Hash[k], S, limit) = At(Hash[k], d, limit)
  <2> HIDE DEF S, k
  <2>1. S \subseteq 0 .. limit - 1 /\ At(Hash[k], d, limit) \in S
    BY <1>3, <1>4 DEF S
  <2>2. Hash[k] \in Nat
    BY <1>2
  <2>3. QED
    BY <1>1, <1>5, <2>1, <2>2, FirstUnique
<1>7. QED
  BY <1>3, <1>6 DEF GetEntry

(* A search has a free slot to end at. *)
LEMMA FreeSlotIs ==
  ASSUME MapInv, pc \in {"idle", "rehash"}
  PROVE  \E s \in 0 .. limit - 1 : entries[s] = None
<1>1. limit \in Nat \ {0} /\ DOMAIN entries = 0 .. limit - 1 /\ Size \in Nat
  BY SizeNat DEF MapInv, TypeOK
<1>2. CASE pc = "idle"
  <2>1. Cardinality(Used(entries)) <= Size /\ 10 * Size <= 9 * limit
    BY <1>1, <1>2 DEF MapInv, Room, TooFull
  <2>2. Cardinality(Used(entries)) \in Nat
    BY <1>1, UsedFinite
  <2>3. Cardinality(Used(entries)) < limit
    BY <1>1, <2>1, <2>2
  <2>4. QED
    BY <1>1, <2>3, FreeSlot
<1>3. CASE pc = "rehash"
  <2>1. oldLimit \in Nat /\ DOMAIN src = 0 .. oldLimit - 1 /\ limit = 2 * oldLimit
    BY <1>3 DEF MapInv, TypeOK, Room
  <2>2. IsFiniteSet(Used(src)) /\ Cardinality(Used(src)) <= oldLimit
    BY <2>1, UsedFinite
  <2>3. Cardinality(Moved) <= Cardinality(Used(src))
    BY <2>2, FS_Subset DEF Moved
  <2>4. Cardinality(Used(entries)) = Cardinality(Moved)
    BY <1>3 DEF MapInv, Copied
  <2>5. Cardinality(Used(entries)) \in Nat /\ Cardinality(Used(src)) \in Nat
    BY <1>1, <2>1, UsedFinite
  <2>6. Cardinality(Used(entries)) < limit
    BY <1>1, <2>1, <2>2, <2>3, <2>4, <2>5
  <2>7. QED
    BY <1>1, <2>6, FreeSlot
<1>4. QED
  BY <1>2, <1>3

(* What a search for a key finds: a free slot or the key's entry. *)
LEMMA GetEntryIs ==
  ASSUME MapInv, pc = "idle", NEW k \in Stored
  PROVE  /\ GetEntry(k) \in 0 .. limit - 1
         /\ entries[GetEntry(k)] # None =>
              /\ GetEntry(k) \in Used(entries)
              /\ KeyOf(entries, GetEntry(k)) = k
         /\ entries[GetEntry(k)] = None =>
              /\ k \notin {KeyOf(entries, s) : s \in Used(entries)}
              /\ \E d \in 0 .. limit - 1 :
                   /\ At(Hash[k], d, limit) = GetEntry(k)
                   /\ \A e \in 0 .. d - 1 : entries[At(Hash[k], e, limit)] # None
<1> DEFINE S == {s \in 0 .. limit - 1 : entries[s] = None \/ Matches(entries[s], k)}
<1>1. limit \in Nat \ {0} /\ DOMAIN entries = 0 .. limit - 1 /\ Hash[k] \in Nat
  BY KeysAssumption DEF MapInv, TypeOK
<1>2. S # {}
  BY FreeSlotIs
<1>3. PICK d \in 0 .. limit - 1 :
        /\ FirstOf(Hash[k], S, limit) = At(Hash[k], d, limit)
        /\ At(Hash[k], d, limit) \in S
        /\ \A e \in 0 .. d - 1 : At(Hash[k], e, limit) \notin S
  <2> HIDE DEF S
  <2>1. S \subseteq 0 .. limit - 1
    BY DEF S
  <2>2. QED
    BY <1>1, <1>2, <2>1, FirstIs
<1>4. GetEntry(k) = At(Hash[k], d, limit) /\ GetEntry(k) \in S
  BY <1>3 DEF GetEntry
<1>5. entries[GetEntry(k)] # None =>
        GetEntry(k) \in Used(entries) /\ KeyOf(entries, GetEntry(k)) = k
  BY <1>1, <1>4 DEF Used, Matches, KeyOf
<1>6. entries[GetEntry(k)] = None => k \notin {KeyOf(entries, s) : s \in Used(entries)}
  <2>1. ASSUME NEW s \in Used(entries), KeyOf(entries, s) = k
        PROVE  entries[GetEntry(k)] # None
    <3>1. GetEntry(k) = s
      BY <2>1, FoundIs
    <3>2. QED
      BY <3>1 DEF Used
  <2>2. QED
    BY <2>1
<1>7. ASSUME NEW e \in 0 .. d - 1 PROVE entries[At(Hash[k], e, limit)] # None
  <2>1. At(Hash[k], e, limit) \in 0 .. limit - 1
    <3>1. e \in 0 .. limit - 1
      BY <1>1
    <3>2. QED
      BY <1>1, <3>1, AtIs
  <2>2. QED
    BY <1>3, <2>1
<1>8. QED
  BY <1>4, <1>5, <1>6, <1>7

------------------------------------------------------------------------------
(* Every action keeps the invariant. *)

(* Filling the free slot at which a search ended keeps all entries reachable. *)
LEMMA ReachableAfterFill ==
  ASSUME NEW l \in Nat \ {0}, NEW t, DOMAIN t = 0 .. l - 1, Reachable(t, l),
         NEW x, x # None, x.hash \in Nat, \A s \in Used(t) : t[s].hash \in Nat,
         NEW d \in 0 .. l - 1, t[At(x.hash, d, l)] = None,
         \A e \in 0 .. d - 1 : t[At(x.hash, e, l)] # None
  PROVE  Reachable([t EXCEPT ![At(x.hash, d, l)] = x], l)
<1> DEFINE f == At(x.hash, d, l)
           n == [t EXCEPT ![f] = x]
<1>1. f \in 0 .. l - 1
  BY AtIs
<1>2. Used(n) = Used(t) \cup {f}
  BY <1>1 DEF Used
<1>3. \A y \in 0 .. l - 1 : t[y] # None => n[y] = t[y] /\ n[y] # None
  OBVIOUS
<1>4. n[f] = x
  BY <1>1
<1>5. ASSUME NEW s \in Used(n)
      PROVE  \E c \in 0 .. l - 1 : /\ At(n[s].hash, c, l) = s
                                   /\ \A e \in 0 .. c - 1 : n[At(n[s].hash, e, l)] # None
  <2>1. CASE s = f
    <3>1. ASSUME NEW e \in 0 .. d - 1 PROVE n[At(x.hash, e, l)] # None
      <4>1. At(x.hash, e, l) \in 0 .. l - 1
        BY AtOnce, AtIs
      <4>2. QED
        BY <1>3, <4>1
    <3>2. QED
      BY <1>4, <2>1, <3>1
  <2>2. CASE s \in Used(t)
    <3>1. s \in 0 .. l - 1 /\ t[s] # None /\ n[s] = t[s] /\ t[s].hash \in Nat
      BY <1>3, <2>2 DEF Used
    <3>2. PICK c \in 0 .. l - 1 : /\ At(t[s].hash, c, l) = s
                                  /\ \A e \in 0 .. c - 1 : t[At(t[s].hash, e, l)] # None
      BY <2>2 DEF Reachable
    <3>3. ASSUME NEW e \in 0 .. c - 1 PROVE n[At(t[s].hash, e, l)] # None
      <4>1. At(t[s].hash, e, l) \in 0 .. l - 1
        BY <3>1, AtOnce, AtIs
      <4>2. QED
        BY <1>3, <3>2, <4>1
    <3>4. QED
      BY <3>1, <3>2, <3>3
  <2>3. QED
    BY <1>2, <1>5, <2>1, <2>2
<1>6. QED
  BY <1>5 DEF Reachable

LEMMA EmptyIs ==
  ASSUME NEW l \in Nat \ {0}
  PROVE  /\ EmptyTable(l) \in [0 .. l - 1 -> Entry \cup {None}]
         /\ Used(EmptyTable(l)) = {}
         /\ Cardinality(Used(EmptyTable(l))) = 0
<1>1. Used(EmptyTable(l)) = {}
  BY DEF EmptyTable, Used
<1>2. QED
  BY <1>1, FS_EmptySet DEF EmptyTable

LEMMA InitInv == Init => MapInv
<1>1. SUFFICES ASSUME Init PROVE MapInv
  OBVIOUS
<1>2. limit \in Nat \ {0} 
  BY <1>1, SizeAssumption DEF Init
<1>3. Used(entries) = {} /\ Cardinality(Used(entries)) = 0
  BY <1>1, <1>2, EmptyIs DEF Init
<1>4. TypeOK
  <2>1. src \in [0 .. oldLimit - 1 -> Entry \cup {None}]
    BY <1>1 DEF Init
  <2>2. entries \in [0 .. limit - 1 -> Entry \cup {None}]
    BY <1>1, <1>2, EmptyIs DEF Init
  <2>3. QED
    BY <1>1, <1>2, <2>1, <2>2, SizeAssumption DEF Init, TypeOK
<1>5. Size = 0
  BY <1>1 DEF Init, Size
<1>6. Room
  BY <1>1, <1>2, <1>3, <1>5 DEF Init, Room, TooFull
<1>7. QED
  BY <1>1, <1>2, <1>3, <1>4, <1>6 DEF Init, MapInv, WellFormed, Apart, Reachable

LEMMA PutNewInv ==
  ASSUME MapInv, NEW k \in Stored, NEW d \in Data, PutNew(k, d)
  PROVE  MapInv'
<1> DEFINE f == GetEntry(k)
           x == [hash |-> Hash[k], key |-> Len(keybuf) + 1,
                 val  |-> IF kind = "set" THEN 0 ELSE Len(values) + 1]
<1>1. /\ limit \in Nat \ {0} /\ entries \in [0 .. limit - 1 -> Entry \cup {None}]
      /\ keybuf \in Seq(Stored) /\ values \in Seq(Seq(Data)) /\ count \in Nat
      /\ pc = "idle" /\ Hash[k] \in Nat /\ Size \in Nat
      /\ DOMAIN entries = 0 .. limit - 1
  BY KeysAssumption, SizeNat DEF MapInv, TypeOK, PutNew
<1>2. f \in 0 .. limit - 1 /\ entries[f] = None
  BY <1>1, GetEntryIs DEF PutNew
<1>3. x \in Entry /\ x # None /\ x.hash = Hash[k]
  BY <1>1, SizeAssumption DEF Entry
<1>4. /\ entries' = [entries EXCEPT ![f] = x] /\ keybuf' = Append(keybuf, k)
      /\ pc' \in {"idle", "grow"}
      /\ limit' = limit /\ kind' = kind /\ oldLimit' = oldLimit /\ src' = src /\ i' = i
      /\ ret' = ret /\ puts' = puts + 1 /\ puts < MaxPuts
  BY DEF PutNew, growth
<1>5. /\ kind = "set" => count' = count + 1 /\ values' = values
      /\ kind # "set" => count' = count /\ values' = Append(values, << d >>)
  BY DEF PutNew, AddValue
<1>6. /\ Used(entries') = Used(entries) \cup {f} /\ f \notin Used(entries)
      /\ Cardinality(Used(entries')) = Cardinality(Used(entries)) + 1
  <2> HIDE DEF x, f
  <2>1. Used(entries') = Used(entries) \cup {f}
    BY <1>1, <1>2, <1>3, <1>4 DEF Used
  <2>2. f \notin Used(entries) /\ Cardinality(Used(entries) \cup {f}) = Cardinality(Used(entries)) + 1
    BY <1>1, <1>2, UsedAfterFill
  <2>3. QED
    BY <2>1, <2>2
<1>7. /\ keybuf' \in Seq(Stored) /\ Len(keybuf') = Len(keybuf) + 1
      /\ keybuf'[Len(keybuf) + 1] = k
      /\ \A n \in 1 .. Len(keybuf) : keybuf'[n] = keybuf[n]
  BY <1>1, <1>4
<1>8. /\ values' \in Seq(Seq(Data))
      /\ kind # "set" => Len(values') = Len(values) + 1
      /\ count' \in Nat
  <2> DEFINE one == << d >>
  <2>1. one \in Seq(Data)
    OBVIOUS
  <2> HIDE DEF one
  <2>2. Append(values, one) \in Seq(Seq(Data)) /\ Len(Append(values, one)) = Len(values) + 1
    BY <1>1, <2>1
  <2>3. kind # "set" => values' = Append(values, one)
    BY <1>5 DEF one
  <2>4. CASE kind = "set"
    BY <1>1, <1>5, <2>4
  <2>5. CASE kind # "set"
    BY <1>1, <1>5, <2>2, <2>3, <2>5
  <2>6. QED
    BY <2>4, <2>5
<1>9. entries'[f] = x /\ \A s \in Used(entries) : entries'[s] = entries[s]
  BY <1>1, <1>2, <1>4, <1>6 DEF Used
<1>10. WellFormed(entries)
  BY <1>1 DEF MapInv
<1>11. /\ keybuf'[entries'[f].key] = k
       /\ \A s \in Used(entries) : keybuf'[entries'[s].key] = KeyOf(entries, s)
  BY <1>3, <1>7, <1>9, <1>10 DEF KeyOf, WellFormed
<1>12. WellFormed(entries)'
  <2> HIDE DEF x, f
  <2>1. x.key = Len(keybuf) + 1 /\ (kind # "set" => x.val = Len(values) + 1)
    BY DEF x
  <2>2. ASSUME NEW s \in Used(entries')
        PROVE  /\ entries'[s] \in Entry
               /\ entries'[s].key \in 1 .. Len(keybuf')
               /\ entries'[s].hash = Hash[keybuf'[entries'[s].key]]
               /\ kind' # "set" => entries'[s].val \in 1 .. Len(values')
    <3>1. CASE s = f
      <4>1. Len(keybuf) \in Nat /\ Len(values) \in Nat /\ entries'[s] = x
        BY <1>1, <1>9, <3>1
      <4>2. entries'[s].hash = Hash[keybuf'[entries'[s].key]]
        BY <1>3, <1>9, <1>11, <3>1
      <4>3. QED
        BY <1>3, <1>4, <1>7, <1>8, <2>1, <4>1, <4>2
    <3>2. CASE s \in Used(entries)
      <4>1. /\ entries[s] \in Entry /\ entries[s].key \in 1 .. Len(keybuf)
            /\ entries[s].hash = Hash[KeyOf(entries, s)]
            /\ kind # "set" => entries[s].val \in 1 .. Len(values)
        BY <1>10, <3>2 DEF WellFormed
      <4>2. Len(keybuf) \in Nat /\ Len(values) \in Nat /\ entries'[s] = entries[s]
        BY <1>1, <1>9, <3>2
      <4>3. entries'[s].hash = Hash[keybuf'[entries'[s].key]]
        BY <1>11, <3>2, <4>1, <4>2
      <4>4. QED
        BY <1>4, <1>7, <1>8, <4>1, <4>2, <4>3
    <3>3. QED
      BY <1>6, <3>1, <3>2
  <2>3. QED
    BY <1>4, <2>2 DEF WellFormed, KeyOf
<1>13. Apart(entries)'
  <2>1. \A s \in Used(entries) : KeyOf(entries, s) # k
    BY <1>1, <1>2, GetEntryIs
  <2>2. ASSUME kind # "set", NEW s \in Used(entries)
        PROVE  entries'[s].val # entries'[f].val
    BY <1>1, <1>3, <1>9, <1>10, <2>2 DEF WellFormed
  <2>3. Apart(entries)
    BY <1>1 DEF MapInv
  <2> HIDE DEF x, f
  <2>4. ASSUME NEW s \in Used(entries'), NEW u \in Used(entries'), s # u
        PROVE  /\ keybuf'[entries'[s].key] # keybuf'[entries'[u].key]
               /\ kind # "set" => entries'[s].val # entries'[u].val
    <3>1. CASE s = f
      BY <1>6, <1>11, <2>1, <2>2, <2>4, <3>1
    <3>2. CASE u = f
      BY <1>6, <1>11, <2>1, <2>2, <2>4, <3>2
    <3>3. CASE s \in Used(entries) /\ u \in Used(entries)
      BY <1>9, <1>11, <2>3, <2>4, <3>3 DEF Apart
    <3>4. QED
      BY <1>6, <3>1, <3>2, <3>3
  <2>5. QED
    BY <1>4, <2>4 DEF Apart, KeyOf
<1>14. Reachable(entries, limit)'
  <2>1. PICK c \in 0 .. limit - 1 :
          /\ At(Hash[k], c, limit) = f
          /\ \A e \in 0 .. c - 1 : entries[At(Hash[k], e, limit)] # None
    BY <1>1, <1>2, GetEntryIs
  <2>2. \A s \in Used(entries) : entries[s].hash \in Nat
    BY <1>10 DEF WellFormed, Entry
  <2>3. Reachable(entries, limit)
    BY DEF MapInv
  <2> HIDE DEF x, f
  <2>4. Reachable([entries EXCEPT ![At(x.hash, c, limit)] = x], limit)
    BY <1>1, <1>2, <1>3, <2>1, <2>2, <2>3, ReachableAfterFill
  <2>5. QED
    BY <1>3, <1>4, <2>1, <2>4 DEF Reachable
<1>15. Size' = Size + 1
  BY <1>1, <1>4, <1>5, <1>8 DEF Size
<1>16. Room'
  <2>1. Cardinality(Used(entries)) <= Size /\ 10 * Size <= 9 * limit
    BY <1>1 DEF MapInv, Room, TooFull
  <2>2. Cardinality(Used(entries)) \in Nat
    BY <1>1, UsedFinite
  <2>3. (TooFull(Size + 1, limit) /\ pc' = "grow") \/ (~TooFull(Size + 1, limit) /\ pc' = "idle")
    BY DEF PutNew
  <2>4. Cardinality(Used(entries')) <= Size'
    BY <1>1, <1>4, <1>6, <1>15, <2>1, <2>2
  <2>5. pc' = "idle" => ~TooFull(Size', limit')
    BY <1>4, <1>15, <2>3
  <2>6. Size' <= limit'
    BY <1>1, <1>4, <1>15, <2>1
  <2>7. QED
    BY <1>4, <2>4, <2>5, <2>6 DEF Room, Used
<1>17. TypeOK'
  <2> HIDE DEF x, f
  <2>1. entries' \in [0 .. limit' - 1 -> Entry \cup {None}]
    BY <1>1, <1>3, <1>4
  <2>2. puts' \in 0 .. MaxPuts
    BY <1>4, SizeAssumption DEF MapInv, TypeOK
  <2>3. QED
    BY <1>1, <1>4, <1>7, <1>8, <2>1, <2>2 DEF MapInv, TypeOK
<1>18. QED
  BY <1>4, <1>12, <1>13, <1>14, <1>16, <1>17 DEF MapInv

LEMMA PutKnownInv ==
  ASSUME MapInv, NEW k \in Stored, NEW d \in Data, PutKnown(k, d)
  PROVE  MapInv'
<1> DEFINE f == GetEntry(k)
<1>1. /\ pc = "idle" /\ pc' = pc /\ kind' = kind /\ limit' = limit /\ entries' = entries
      /\ keybuf' = keybuf /\ count' = count /\ oldLimit' = oldLimit /\ src' = src /\ i' = i
      /\ ret' = ret /\ puts' = puts + 1 /\ puts < MaxPuts /\ entries[f] # None
  BY DEF PutKnown, growth
<1>2. TypeOK /\ values \in Seq(Seq(Data)) /\ kind \in {"set", "hashmap", "multimap"}
  BY KeysAssumption DEF MapInv, TypeOK
<1>3. values' \in Seq(Seq(Data)) /\ Len(values') = Len(values)
  <2>1. CASE kind = "set"
    BY <1>2, <2>1 DEF PutKnown
  <2>2. CASE kind # "set"
    <3> DEFINE v == entries[f].val
    <3>1. f \in Used(entries)
      BY <1>1, GetEntryIs
    <3>2. v \in 1 .. Len(values)
      BY <1>1, <2>2, <3>1 DEF MapInv, WellFormed
    <3>3. values[v] \in Seq(Data)
      BY <1>2, <3>2
    <3>4. Append(values[v], d) \in Seq(Data) /\ << d >> \in Seq(Data)
      BY <3>3
    <3>5. Changed(values[v], d) \in Seq(Data)
      BY <3>4 DEF Changed
    <3>6. values' = [values EXCEPT ![v] = Changed(values[v], d)]
      BY <2>2 DEF PutKnown
    <3> HIDE DEF v
    <3>7. QED
      BY <1>2, <3>2, <3>5, <3>6
  <2>3. QED
    BY <2>1, <2>2
<1>4. Size' = Size
  BY <1>1, <1>3 DEF Size
<1>5. TypeOK'
  BY <1>1, <1>2, <1>3, SizeAssumption DEF TypeOK
<1>6. WellFormed(entries)' /\ Apart(entries)' /\ Reachable(entries, limit)'
  BY <1>1, <1>3 DEF MapInv, WellFormed, Apart, Reachable, Used, KeyOf
<1>7. Room'
  BY <1>1, <1>4 DEF MapInv, Room, Used, TooFull
<1>8. QED
  BY <1>1, <1>5, <1>6, <1>7 DEF MapInv

LEMMA GetInv ==
  ASSUME MapInv, NEW k \in Stored, Get(k)
  PROVE  MapInv'
<1>1. /\ pc = "idle" /\ UNCHANGED <<kind, table, pc, growth, puts>>
  BY DEF Get
<1>2. ret' \in SUBSET Seq(Data)
  <2> DEFINE e == entries[GetEntry(k)]
  <2>1. CASE e = None
    BY <2>1 DEF Get
  <2>2. CASE e # None /\ kind = "set"
    <3>1. ret' = {<< >>} /\ << >> \in Seq(Data)
      BY <2>2 DEF Get
    <3>2. QED
      BY <3>1
  <2>3. CASE e # None /\ kind # "set"
    <3>1. GetEntry(k) \in Used(entries)
      BY <1>1, <2>3, GetEntryIs
    <3>2. e.val \in 1 .. Len(values)
      BY <1>1, <2>3, <3>1 DEF MapInv, WellFormed
    <3>3. values[e.val] \in Seq(Data)
      BY <3>2 DEF MapInv, TypeOK
    <3>4. ret' = {values[e.val]}
      BY <2>3 DEF Get
    <3>5. QED
      BY <3>3, <3>4
  <2>4. QED
    BY <2>1, <2>2, <2>3
<1>3. TypeOK'
  BY <1>1, <1>2 DEF MapInv, TypeOK, table, growth
<1>4. WellFormed(entries)' /\ Apart(entries)' /\ Reachable(entries, limit)'
  BY <1>1 DEF MapInv, WellFormed, Apart, Reachable, Used, KeyOf, table, growth
<1>5. Room'
  BY <1>1 DEF MapInv, Room, Used, TooFull, Size, table, growth
<1>6. QED
  BY <1>1, <1>3, <1>4, <1>5 DEF MapInv

LEMMA ClearInv == ASSUME MapInv, Clear PROVE MapInv'
<1>1. /\ pc = "idle" /\ pc' = "idle" /\ limit' = limit /\ limit \in Nat \ {0}
      /\ entries' = EmptyTable(limit) /\ keybuf' = << >> /\ values' = << >>
      /\ UNCHANGED <<kind, count, growth, ret, puts>>
  BY DEF Clear, MapInv, TypeOK
<1>2. Used(entries') = {} /\ entries' \in [0 .. limit - 1 -> Entry \cup {None}]
  BY <1>1, EmptyIs
<1>3. Cardinality(Used(entries')) = 0
  BY <1>2, FS_EmptySet
<1>4. TypeOK'
  <2>1. keybuf' \in Seq(Stored) /\ values' \in Seq(Seq(Data))
    BY <1>1
  <2>2. QED
    BY <1>1, <1>2, <2>1 DEF MapInv, TypeOK, growth
<1>5. Size' \in Nat /\ Size' <= Size /\ Size \in Nat
  <2>1. Len(values) \in Nat /\ Len(values') = 0 /\ count \in Nat
    BY <1>1 DEF MapInv, TypeOK
  <2>2. QED
    BY <1>1, <2>1 DEF Size
<1>6. Room'
  <2>1. 10 * Size <= 9 * limit
    BY <1>1, <1>5 DEF MapInv, Room, TooFull
  <2> DEFINE n == Size'
             m == Size
  <2>2. n \in Nat /\ n <= m /\ m \in Nat /\ 10 * m <= 9 * limit /\ limit \in Nat /\ limit' = limit
    BY <1>1, <1>5, <2>1
  <2>3. ~TooFull(Size', limit')
    <3> HIDE DEF n, m
    <3>1. ~(10 * n > 9 * limit)
      BY <2>2
    <3>2. QED
      BY <2>2, <3>1 DEF n, TooFull
  <2>4. Cardinality(Used(entries')) <= Size'
    BY <1>3, <1>5
  <2>5. QED
    BY <1>1, <2>3, <2>4 DEF Room
<1>7. WellFormed(entries)' /\ Apart(entries)' /\ Reachable(entries, limit)'
  BY <1>2 DEF WellFormed, Apart, Reachable
<1>8. QED
  BY <1>1, <1>4, <1>6, <1>7 DEF MapInv

LEMMA GrowInv == ASSUME MapInv, Grow PROVE MapInv'
<1>1. /\ pc = "grow" /\ pc' = "rehash" /\ oldLimit' = limit /\ src' = entries /\ i' = 0
      /\ limit' = 2 * limit /\ entries' = EmptyTable(2 * limit)
      /\ UNCHANGED <<kind, keybuf, values, count, ret, puts>>
      /\ limit \in Nat \ {0} /\ 2 * limit \in Nat \ {0}
  BY DEF Grow, MapInv, TypeOK
<1>2. Used(entries') = {} /\ entries' \in [0 .. limit' - 1 -> Entry \cup {None}]
  <2>1. EmptyTable(2 * limit) \in [0 .. 2 * limit - 1 -> Entry \cup {None}]
        /\ Used(EmptyTable(2 * limit)) = {}
    BY <1>1, EmptyIs
  <2>2. QED
    BY <1>1, <2>1
<1>3. TypeOK'
  BY <1>1, <1>2 DEF MapInv, TypeOK
<1>4. WellFormed(src)' /\ Apart(src)'
  BY <1>1 DEF MapInv, WellFormed, Apart, KeyOf
<1>5. Reachable(entries, limit)'
  BY <1>2 DEF Reachable
<1>6. Moved' = {}
  <2>1. Used(src') \subseteq 0 .. limit - 1
    BY <1>1 DEF Used, MapInv, TypeOK
  <2>2. QED
    BY <1>1, <2>1 DEF Moved
<1>7. Copied'
  BY <1>2, <1>6 DEF Copied
<1>8. Room'
  BY <1>1 DEF MapInv, Room, Size, Used
<1>9. QED
  BY <1>1, <1>3, <1>4, <1>5, <1>7, <1>8 DEF MapInv

LEMMA RehashInv == ASSUME MapInv, Rehash PROVE MapInv'
<1> DEFINE x == src[i]
           free == {s \in 0 .. limit - 1 : entries[s] = None}
           f == FirstOf(x.hash, free, limit)
<1>1. /\ pc = "rehash" /\ pc' = pc /\ i < oldLimit /\ i' = i + 1 /\ i \in Nat
      /\ oldLimit \in Nat /\ DOMAIN src = 0 .. oldLimit - 1 /\ i \in 0 .. oldLimit - 1
      /\ limit \in Nat \ {0} /\ entries \in [0 .. limit - 1 -> Entry \cup {None}]
      /\ DOMAIN entries = 0 .. limit - 1
      /\ UNCHANGED <<kind, limit, keybuf, values, count, oldLimit, src, ret, puts>>
      /\ x \in Entry \cup {None}
  BY DEF Rehash, MapInv, TypeOK
<1>2. WellFormed(src) /\ Apart(src) /\ Copied /\ Reachable(entries, limit) /\ TypeOK /\ Room
  BY <1>1 DEF MapInv
<1>3. WellFormed(src)' /\ Apart(src)'
  BY <1>1, <1>2 DEF WellFormed, Apart, KeyOf, Used
<1>4. Room'
  BY <1>1, <1>2 DEF Room, Size, Used
<1>5. CASE x = None
  <2>1. entries' = entries
    BY <1>5 DEF Rehash
  <2>2. Moved' = Moved
    <3>1. i \notin Used(src) /\ Used(src) \subseteq Nat /\ Used(src') = Used(src)
      BY <1>1, <1>5 DEF Used
    <3>2. QED
      BY <1>1, <3>1 DEF Moved
  <2>3. TypeOK'
    BY <1>1, <1>2, <2>1 DEF TypeOK
  <2>4. Copied'
    BY <1>1, <1>2, <2>1, <2>2 DEF Copied, Used
  <2>5. Reachable(entries, limit)'
    BY <1>1, <1>2, <2>1 DEF Reachable, Used
  <2>6. QED
    BY <1>1, <1>3, <1>4, <2>3, <2>4, <2>5 DEF MapInv
<1>6. CASE x # None
  <2>1. /\ i \in Used(src) /\ x \in Entry /\ x.hash \in Nat
    BY <1>1, <1>6 DEF Used, Entry
  <2>2. PICK d \in 0 .. limit - 1 :
          /\ f = At(x.hash, d, limit)
          /\ f \in free
          /\ \A e \in 0 .. d - 1 : At(x.hash, e, limit) \notin free
    <3>1. free # {} /\ free \subseteq 0 .. limit - 1
      BY <1>1, FreeSlotIs
    <3> DEFINE h == x.hash
    <3>2. h \in Nat /\ f = FirstOf(h, free, limit)
      BY <2>1
    <3> HIDE DEF free, x, h, f
    <3>3. \E d \in 0 .. limit - 1 :
            /\ FirstOf(h, free, limit) = At(h, d, limit)
            /\ At(h, d, limit) \in free
            /\ \A e \in 0 .. d - 1 : At(h, e, limit) \notin free
      BY <1>1, <3>1, <3>2, FirstIs
    <3>4. QED
      BY <3>2, <3>3 DEF h
  <2>3. entries' = [entries EXCEPT ![f] = x]
    BY <1>6 DEF Rehash
  <2> HIDE DEF f, x
  <2>4. f \in 0 .. limit - 1 /\ entries[f] = None
    BY <2>2
  <2>5. Used(entries') = Used(entries) \cup {f} /\ f \notin Used(entries)
    BY <1>1, <1>6, <2>3, <2>4 DEF Used
  <2>6. entries'[f] = x /\ \A s \in Used(entries) : entries'[s] = entries[s]
    BY <1>1, <2>3, <2>4, <2>5 DEF Used
  <2>7. Moved' = Moved \cup {i} /\ i \notin Moved
    <3>1. Used(src) \subseteq Nat /\ Used(src') = Used(src)
      BY <1>1 DEF Used
    <3>2. QED
      BY <1>1, <2>1, <3>1 DEF Moved
  <2>8. src' = src /\ x = src[i]
    BY <1>1 DEF x
  <2>9. \A s \in Used(entries) : entries[s] # x /\ entries[s].hash \in Nat
    <3>1. ASSUME NEW s \in Used(entries) PROVE entries[s] # x /\ entries[s].hash \in Nat
      <4>1. PICK j \in Moved : src[j] = entries[s]
        BY <1>2 DEF Copied
      <4>2. j \in Used(src) /\ j # i
        BY <2>7, <4>1 DEF Moved
      <4>3. KeyOf(src, j) # KeyOf(src, i)
        BY <1>2, <2>1, <4>2 DEF Apart
      <4>4. src[j].hash \in Nat
        BY <1>2, <4>2 DEF WellFormed, Entry
      <4>5. QED
        BY <2>8, <4>1, <4>3, <4>4 DEF KeyOf
    <3>2. QED
      BY <3>1
  <2>10. Cardinality(Used(entries')) = Cardinality(Moved')
    <3>1. Cardinality(Used(entries) \cup {f}) = Cardinality(Used(entries)) + 1
      BY <1>1, <2>4, UsedAfterFill
    <3>2. IsFiniteSet(Moved)
      BY <1>1, UsedFinite, FS_Subset DEF Moved
    <3>3. Cardinality(Moved \cup {i}) = Cardinality(Moved) + 1
      BY <2>7, <3>2, FS_AddElement
    <3>4. QED
      BY <1>2, <2>5, <2>7, <3>1, <3>3 DEF Copied
  <2>11. Copied'
    <3>1. ASSUME NEW s \in Used(entries') PROVE \E j \in Moved' : src'[j] = entries'[s]
      BY <1>2, <2>5, <2>6, <2>7, <2>8, <3>1 DEF Copied
    <3>2. ASSUME NEW j \in Moved' PROVE \E s \in Used(entries') : src'[j] = entries'[s]
      BY <1>2, <2>5, <2>6, <2>7, <2>8, <3>2 DEF Copied
    <3>3. ASSUME NEW s \in Used(entries'), NEW u \in Used(entries'), entries'[s] = entries'[u]
          PROVE  s = u
      BY <1>2, <2>5, <2>6, <2>9, <3>3 DEF Copied
    <3>4. QED
      BY <2>10, <3>1, <3>2, <3>3 DEF Copied
  <2>12. Reachable(entries, limit)'
    <3>1. ASSUME NEW e \in 0 .. d - 1 PROVE entries[At(x.hash, e, limit)] # None
      <4>1. At(x.hash, e, limit) \in 0 .. limit - 1
        BY <1>1, <2>1, AtOnce, AtIs
      <4>2. QED
        BY <2>2, <4>1
    <3>2. Reachable([entries EXCEPT ![At(x.hash, d, limit)] = x], limit)
      BY <1>1, <1>2, <1>6, <2>1, <2>2, <2>4, <2>9, <3>1, ReachableAfterFill
    <3>3. QED
      BY <1>1, <2>2, <2>3, <3>2 DEF Reachable
  <2>13. TypeOK'
    <3>1. entries' \in [0 .. limit' - 1 -> Entry \cup {None}]
      BY <1>1, <2>1, <2>3
    <3>2. QED
      BY <1>1, <1>2, <3>1 DEF TypeOK
  <2>14. QED
    BY <1>1, <1>3, <1>4, <2>11, <2>12, <2>13 DEF MapInv
<1>7. QED
  BY <1>5, <1>6

LEMMA GrownInv == ASSUME MapInv, Grown PROVE MapInv'
<1>1. /\ pc = "rehash" /\ pc' = "idle" /\ i = oldLimit
      /\ oldLimit' = 0 /\ src' = << >> /\ i' = 0
      /\ UNCHANGED <<kind, limit, entries, keybuf, values, count, ret, puts>>
      /\ oldLimit \in Nat /\ DOMAIN src = 0 .. oldLimit - 1 /\ limit \in Nat \ {0}
  BY DEF Grown, MapInv, TypeOK, table
<1>2. WellFormed(src) /\ Apart(src) /\ Copied /\ Reachable(entries, limit) /\ TypeOK /\ Room
  BY <1>1 DEF MapInv
<1>3. TypeOK'
  <2>1. src' \in [0 .. oldLimit' - 1 -> Entry \cup {None}]
    BY <1>1
  <2>2. QED
    BY <1>1, <1>2, <2>1 DEF TypeOK
<1>4. Moved = Used(src)
  BY <1>1 DEF Moved, Used
<1>5. ASSUME NEW s \in Used(entries)
      PROVE  \E j \in Used(src) : src[j] = entries[s]
  BY <1>2, <1>4 DEF Copied
<1>6. WellFormed(entries)
  BY <1>2, <1>5 DEF WellFormed, KeyOf
<1>7. Apart(entries)
  <2>1. ASSUME NEW s \in Used(entries), NEW u \in Used(entries), s # u
        PROVE  /\ KeyOf(entries, s) # KeyOf(entries, u)
               /\ kind # "set" => entries[s].val # entries[u].val
    <3>1. entries[s] # entries[u]
      BY <1>2, <2>1 DEF Copied
    <3>2. PICK j \in Used(src) : src[j] = entries[s]
      BY <1>5
    <3>3. PICK m \in Used(src) : src[m] = entries[u]
      BY <1>5
    <3>4. j # m
      BY <3>1, <3>2, <3>3
    <3>5. QED
      BY <1>2, <3>2, <3>3, <3>4 DEF Apart, KeyOf
  <2>2. QED
    BY <2>1 DEF Apart
<1>8. WellFormed(entries)' /\ Apart(entries)' /\ Reachable(entries, limit)'
  BY <1>1, <1>2, <1>6, <1>7 DEF WellFormed, Apart, Reachable, Used, KeyOf
<1>9. Room'
  <2>1. Size' = Size /\ Size \in Nat
    BY <1>1, <1>2, SizeNat DEF Size
  <2>2. Size <= oldLimit /\ limit = 2 * oldLimit
    BY <1>1, <1>2 DEF Room
  <2>3. ~(10 * Size' > 9 * limit')
    BY <1>1, <2>1, <2>2
  <2>4. Cardinality(Used(entries)) <= Size
    BY <1>1, <1>2, <1>4 DEF Room, Copied
  <2>5. Used(entries') = Used(entries)
    BY <1>1 DEF Used
  <2>6. QED
    BY <1>1, <2>1, <2>3, <2>4, <2>5 DEF Room, TooFull
<1>10. QED
  BY <1>1, <1>3, <1>8, <1>9 DEF MapInv

LEMMA StutterInv == ASSUME MapInv, UNCHANGED vars PROVE MapInv'
<1>1. UNCHANGED <<kind, limit, entries, keybuf, values, count, pc, oldLimit, src, i, ret, puts>>
  BY DEF vars, table, growth
<1>2. TypeOK' /\ Reachable(entries, limit)' /\ Room'
  BY <1>1 DEF MapInv, TypeOK, Reachable, Room, Used, Size, TooFull
<1>3. pc # "rehash" => WellFormed(entries)' /\ Apart(entries)'
  BY <1>1 DEF MapInv, WellFormed, Apart, KeyOf, Used
<1>4. pc = "rehash" => WellFormed(src)' /\ Apart(src)' /\ Copied'
  BY <1>1 DEF MapInv, WellFormed, Apart, KeyOf, Used, Copied, Moved
<1>5. QED
  BY <1>1, <1>2, <1>3, <1>4 DEF MapInv

LEMMA StepInv == MapInv /\ [Next]_vars => MapInv'
<1>1. SUFFICES ASSUME MapInv, [Next]_vars PROVE MapInv'
  OBVIOUS
<1>2. \A y \in Keys : Norm[y] \in Stored
  BY KeysAssumption
<1>3. ASSUME NEW y \in Keys, NEW d \in Data, PutNew(Norm[y], d) PROVE MapInv'
  BY <1>1, <1>2, <1>3, PutNewInv
<1>4. ASSUME NEW y \in Keys, NEW d \in Data, PutKnown(Norm[y], d) PROVE MapInv'
  BY <1>1, <1>2, <1>4, PutKnownInv
<1>5. ASSUME NEW y \in Keys, Get(Norm[y]) PROVE MapInv'
  BY <1>1, <1>2, <1>5, GetInv
<1>6. QED
  BY <1>1, <1>3, <1>4, <1>5, ClearInv, GrowInv, RehashInv, GrownInv, StutterInv DEF Next

LEMMA SpecInv == Spec => []MapInv
  BY InitInv, StepInv, PTL DEF Spec

(* The table and what it refers to are well formed at every moment, also
   between the allocation of a larger table and the end of its filling. *)
THEOREM MapTypeCorrect == Spec => []TypeOK
<1>1. MapInv => TypeOK
  BY DEF MapInv
<1>2. QED
  BY <1>1, SpecInv, PTL

(* Whenever hashmap.c searches, the search meets a free slot and ends,
   whatever the hash function and however many clears a set has seen. *)
THEOREM ProbeCorrect == Spec => []ProbeEnds
<1>1. MapInv => ProbeEnds
  <2>1. SUFFICES ASSUME MapInv, pc \in {"idle", "rehash"}
                 PROVE  \E s \in DOMAIN entries : entries[s] = None
    BY DEF ProbeEnds
  <2>2. DOMAIN entries = 0 .. limit - 1
    BY <2>1 DEF MapInv, TypeOK
  <2>3. QED
    BY <2>1, <2>2, FreeSlotIs
<1>2. QED
  BY <1>1, SpecInv, PTL

(* Every stored key is found where it is, whatever the hash function. *)
THEOREM FindCorrect == Spec => []Findable
<1>1. MapInv => Findable
  BY FoundIs DEF Findable, KeyOf
<1>2. QED
  BY <1>1, SpecInv, PTL

------------------------------------------------------------------------------
(* The table implements a map. *)

(* What the map holds, entry by entry. *)
ContentsAre ==
  /\ Contents = [k \in DOMAIN Contents |-> Contents[k]]
  /\ DOMAIN Contents = {keybuf[Table[s].key] : s \in Used(Table)}
  /\ \A s \in Used(Table) :
       Contents[keybuf[Table[s].key]] = IF kind = "set" THEN << >> ELSE values[Table[s].val]

LEMMA ContentsIs == MapInv => ContentsAre
<1>1. SUFFICES ASSUME MapInv PROVE ContentsAre
  OBVIOUS
<1>2. Apart(Table)
  BY <1>1 DEF MapInv, Table
<1>3. /\ Contents = [k \in DOMAIN Contents |-> Contents[k]]
      /\ DOMAIN Contents = {keybuf[Table[s].key] : s \in Used(Table)}
  BY DEF Contents
<1>4. ASSUME NEW s \in Used(Table)
      PROVE  Contents[keybuf[Table[s].key]] = IF kind = "set" THEN << >> ELSE values[Table[s].val]
  <2> DEFINE k == keybuf[Table[s].key]
             c == CHOOSE u \in Used(Table) : keybuf[Table[u].key] = k
  <2>1. c \in Used(Table) /\ keybuf[Table[c].key] = k
    OBVIOUS
  <2>2. c = s
    BY <1>2, <2>1 DEF Apart, KeyOf
  <2>3. Contents[k] = IF kind = "set" THEN << >> ELSE values[Table[c].val]
    BY DEF Contents
  <2>4. QED
    BY <2>2, <2>3
<1>5. QED
  BY <1>3, <1>4 DEF ContentsAre

(* The same of the state after a step. *)
LEMMA ContentsNext == MapInv' => ContentsAre'
  BY ContentsIs, PTL

LEMMA InitContents == Init => Abstract!Init
<1>1. SUFFICES ASSUME Init PROVE Abstract!Init
  OBVIOUS
<1>2. limit \in Nat \ {0}
  BY <1>1, SizeAssumption DEF Init
<1>3. Used(Table) = {}
  BY <1>1, <1>2, EmptyIs DEF Init, Table
<1>4. Contents = Abstract!Empty
  BY <1>3 DEF Contents, Abstract!Empty
<1>5. QED
  BY <1>1, <1>4 DEF Init, Abstract!Init

LEMMA PutNewContents ==
  ASSUME MapInv, MapInv', NEW k \in Stored, NEW d \in Data, PutNew(k, d)
  PROVE  Abstract!Put(k, d)
<1> DEFINE f == GetEntry(k)
           new == IF kind = "set" THEN << >> ELSE << d >>
<1>1. ContentsAre /\ ContentsAre' /\ kind \in {"set", "hashmap", "multimap"}
  BY ContentsIs, ContentsNext, KeysAssumption DEF MapInv, TypeOK
<1>2. /\ pc = "idle" /\ pc' \in {"idle", "grow"} /\ Table = entries /\ Table' = entries'
      /\ kind' = kind /\ ret' = ret
      /\ keybuf' = Append(keybuf, k) /\ keybuf \in Seq(Stored) /\ values \in Seq(Seq(Data))
      /\ entries' = [entries EXCEPT ![f] =
           [hash |-> Hash[k], key |-> Len(keybuf) + 1,
            val  |-> IF kind = "set" THEN 0 ELSE Len(values) + 1]]
      /\ kind # "set" => values' = Append(values, << d >>)
      /\ entries \in [0 .. limit - 1 -> Entry \cup {None}]
      /\ f \in 0 .. limit - 1 /\ entries[f] = None
  BY GetEntryIs DEF PutNew, AddValue, Table, MapInv, TypeOK
<1>3. /\ \A s \in Used(entries) : KeyOf(entries, s) # k
      /\ WellFormed(entries)
  BY <1>2, GetEntryIs DEF MapInv
<1>4. entries'[f].key = Len(keybuf) + 1 /\ (kind # "set" => entries'[f].val = Len(values) + 1)
  BY <1>2
<1>5. /\ Used(entries') = Used(entries) \cup {f}
      /\ \A s \in Used(entries) : entries'[s] = entries[s]
  <2> DEFINE x == [hash |-> Hash[k], key |-> Len(keybuf) + 1,
                   val  |-> IF kind = "set" THEN 0 ELSE Len(values) + 1]
  <2>1. x \in Entry
    BY <1>2, KeysAssumption DEF Entry
  <2>2. x # None /\ entries' = [entries EXCEPT ![f] = x] /\ DOMAIN entries = 0 .. limit - 1
    BY <1>2, <2>1, SizeAssumption
  <2> HIDE DEF x, f
  <2>3. QED
    BY <1>2, <2>2 DEF Used
<1>6. keybuf'[entries'[f].key] = k
  BY <1>2, <1>4
<1>7. ASSUME NEW s \in Used(entries)
      PROVE  /\ keybuf'[entries'[s].key] = keybuf[entries[s].key]
             /\ kind # "set" => values'[entries'[s].val] = values[entries[s].val]
  <2>1. entries[s].key \in 1 .. Len(keybuf) /\ (kind # "set" => entries[s].val \in 1 .. Len(values))
    BY <1>3 DEF WellFormed
  <2>2. entries'[s] = entries[s]
    BY <1>5
  <2>3. keybuf'[entries[s].key] = keybuf[entries[s].key]
    BY <1>2, <2>1
  <2> DEFINE one == << d >>
  <2>4. kind # "set" => values' = Append(values, one)
    BY <1>2
  <2> HIDE DEF one
  <2>5. kind # "set" => values'[entries[s].val] = values[entries[s].val]
    BY <1>2, <2>1, <2>4
  <2>6. QED
    BY <2>2, <2>3, <2>5
<1>8. DOMAIN Contents' = DOMAIN Contents \cup {k} /\ k \notin DOMAIN Contents
  <2>1. DOMAIN Contents' = {keybuf'[entries'[s].key] : s \in Used(entries')}
    BY <1>1, <1>2 DEF ContentsAre, Used
  <2>2. DOMAIN Contents = {keybuf[entries[s].key] : s \in Used(entries)}
    BY <1>1, <1>2 DEF ContentsAre
  <2> HIDE DEF f
  <2>3. QED
    BY <1>3, <1>5, <1>6, <1>7, <2>1, <2>2 DEF KeyOf
<1>9. Contents'[k] = new
  <2>1. f \in Used(Table')
    BY <1>2, <1>5
  <2>2. Contents'[k] = IF kind' = "set" THEN << >> ELSE values'[entries'[f].val]
    BY <1>1, <1>2, <1>6, <2>1 DEF ContentsAre, Used
  <2> DEFINE one == << d >>
  <2>3. kind # "set" => values' = Append(values, one) /\ new = one
    BY <1>2
  <2> HIDE DEF one
  <2>4. kind # "set" => values'[entries'[f].val] = one
    BY <1>2, <1>4, <2>3
  <2>5. QED
    BY <1>2, <2>2, <2>3, <2>4
<1>10. ASSUME NEW x \in DOMAIN Contents PROVE Contents'[x] = Contents[x]
  <2>1. PICK s \in Used(entries) : x = keybuf[entries[s].key]
    BY <1>1, <1>2, <1>10 DEF ContentsAre
  <2>2. x = keybuf'[entries'[s].key] /\ s \in Used(entries')
    BY <1>5, <1>7, <2>1
  <2>3. Contents'[x] = IF kind' = "set" THEN << >> ELSE values'[entries'[s].val]
    BY <1>1, <1>2, <2>2 DEF ContentsAre, Used
  <2>4. Contents[x] = IF kind = "set" THEN << >> ELSE values[entries[s].val]
    BY <1>1, <1>2, <2>1 DEF ContentsAre
  <2>5. QED
    BY <1>2, <1>7, <2>3, <2>4
<1>11. Abstract!Merge(<< >>, d) = new
  <2>1. Append(<< >>, d) = << d >>
    OBVIOUS
  <2>2. QED
    BY <1>1, <2>1 DEF Abstract!Merge
<1>12. Contents' = [x \in DOMAIN Contents \cup {k} |->
          IF x # k THEN Contents[x]
          ELSE Abstract!Merge(IF k \in DOMAIN Contents THEN Contents[k] ELSE << >>, d)]
  <2> HIDE DEF new
  <2>1. Contents' = [x \in DOMAIN Contents' |-> Contents'[x]]
    BY <1>1 DEF ContentsAre
  <2>2. Contents' = [x \in DOMAIN Contents \cup {k} |->
                       IF x # k THEN Contents[x] ELSE Abstract!Merge(<< >>, d)]
    BY <1>8, <1>9, <1>10, <1>11, <2>1
  <2>3. QED
    BY <1>8, <2>2
<1>13. QED
  BY <1>2, <1>12 DEF Abstract!Put

LEMMA PutKnownContents ==
  ASSUME MapInv, MapInv', NEW k \in Stored, NEW d \in Data, PutKnown(k, d)
  PROVE  Abstract!Put(k, d)
<1> DEFINE f == GetEntry(k)
           v == entries[f].val
           old == IF kind = "set" THEN << >> ELSE values[v]
<1>1. ContentsAre /\ ContentsAre' /\ kind \in {"set", "hashmap", "multimap"}
  BY ContentsIs, ContentsNext, KeysAssumption DEF MapInv, TypeOK
<1>2. /\ pc = "idle" /\ pc' = pc /\ entries' = entries /\ keybuf' = keybuf
      /\ kind' = kind /\ ret' = ret /\ Table = entries /\ Table' = entries
      /\ values \in Seq(Seq(Data)) /\ entries[f] # None
  BY DEF PutKnown, Table, MapInv, TypeOK
<1>3. f \in Used(entries) /\ keybuf[entries[f].key] = k
  BY <1>2, GetEntryIs DEF KeyOf
<1>4. kind # "set" => v \in 1 .. Len(values) /\ values' = [values EXCEPT ![v] = Changed(values[v], d)]
  BY <1>2, <1>3 DEF MapInv, WellFormed, PutKnown
<1>5. ASSUME NEW s \in Used(entries), s # f
      PROVE  /\ keybuf[entries[s].key] # k
             /\ kind # "set" => values'[entries[s].val] = values[entries[s].val]
  <2>1. /\ keybuf[entries[s].key] # k
        /\ kind # "set" => entries[s].val # v /\ entries[s].val \in 1 .. Len(values)
    BY <1>2, <1>3, <1>5 DEF MapInv, Apart, KeyOf, WellFormed
  <2> HIDE DEF v
  <2>2. QED
    BY <1>2, <1>4, <2>1
<1>6. DOMAIN Contents' = DOMAIN Contents /\ k \in DOMAIN Contents
  <2>1. DOMAIN Contents' = {keybuf[entries[s].key] : s \in Used(entries)}
    BY <1>1, <1>2 DEF ContentsAre, Used
  <2>2. DOMAIN Contents = {keybuf[entries[s].key] : s \in Used(entries)}
    BY <1>1, <1>2 DEF ContentsAre
  <2>3. QED
    BY <1>3, <2>1, <2>2
<1>7. Contents[k] = old
  BY <1>1, <1>2, <1>3 DEF ContentsAre
<1>8. Contents'[k] = IF kind = "set" THEN << >> ELSE Changed(old, d)
  <2>1. Contents'[k] = IF kind = "set" THEN << >> ELSE values'[v]
    BY <1>1, <1>2, <1>3 DEF ContentsAre, Used
  <2> HIDE DEF v
  <2>2. kind # "set" => values'[v] = Changed(values[v], d)
    BY <1>2, <1>4
  <2>3. QED
    BY <2>1, <2>2
<1>9. Abstract!Merge(old, d) = IF kind = "set" THEN << >> ELSE Changed(old, d)
  <2> HIDE DEF old
  <2>1. QED
    BY <1>1 DEF Abstract!Merge, Changed
<1>10. ASSUME NEW x \in DOMAIN Contents, x # k PROVE Contents'[x] = Contents[x]
  <2>1. PICK s \in Used(entries) : x = keybuf[entries[s].key]
    BY <1>1, <1>2, <1>10 DEF ContentsAre
  <2>2. s # f
    BY <1>3, <1>10, <2>1
  <2>3. Contents'[x] = IF kind = "set" THEN << >> ELSE values'[entries[s].val]
    BY <1>1, <1>2, <2>1 DEF ContentsAre, Used
  <2>4. Contents[x] = IF kind = "set" THEN << >> ELSE values[entries[s].val]
    BY <1>1, <1>2, <2>1 DEF ContentsAre
  <2>5. QED
    BY <1>5, <2>2, <2>3, <2>4
<1>11. Contents' = [x \in DOMAIN Contents \cup {k} |->
          IF x # k THEN Contents[x]
          ELSE Abstract!Merge(IF k \in DOMAIN Contents THEN Contents[k] ELSE << >>, d)]
  <2> HIDE DEF old
  <2>1. Contents' = [x \in DOMAIN Contents' |-> Contents'[x]]
    BY <1>1 DEF ContentsAre
  <2>2. Contents' = [x \in DOMAIN Contents |->
                       IF x # k THEN Contents[x] ELSE Abstract!Merge(old, d)]
    BY <1>6, <1>8, <1>9, <1>10, <2>1
  <2>3. DOMAIN Contents \cup {k} = DOMAIN Contents
    BY <1>6
  <2>4. QED
    BY <1>6, <1>7, <2>2, <2>3
<1>12. QED
  BY <1>2, <1>11 DEF Abstract!Put

LEMMA GetContents ==
  ASSUME MapInv, NEW k \in Stored, Get(k)
  PROVE  Abstract!Get(k)
<1> DEFINE f == GetEntry(k)
<1>1. ContentsAre /\ pc = "idle" /\ Table = entries
  BY ContentsIs DEF Get, Table
<1>2. UNCHANGED <<kind, Contents>>
  <2>1. UNCHANGED <<kind, limit, entries, keybuf, values, count, pc, oldLimit, src, i, puts>>
    BY DEF Get, table, growth
  <2>2. QED
    BY <2>1 DEF Contents, Table, Used
<1>3. CASE entries[f] = None
  <2>1. k \notin {keybuf[entries[s].key] : s \in Used(entries)}
    BY <1>1, <1>3, GetEntryIs DEF KeyOf
  <2>2. k \notin DOMAIN Contents
    BY <1>1, <2>1 DEF ContentsAre
  <2>3. ret' = {}
    BY <1>3 DEF Get
  <2>4. QED
    BY <1>2, <2>2, <2>3 DEF Abstract!Get
<1>4. CASE entries[f] # None
  <2>1. f \in Used(entries) /\ keybuf[entries[f].key] = k
    BY <1>1, <1>4, GetEntryIs DEF KeyOf
  <2>2. k \in DOMAIN Contents
    BY <1>1, <2>1 DEF ContentsAre
  <2>3. Contents[k] = IF kind = "set" THEN << >> ELSE values[entries[f].val]
    BY <1>1, <2>1 DEF ContentsAre
  <2>4. ret' = {Contents[k]}
    BY <1>4, <2>3 DEF Get
  <2>5. QED
    BY <1>2, <2>2, <2>4 DEF Abstract!Get
<1>5. QED
  BY <1>3, <1>4

LEMMA ClearContents == ASSUME MapInv, Clear PROVE Abstract!Clear
<1>1. /\ pc' = "idle" /\ entries' = EmptyTable(limit) /\ limit \in Nat \ {0}
      /\ UNCHANGED <<kind, ret>>
  BY DEF Clear, MapInv, TypeOK
<1>2. Used(Table') = {}
  <2>1. Used(EmptyTable(limit)) = {} /\ Table' = EmptyTable(limit)
    BY <1>1, EmptyIs DEF Table
  <2>2. QED
    BY <2>1 DEF Used
<1>3. Contents' = Abstract!Empty
  BY <1>2 DEF Contents, Used, Abstract!Empty
<1>4. QED
  BY <1>1, <1>3 DEF Abstract!Clear

(* Growing changes nothing of what the table stands for, at any of its steps. *)
LEMMA GrowContents == ASSUME MapInv, Grow \/ Rehash PROVE UNCHANGED <<kind, Contents, ret>>
<1>1. Table' = Table /\ UNCHANGED <<kind, keybuf, values, ret>>
  BY DEF Grow, Rehash, Table
<1>2. Contents' = Contents
  BY <1>1 DEF Contents, Used
<1>3. QED
  BY <1>1, <1>2

LEMMA GrownContents == ASSUME MapInv, MapInv', Grown PROVE UNCHANGED <<kind, Contents, ret>>
<1>1. /\ pc = "rehash" /\ pc' = "idle" /\ i = oldLimit
      /\ UNCHANGED <<kind, limit, entries, keybuf, values, count, ret>>
      /\ DOMAIN src = 0 .. oldLimit - 1 /\ oldLimit \in Nat
      /\ Table = src /\ Table' = entries
      /\ ContentsAre /\ ContentsAre' /\ Copied
  BY ContentsIs, ContentsNext DEF Grown, MapInv, TypeOK, table, Table
<1>2. Moved = Used(src)
  BY <1>1 DEF Moved, Used
<1>3. DOMAIN Contents' = {keybuf[entries[s].key] : s \in Used(entries)}
  BY <1>1 DEF ContentsAre, Used
<1>4. DOMAIN Contents = {keybuf[src[j].key] : j \in Used(src)}
  BY <1>1 DEF ContentsAre
<1>5. DOMAIN Contents' = DOMAIN Contents
  BY <1>1, <1>2, <1>3, <1>4 DEF Copied
<1>6. ASSUME NEW x \in DOMAIN Contents PROVE Contents'[x] = Contents[x]
  <2>1. PICK s \in Used(entries) : x = keybuf[entries[s].key]
    BY <1>3, <1>5
  <2>2. PICK j \in Used(src) : src[j] = entries[s]
    BY <1>1, <1>2 DEF Copied
  <2>3. Contents'[x] = IF kind = "set" THEN << >> ELSE values[entries[s].val]
    BY <1>1, <2>1 DEF ContentsAre, Used
  <2>4. Contents[x] = IF kind = "set" THEN << >> ELSE values[src[j].val]
    BY <1>1, <2>1, <2>2 DEF ContentsAre
  <2>5. QED
    BY <2>2, <2>3, <2>4
<1>7. Contents' = Contents
  <2>1. Contents = [x \in DOMAIN Contents |-> Contents[x]]
    BY <1>1 DEF ContentsAre
  <2>2. Contents' = [x \in DOMAIN Contents' |-> Contents'[x]]
    BY <1>1 DEF ContentsAre
  <2>3. QED
    BY <1>5, <1>6, <2>1, <2>2
<1>8. QED
  BY <1>1, <1>7

LEMMA StepContents ==
  MapInv /\ MapInv' /\ [Next]_vars => [Abstract!Next]_<<kind, Contents, ret>>
<1>1. SUFFICES ASSUME MapInv, MapInv', [Next]_vars
               PROVE  Abstract!Next \/ UNCHANGED <<kind, Contents, ret>>
  OBVIOUS
<1>2. \A y \in Keys : Norm[y] \in Stored
  BY KeysAssumption
<1>3. ASSUME NEW y \in Keys, NEW d \in Data, PutNew(Norm[y], d) PROVE Abstract!Next
  BY <1>1, <1>2, <1>3, PutNewContents DEF Abstract!Next
<1>4. ASSUME NEW y \in Keys, NEW d \in Data, PutKnown(Norm[y], d) PROVE Abstract!Next
  BY <1>1, <1>2, <1>4, PutKnownContents DEF Abstract!Next
<1>5. ASSUME NEW y \in Keys, Get(Norm[y]) PROVE Abstract!Next
  BY <1>1, <1>2, <1>5, GetContents DEF Abstract!Next
<1>6. CASE Clear
  BY <1>1, <1>6, ClearContents DEF Abstract!Next
<1>7. CASE Grow \/ Rehash
  BY <1>1, <1>7, GrowContents
<1>8. CASE Grown
  BY <1>1, <1>8, GrownContents
<1>9. CASE UNCHANGED vars
  BY <1>9 DEF vars, table, growth, Contents, Table, Used
<1>10. QED
  BY <1>1, <1>3, <1>4, <1>5, <1>6, <1>7, <1>8, <1>9 DEF Next

(* hashmap.c implements a map from folded keys, for every hash function, first
   size and sequence of calls. *)
THEOREM DictCorrect == Spec => DictSpec
<1>1. Init => Abstract!Init
  BY InitContents
<1>2. MapInv /\ MapInv' /\ [Next]_vars => [Abstract!Next]_<<kind, Contents, ret>>
  BY StepContents
<1>3. QED
  BY <1>1, <1>2, SpecInv, PTL DEF Spec, DictSpec, Abstract!Spec
=============================================================================
