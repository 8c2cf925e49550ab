------------------------------- MODULE HashMap -------------------------------
(***************************************************************************)
(* util/hashmap.c: an open addressing table with linear probing that       *)
(* doubles when nine tenths of it are used, as a set, a map or a multimap. *)
(* A compositemap is a map whose keys are rows of keys: its hash is the    *)
(* product of theirs and its comparison goes element by element, which     *)
(* Hash and Norm stand for.  Nothing is ever removed but by clearing.      *)
(***************************************************************************)
EXTENDS Integers, Sequences, FiniteSets

CONSTANTS
  Kinds,    (* what the table is used as                             *)
  Keys,     (* keys as they are passed                               *)
  Norm,     (* the bytes kept of a key: folded to lower case, without
               trailing blanks, or all of them, by `props`           *)
  Stored,   (* keys as they are kept                                 *)
  Hash,     (* get_hash__                                            *)
  Data,     (* what is stored for a key                              *)
  Limits,   (* first sizes of the table, powers of two               *)
  MaxPuts,  (* bound: number of set, nset or nadd calls              *)
  None      (* a slot with val_idx = _NONE                           *)

ASSUME KeysAssumption ==
  /\ Kinds \subseteq {"set", "hashmap", "multimap"}
  /\ Norm \in [Keys -> Stored]
  /\ Hash \in [Stored -> Nat]

Entry == [hash : Nat, key : Nat, val : Nat]

ASSUME SizeAssumption ==
  /\ Limits \subseteq Nat \ {0}
  /\ MaxPuts \in Nat
  /\ None \notin Entry

VARIABLES
  kind,      (* set, map or multimap                                      *)
  limit,     (* _limit                                                    *)
  entries,   (* _entries                                                  *)
  keybuf,    (* _keybuf up to _keybuf_head, a key at a time               *)
  values,    (* values, a multimap's element being a vector               *)
  count,     (* the number a set keeps in place of values                 *)
  pc,        (* "idle", or where _increase_size is: "grow", "rehash"      *)
  oldLimit,  (* old_limit of _increase_size                               *)
  src,       (* src_entries of _increase_size                             *)
  i,         (* i of _increase_size                                       *)
  ret,       (* what the last get returned, {} for NULL                   *)
  puts       (* history: number of calls that stored, for the bound       *)

table == <<limit, entries, keybuf, values, count>>
growth == <<oldLimit, src, i>>
vars == <<kind, table, pc, growth, ret, puts>>

------------------------------------------------------------------------------
(* Probing *)

EmptyTable(l) == [s \in 0 .. l - 1 |-> None]
Used(t) == {s \in DOMAIN t : t[s] # None}

(* hash & (limit - 1), limit being a power of two *)
Home(h, l) == h % l

(* The slot where a search for hash h is after d times idx = (idx + 1) % limit. *)
At(h, d, l) == LET s == Home(h, l) + d IN IF s < l THEN s ELSE s - l

(* The first slot of S that a search from the home of h meets. *)
FirstOf(h, S, l) ==
  LET d == CHOOSE d \in 0 .. l - 1 :
             At(h, d, l) \in S /\ \A e \in 0 .. l - 1 : At(h, e, l) \in S => d <= e
  IN  At(h, d, l)

Matches(e, k) == e.hash = Hash[k] /\ keybuf[e.key] = k

GetEntry(k) ==
  FirstOf(Hash[k],
          {s \in 0 .. limit - 1 : entries[s] = None \/ Matches(entries[s], k)}, limit)

Size == IF kind = "set" THEN count ELSE Len(values)

(* Mutant: grows when there is no slot left. *)
TooFullLate(n, l) == n > l

TooFull(n, l) == 10 * n > 9 * l

------------------------------------------------------------------------------
(* Operations *)

Init ==
  /\ kind \in Kinds
  /\ limit \in Limits
  /\ entries = EmptyTable(limit)
  /\ keybuf = << >> /\ values = << >> /\ count = 0
  /\ pc = "idle"
  /\ oldLimit = 0 /\ src = << >> /\ i = 0
  /\ ret = {}
  /\ puts = 0

(* A set only counts, in the pointer that is values to the others; a multimap
   begins a vector for the key. *)
AddValue(d) ==
  IF kind = "set" THEN count' = count + 1 /\ UNCHANGED values
  ELSE values' = Append(values, << d >>) /\ UNCHANGED count

(* vec_push_back or vec_set_at of what is stored for a key that is there *)
Changed(old, d) ==
  IF kind = "multimap" THEN Append(old, d) ELSE << d >>

(* Mutant: without _keybuf_head += n, so that the next key overwrites it. *)
PutNewSameKey(k, d) ==
  LET s == GetEntry(k)
  IN  /\ pc = "idle" /\ puts < MaxPuts
      /\ entries[s] = None
      /\ entries' = [entries EXCEPT ![s] =
           [hash |-> Hash[k], key |-> 1,
            val  |-> IF kind = "set" THEN 0 ELSE Len(values) + 1]]
      /\ keybuf' = << k >>
      /\ AddValue(d)
      /\ pc' = IF TooFull(Size + 1, limit) THEN "grow" ELSE "idle"
      /\ puts' = puts + 1
      /\ UNCHANGED <<kind, limit, growth, ret>>

(* set_nadd, hashmap_nset, multimap_nset of a key that is not there *)
PutNew(k, d) ==
  LET s == GetEntry(k)
  IN  /\ pc = "idle" /\ puts < MaxPuts
      /\ entries[s] = None
      /\ entries' = [entries EXCEPT ![s] =
           [hash |-> Hash[k], key |-> Len(keybuf) + 1,
            val  |-> IF kind = "set" THEN 0 ELSE Len(values) + 1]]
      /\ keybuf' = Append(keybuf, k)
      /\ AddValue(d)
      /\ pc' = IF TooFull(Size + 1, limit) THEN "grow" ELSE "idle"
      /\ puts' = puts + 1
      /\ UNCHANGED <<kind, limit, growth, ret>>

(* the same of a key that is there *)
PutKnown(k, d) ==
  LET s == GetEntry(k)
  IN  /\ pc = "idle" /\ puts < MaxPuts
      /\ entries[s] # None
      /\ values' = IF kind = "set" THEN values
                   ELSE [values EXCEPT ![entries[s].val] = Changed(@, d)]
      /\ puts' = puts + 1
      /\ UNCHANGED <<kind, limit, entries, keybuf, count, pc, growth, ret>>

(* set_nhas, hashmap_nget *)
Get(k) ==
  LET e == entries[GetEntry(k)]
  IN  /\ pc = "idle"
      /\ ret' = IF e = None THEN {}
                ELSE {IF kind = "set" THEN << >> ELSE values[e.val]}
      /\ UNCHANGED <<kind, table, pc, growth, puts>>

(* set_clear, hashmap_clear, multimap_clear: the set's count stays. *)
Clear ==
  /\ pc = "idle"
  /\ entries' = EmptyTable(limit)
  /\ keybuf' = << >> /\ values' = << >>
  /\ UNCHANGED <<kind, limit, count, pc, growth, ret, puts>>

(* Mutant: allocates as many entries as before. *)
GrowSameSize ==
  /\ pc = "grow"
  /\ oldLimit' = limit /\ src' = entries /\ i' = 0
  /\ limit' = 2 * limit
  /\ entries' = EmptyTable(limit)
  /\ pc' = "rehash"
  /\ UNCHANGED <<kind, keybuf, values, count, ret, puts>>

(* _increase_size, up to its loop: the next power of two of limit + 1 is twice
   a limit that is one. *)
Grow ==
  /\ pc = "grow"
  /\ oldLimit' = limit /\ src' = entries /\ i' = 0
  /\ limit' = 2 * limit
  /\ entries' = EmptyTable(2 * limit)
  /\ pc' = "rehash"
  /\ UNCHANGED <<kind, keybuf, values, count, ret, puts>>

(* Mutant: searches from the old slot in place of the hash. *)
RehashSameSlot ==
  /\ pc = "rehash" /\ i < oldLimit
  /\ entries' = IF src[i] = None THEN entries
                ELSE [entries EXCEPT ![FirstOf(i,
                                         {s \in 0 .. limit - 1 : entries[s] = None},
                                         limit)] = src[i]]
  /\ i' = i + 1
  /\ UNCHANGED <<kind, limit, keybuf, values, count, pc, oldLimit, src, ret, puts>>

(* one turn of its loop *)
Rehash ==
  /\ pc = "rehash" /\ i < oldLimit
  /\ entries' = IF src[i] = None THEN entries
                ELSE [entries EXCEPT ![FirstOf(src[i].hash,
                                         {s \in 0 .. limit - 1 : entries[s] = None},
                                         limit)] = src[i]]
  /\ i' = i + 1
  /\ UNCHANGED <<kind, limit, keybuf, values, count, pc, oldLimit, src, ret, puts>>

(* its end: free(src_entries) *)
Grown ==
  /\ pc = "rehash" /\ i = oldLimit
  /\ pc' = "idle"
  /\ oldLimit' = 0 /\ src' = << >> /\ i' = 0
  /\ UNCHANGED <<kind, table, ret, puts>>

Next ==
  \/ \E x \in Keys, d \in Data : PutNew(Norm[x], d) \/ PutKnown(Norm[x], d)
  \/ \E x \in Keys : Get(Norm[x])
  \/ Clear
  \/ Grow \/ Rehash \/ Grown

Spec == Init /\ [][Next]_vars

------------------------------------------------------------------------------
(* Properties *)

(* The table has as many slots as its limit says, also while it grows. *)
TypeOK ==
  /\ kind \in Kinds
  /\ limit \in Nat \ {0}
  /\ entries \in [0 .. limit - 1 -> Entry \cup {None}]
  /\ keybuf \in Seq(Stored)
  /\ values \in Seq(Seq(Data))
  /\ count \in Nat
  /\ pc \in {"idle", "grow", "rehash"}
  /\ oldLimit \in Nat
  /\ src \in [0 .. oldLimit - 1 -> Entry \cup {None}]
  /\ i \in 0 .. oldLimit
  /\ ret \in SUBSET Seq(Data)
  /\ puts \in 0 .. MaxPuts

(* _get_entry and the loop of _increase_size stop at a free slot or a match
   and test nothing else: whenever either may run there is a free slot, also
   behind a set whose count is older than its last clear. *)
ProbeEnds == pc \in {"idle", "rehash"} => \E s \in DOMAIN entries : entries[s] = None

(* A key is found where it is stored, however the keys collide, the search
   wraps or the table has grown since: _get_entry of the key of a slot is that
   slot. *)
Findable ==
  pc = "idle" =>
    \A s \in Used(entries) : GetEntry(keybuf[entries[s].key]) = s

(* The entries that count: those of the old table until the new one is full. *)
Table == IF pc = "rehash" THEN src ELSE entries

(* The map that the table stands for. *)
Contents ==
  [k \in {keybuf[Table[s].key] : s \in Used(Table)} |->
     IF kind = "set" THEN << >>
     ELSE values[Table[CHOOSE s \in Used(Table) : keybuf[Table[s].key] = k].val]]

Abstract == INSTANCE Dict WITH dict <- Contents

(* hashmap.c implements a map from folded keys: a put changes what is stored
   for its own key only, growing changes nothing, and a get returns what was
   put since the last clear. *)
DictSpec == Abstract!Spec
=============================================================================
