-------------------------------- MODULE Dict --------------------------------
(***************************************************************************)
(* What a table of keys promises to DISTINCT and IN (a set), to schemas    *)
(* and GROUP BY (a map) and to a hash join (a multimap), with no slots and *)
(* no hashes: a function from the keys that were stored since the last     *)
(* clear to what was stored for them.  HashMap.tla implements it.          *)
(***************************************************************************)
EXTENDS Sequences

CONSTANTS Kinds, Stored, Data

VARIABLES
  kind,  (* what the table is used as                     *)
  dict,  (* the stored keys and what is stored for each   *)
  ret    (* what the last lookup returned: {} for nothing *)

(* What storing d does to what a key has: a set keeps no data, a map replaces
   it, a multimap keeps all of it in the order in which it came. *)
Merge(old, d) ==
  CASE kind = "set"      -> << >>
    [] kind = "hashmap"  -> << d >>
    [] kind = "multimap" -> Append(old, d)

Empty == [k \in {} |-> << >>]

Init ==
  /\ kind \in Kinds
  /\ dict = Empty
  /\ ret = {}

Put(k, d) ==
  /\ dict' = [x \in DOMAIN dict \cup {k} |->
                IF x # k THEN dict[x]
                ELSE Merge(IF k \in DOMAIN dict THEN dict[k] ELSE << >>, d)]
  /\ UNCHANGED <<kind, ret>>

Get(k) ==
  /\ ret' = IF k \in DOMAIN dict THEN {dict[k]} ELSE {}
  /\ UNCHANGED <<kind, dict>>

Clear ==
  /\ dict' = Empty
  /\ UNCHANGED <<kind, ret>>

Next ==
  \/ \E k \in Stored, d \in Data : Put(k, d)
  \/ \E k \in Stored : Get(k)
  \/ Clear

Spec == Init /\ [][Next]_<<kind, dict, ret>>
=============================================================================
