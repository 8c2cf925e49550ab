------------------------------ MODULE MCHashMap ------------------------------
(* A table that starts with one or two slots and doubles up to four times. *)
EXTENDS HashMap

(* "A" and "a " are one key to a table without case or trailing blanks; b, c
   and d share the home of another key in the small or in all tables. *)
KeyNames == {"A", "a ", "b", "c", "d"}
Folded == [x \in KeyNames |-> IF x \in {"A", "a "} THEN "a" ELSE x]
Hashes == [k \in {"a", "b", "c", "d"} |->
             CASE k = "a" -> 3 [] k = "b" -> 7 [] k = "c" -> 11 [] k = "d" -> 4]
=============================================================================
