------------------------------- MODULE Query -------------------------------
(***************************************************************************)
(* What a SELECT promises: its rows, in the order the clauses define, are  *)
(* shown one after the other, every one once, and it ends when all were.   *)
(*                                                                         *)
(* A row is a sequence of values, of which 0 is NULL; of a join it is that *)
(* of the tables one behind the other.  What a condition computes is data: *)
(* the pairs of a first and a last value for which it is true.             *)
(***************************************************************************)
EXTENDS Integers, Sequences, SequencesExt

(* Rows that are one group, or the same to DISTINCT. *)
Key(row) == row[1] % 2

Goes(row, condition) == <<row[1], Last(row)>> \in condition

(* A row of the tables so far with those of one more that go with it. *)
JoinRow(row, source) ==
  LET found == SelectSeq([k \in 1 .. source.rows |-> Append(row, k)],
                         LAMBDA r : Goes(r, source.matches))
  IN  IF found = << >> /\ source.join = "left" THEN <<Append(row, 0)>> ELSE found

From(table, joins) ==
  FoldLeft(LAMBDA rows, source : FlattenSeq([k \in DOMAIN rows |-> JoinRow(rows[k], source)]),
           table, joins)

Where(rows, conditions) ==
  SelectSeq(rows, LAMBDA row : \A k \in DOMAIN conditions : Goes(row, conditions[k]))

(* The first row of each key, in the order in which they come. *)
Distinct(rows) ==
  FoldLeft(LAMBDA kept, row :
             IF \E k \in DOMAIN kept : Key(kept[k]) = Key(row) THEN kept ELSE Append(kept, row),
           << >>, rows)

(* The key of a group and the number of its rows. *)
Group(rows) ==
  LET firsts == Distinct(rows)
      Count(row) == Len(SelectSeq(rows, LAMBDA r : Key(r) = Key(row)))
  IN  [k \in DOMAIN firsts |-> <<Key(firsts[k]), Count(firsts[k])>>]

Reduced(rows, reduce) ==
  CASE reduce = "all"      -> rows
    [] reduce = "distinct" -> Distinct(rows)
    [] reduce = "group"    -> Group(rows)

(* ORDER BY the first column, descending. *)
Sorted(rows) == SortSeq(rows, LAMBDA a, b : a[1] > b[1])

Top(rows, top) == IF top < Len(rows) THEN SubSeq(rows, 1, top) ELSE rows

Columns(row, columns) == [i \in DOMAIN columns |-> row[columns[i]]]

Member(m) ==
  LET rows    == Reduced(Where(From(m.table, m.joins), m.where), m.reduce)
      columns == [k \in DOMAIN rows |-> Columns(rows[k], m.columns)]
  IN  Top(IF m.order THEN Sorted(columns) ELSE columns, m.top)

(* SELECT ... UNION ALL SELECT ... *)
Answer(members) == FlattenSeq([k \in DOMAIN members |-> Member(members[k])])

VARIABLES
  answer,         (* all that is to be shown                                *)
  shown,          (* what was                                               *)
  over

Init == shown = << >> /\ over = FALSE

Show ==
  /\ ~over
  /\ \E n \in Len(shown) + 1 .. Len(answer) : shown' = SubSeq(answer, 1, n)
  /\ UNCHANGED <<answer, over>>

End ==
  /\ ~over /\ shown = answer
  /\ over' = TRUE
  /\ UNCHANGED <<answer, shown>>

Next == Show \/ End

Spec == Init /\ [][Next]_<<answer, shown, over>>
=============================================================================
