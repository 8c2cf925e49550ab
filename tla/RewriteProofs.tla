--------------------------- MODULE RewriteProofs ---------------------------
(***************************************************************************)
(* What fql_update and the filters of DELETE and UPDATE write, for every   *)
(* number of rows, of entries a row gives and every capacity of the pipes, *)
(* with and without threads.                                               *)
(*                                                                         *)
(* The proofs are about the sets of rows in the pipes and in the file.     *)
(***************************************************************************)
EXTENDS Rewrite, SequenceTheorems, WellFoundedInduction, TLAPS

-----------------------------------------------------------------------------
(* Rows in a pipe. *)

RowsIn(q) == {q[k] : k \in 1 .. Len(q)}

Ascending(q) == \A j, k \in 1 .. Len(q) : j < k => q[j] <= q[k]

(* Only the rows of S are in the pipe more than once. *)
Once(q, S) == \A j, k \in 1 .. Len(q) : j < k => q[j] # q[k] \/ q[j] \in S

(* A set of natural numbers has a least one. *)
LEMMA LeastOf ==
  ASSUME NEW T, T \subseteq Nat, T # {}
  PROVE  \E x \in T : \A y \in T : x <= y
<1>1. PICK x \in T : \A y \in T : <<y, x>> \notin OpToRel(<, Nat)
  BY NatLessThanWellFounded, WFMin
<1>2. ASSUME NEW y \in T PROVE x <= y
  <2>1. <<y, x>> \in Nat \X Nat /\ <<y, x>> \notin OpToRel(<, Nat)
    BY <1>1
  <2>2. ~(y < x)
    BY <2>1 DEF OpToRel
  <2>3. QED
    BY <2>2
<1>3. QED
  BY <1>2

(* An empty pipe is one without rows. *)
LEMMA RowsOfEmpty ==
  /\ RowsIn(<< >>) = {}
  /\ \A q \in Seq(Nat) : q # << >> => RowsIn(q) # {}
<1>1. Len(<< >>) = 0
  OBVIOUS
<1>2. RowsIn(<< >>) = {}
  BY <1>1 DEF RowsIn
<1>3. ASSUME NEW q \in Seq(Nat), q # << >> PROVE q[1] \in RowsIn(q)
  BY <1>3, EmptySeq DEF RowsIn
<1>4. QED
  BY <1>2, <1>3

(* The row in front is one of the rows and comes first. *)
LEMMA HeadIsLeast ==
  ASSUME NEW q \in Seq(Nat), q # << >>
  PROVE  /\ Head(q) \in RowsIn(q)
         /\ Ascending(q) => \A r \in RowsIn(q) : Head(q) <= r
<1>1. Len(q) \in Nat \ {0} /\ Head(q) = q[1] /\ \A k \in 1 .. Len(q) : q[k] \in Nat
  BY EmptySeq, ElementOfSeq
<1>2. Head(q) \in RowsIn(q)
  BY <1>1 DEF RowsIn
<1>4. ASSUME Ascending(q), NEW k \in 1 .. Len(q) PROVE Head(q) <= q[k]
  BY <1>1, <1>4 DEF Ascending
<1>5. QED
  BY <1>2, <1>4 DEF RowsIn

(* Adding a row that comes after the others. *)
LEMMA RowsOfAppend ==
  ASSUME NEW q \in Seq(Nat), NEW r \in Nat, NEW S
  PROVE  /\ RowsIn(Append(q, r)) = RowsIn(q) \cup {r}
         /\ Once(q, S) /\ (\A e \in RowsIn(q) : e # r \/ e \in S) => Once(Append(q, r), S)
         /\ Ascending(q) /\ (\A e \in RowsIn(q) : e <= r) => Ascending(Append(q, r))
<1> DEFINE p == Append(q, r)
<1>1. /\ Len(q) \in Nat /\ Len(p) = Len(q) + 1
      /\ \A k \in 1 .. Len(q) : p[k] = q[k]
      /\ p[Len(q) + 1] = r
  BY AppendProperties, LenProperties
<1>2. 1 .. Len(p) = (1 .. Len(q)) \cup {Len(q) + 1}
  BY <1>1
<1> HIDE DEF p
<1>3. RowsIn(p) = RowsIn(q) \cup {r}
  <2>1. \A k \in 1 .. Len(q) : k \in 1 .. Len(p)
    BY <1>2
  <2>2. \A e \in RowsIn(q) : e \in RowsIn(p)
    BY <1>1, <2>1 DEF RowsIn
  <2>3. r \in RowsIn(p)
    BY <1>1, <1>2 DEF RowsIn
  <2>4. \A k \in 1 .. Len(p) : p[k] = r \/ p[k] \in RowsIn(q)
    BY <1>1, <1>2 DEF RowsIn
  <2>5. \A e \in RowsIn(p) : e = r \/ e \in RowsIn(q)
    BY <2>4 DEF RowsIn
  <2>6. QED
    BY ONLY <2>2, <2>3, <2>5
<1>4. ASSUME Once(q, S), \A e \in RowsIn(q) : e # r \/ e \in S PROVE Once(p, S)
  <2> SUFFICES ASSUME NEW j \in 1 .. Len(p), NEW k \in 1 .. Len(p), j < k
               PROVE  p[j] # p[k] \/ p[j] \in S
    BY DEF Once
  <2>1. j \in 1 .. Len(q) /\ p[j] = q[j] /\ q[j] \in RowsIn(q)
    BY <1>1, <1>2 DEF RowsIn
  <2>2. CASE k \in 1 .. Len(q)
    BY <1>1, <1>4, <2>1, <2>2 DEF Once
  <2>3. CASE k = Len(q) + 1
    BY <1>1, <1>4, <2>1, <2>3
  <2>4. QED
    BY <1>2, <2>2, <2>3
<1>5. ASSUME Ascending(q), \A e \in RowsIn(q) : e <= r PROVE Ascending(p)
  BY <1>1, <1>2, <1>5 DEF Ascending, RowsIn
<1>6. QED
  BY <1>3, <1>4, <1>5 DEF p

(* Taking the row in front; the same row may follow in an ascending pipe. *)
LEMMA RowsOfTail ==
  ASSUME NEW q \in Seq(Nat), q # << >>, NEW S
  PROVE  /\ RowsIn(q) = RowsIn(Tail(q)) \cup {Head(q)}
         /\ Once(q, S) => /\ Once(Tail(q), S)
                          /\ Head(q) \in RowsIn(Tail(q)) => Head(q) \in S
         /\ Ascending(q) => Ascending(Tail(q))
<1> DEFINE p == Tail(q)
<1>1. /\ Len(q) \in Nat \ {0} /\ Len(p) = Len(q) - 1 /\ Head(q) = q[1]
      /\ \A k \in 1 .. Len(p) : p[k] = q[k + 1]
      /\ \A k \in 1 .. Len(q) : q[k] \in Nat
  BY HeadTailProperties, EmptySeq, ElementOfSeq
<1> HIDE DEF p
<1>2. \A k \in 1 .. Len(p) : k + 1 \in 1 .. Len(q)
  BY <1>1
<1>3. \A k \in 1 .. Len(q) : k = 1 \/ (k - 1 \in 1 .. Len(p) /\ p[k - 1] = q[k])
  BY <1>1
<1>4. RowsIn(q) = RowsIn(p) \cup {Head(q)}
  <2>1. \A k \in 1 .. Len(p) : p[k] \in RowsIn(q)
    BY <1>1, <1>2 DEF RowsIn
  <2>2. \A k \in 1 .. Len(q) : q[k] \in RowsIn(p) \cup {Head(q)}
    BY <1>1, <1>3 DEF RowsIn
  <2>3. Head(q) \in RowsIn(q)
    BY HeadIsLeast
  <2>4. QED
    BY <2>1, <2>2, <2>3 DEF RowsIn
<1>5. ASSUME Once(q, S) PROVE Once(p, S)
  <2> SUFFICES ASSUME NEW j \in 1 .. Len(p), NEW k \in 1 .. Len(p), j < k
               PROVE  p[j] # p[k] \/ p[j] \in S
    BY DEF Once
  <2>1. j + 1 \in 1 .. Len(q) /\ k + 1 \in 1 .. Len(q) /\ j + 1 < k + 1
    BY <1>2
  <2>2. q[j + 1] # q[k + 1] \/ q[j + 1] \in S
    BY <1>5, <2>1 DEF Once
  <2>3. QED
    BY <1>1, <2>2
<1>6. ASSUME Once(q, S), NEW k \in 1 .. Len(p), p[k] = Head(q) PROVE Head(q) \in S
  <2>1. q[1] # q[k + 1] \/ q[1] \in S
    BY <1>1, <1>2, <1>6 DEF Once
  <2>2. QED
    BY <1>1, <1>6, <2>1
<1>7. ASSUME Ascending(q), NEW j \in 1 .. Len(p), NEW k \in 1 .. Len(p), j < k
      PROVE  p[j] <= p[k]
  <2>1. q[j + 1] <= q[k + 1]
    BY <1>1, <1>2, <1>7 DEF Ascending
  <2>2. QED
    BY <1>1, <1>2, <2>1
<1>8. QED
  BY <1>4, <1>5, <1>6, <1>7 DEF p, RowsIn, Ascending

(* Of an ascending pipe, Beyond leaves the later rows, all of them. *)
LEMMA RowsOfBeyond ==
  ASSUME NEW S, S \subseteq Nat, NEW q \in Seq(S), Ascending(q), NEW i \in Nat, NEW M
  PROVE  /\ Beyond(q, i) \in Seq(S) /\ Len(Beyond(q, i)) <= Len(q)
         /\ RowsIn(Beyond(q, i)) = {r \in RowsIn(q) : i < r}
         /\ Ascending(Beyond(q, i))
         /\ Once(q, M) => Once(Beyond(q, i), M)
<1> DEFINE later == {k \in 1 .. Len(q) : q[k] > i}
           n == CHOOSE k \in later : \A j \in later : k <= j
           p == Beyond(q, i)
<1>1. Len(q) \in Nat /\ \A k \in 1 .. Len(q) : q[k] \in S /\ q[k] \in Nat
  <2>1. \A k \in 1 .. Len(q) : q[k] \in S
    BY ElementOfSeq
  <2>2. QED
    BY <2>1, LenProperties
<1>2. CASE later = {}
  <2>1. p = << >>
    BY <1>2 DEF Beyond
  <2>2. {r \in RowsIn(q) : i < r} = {}
    BY <1>1, <1>2 DEF RowsIn
  <2>3. Len(<< >>) = 0 /\ << >> \in Seq(S)
    OBVIOUS
  <2>4. Ascending(<< >>) /\ Once(<< >>, M)
    BY <2>3 DEF Ascending, Once
  <2>5. QED
    BY <1>1, <2>1, <2>2, <2>3, <2>4, RowsOfEmpty
<1>3. CASE later # {}
  <2>1. \E k \in later : \A j \in later : k <= j
    <3>1. later \subseteq Nat
      BY <1>1
    <3>2. QED
      BY <1>3, <3>1, LeastOf
  <2>2. n \in 1 .. Len(q) /\ q[n] > i /\ \A j \in later : n <= j
    BY <2>1
  <2>3. p = SubSeq(q, n, Len(q))
    BY <1>3 DEF Beyond
  <2> HIDE DEF n, p
  <2>4. /\ p \in Seq(S) /\ Len(p) = Len(q) - n + 1
        /\ \A k \in 1 .. Len(p) : p[k] = q[n + k - 1]
    <3>1. \A k \in n .. Len(q) : q[k] \in S
      BY <1>1, <2>2
    <3>2. QED
      BY <1>1, <2>2, <2>3, <3>1, SubSeqProperties
  <2>5. \A k \in 1 .. Len(p) : n + k - 1 \in 1 .. Len(q)
    BY <1>1, <2>2, <2>4
  <2>6. \A k \in 1 .. Len(p) : p[k] \in RowsIn(q) /\ i < p[k]
    <3> SUFFICES ASSUME NEW k \in 1 .. Len(p) PROVE p[k] \in RowsIn(q) /\ i < p[k]
      OBVIOUS
    <3>1. q[n] <= q[n + k - 1]
      BY <1>1, <2>2, <2>5 DEF Ascending
    <3>2. p[k] = q[n + k - 1] /\ n + k - 1 \in 1 .. Len(q)
      BY <2>4, <2>5
    <3>3. p[k] \in RowsIn(q)
      BY <3>2 DEF RowsIn
    <3>4. q[n] \in Nat /\ q[n + k - 1] \in Nat /\ i \in Int
      BY <1>1, <2>2, <3>2
    <3>5. i < p[k]
      BY <2>2, <3>1, <3>2, <3>4
    <3>6. QED
      BY <3>3, <3>5
  <2>7. \A k \in 1 .. Len(q) : q[k] > i => k - n + 1 \in 1 .. Len(p) /\ p[k - n + 1] = q[k]
    BY <1>1, <2>2, <2>4
  <2>8. RowsIn(p) = {r \in RowsIn(q) : i < r}
    <3>1. ASSUME NEW r \in RowsIn(q), i < r PROVE r \in RowsIn(p)
      <4>1. PICK k \in 1 .. Len(q) : q[k] = r
        BY DEF RowsIn
      <4>2. k - n + 1 \in 1 .. Len(p) /\ p[k - n + 1] = r
        BY <1>1, <2>7, <3>1, <4>1
      <4>3. QED
        BY <4>2 DEF RowsIn
    <3>2. QED
      BY <2>6, <3>1 DEF RowsIn
  <2>9. ASSUME NEW j \in 1 .. Len(p), NEW k \in 1 .. Len(p), j < k
        PROVE  p[j] <= p[k] /\ (Once(q, M) => p[j] # p[k] \/ p[j] \in M)
    <3>1. n + j - 1 \in 1 .. Len(q) /\ n + k - 1 \in 1 .. Len(q) /\ n + j - 1 < n + k - 1
      BY <1>1, <2>2, <2>4, <2>5, <2>9
    <3>2. /\ q[n + j - 1] <= q[n + k - 1]
          /\ Once(q, M) => q[n + j - 1] # q[n + k - 1] \/ q[n + j - 1] \in M
      BY <3>1 DEF Ascending, Once
    <3>3. QED
      BY <2>4, <3>2
  <2>10. Len(p) <= Len(q)
    BY <1>1, <2>2, <2>4
  <2>11. Ascending(p) /\ (Once(q, M) => Once(p, M))
    BY <2>9 DEF Ascending, Once
  <2>12. QED
    BY <2>4, <2>8, <2>10, <2>11 DEF p
<1>4. QED
  BY <1>2, <1>3

-----------------------------------------------------------------------------
(* The invariant. *)

FalseRows == RowsIn(inFalse)
TrueRows  == RowsIn(inTrue)

(* What the producer has put into the pipes: the rows in order, in the FALSE pipe each
   once but for the mixed ones; and it closes them when it has sent every row. *)
Sorted ==
  /\ handler = "fql_update" => source = "where"
  /\ source = "where" => mixed = {} /\ Once(inTrue, {})
  /\ matched \subseteq 0 .. sent - 1 /\ mixed \subseteq 0 .. sent - 1
  /\ FalseRows \subseteq 0 .. sent - 1 /\ TrueRows \subseteq matched
  /\ FalseRows \cap matched \subseteq mixed
  /\ Ascending(inFalse) /\ Once(inFalse, mixed) /\ Ascending(inTrue)
  /\ ~openTrue => ~openFalse
  /\ ~openFalse => sent = Rows

Calls       == {"call", "call_true", "call_open_true", "call_open_false"}
UpdatePlace == {"begin_false", "merge_false", "begin_true", "merge_true"}
FilterPlace == {"open", "open_true", "filtering", "filter_open", "filter_batch",
                "passthrough", "pass_true"}

(* What a call has seen of its inputs, if nobody adds to them meanwhile. *)
Called ==
  /\ pc = "call_open_false" => ~openTrue
  /\ pc = "done" => ~openFalse /\ inFalse = << >> /\ inTrue = << >>
  /\ ~threaded =>
       /\ pc \in {"call_true", "call_open_true", "call_open_false"} => inFalse = << >>
       /\ pc \in {"call_open_true", "call_open_false"} => inTrue = << >>

(* fql_update: the rows before idx are written, the others in the pipes. *)
Merged ==
  handler = "fql_update" =>
    /\ pc \in Calls \cup UpdatePlace \cup {"done"} /\ state = "open"
    /\ Len(written) = idx /\ idx <= sent
    /\ \A k \in 1 .. idx : written[k] = Outcome(k - 1)
    /\ pc # "done" => FalseRows \cup TrueRows = idx .. sent - 1
    /\ pc = "done" /\ ~threaded => idx = Rows
    /\ pc = "merge_false" => batch <= Len(inFalse)
    /\ pc = "merge_true" => batch <= Len(inTrue)

(* A filter: where it may be in each state, and the entries it counts on there. *)
Filtering ==
  state = "filtering" =>
    /\ pc \in Calls \cup {"filtering", "filter_open", "filter_batch", "done"}
    /\ pc # "done" => inFalse # << >> /\ Head(inFalse) = idx

Opening ==
  /\ state = "open" => pc \in Calls \cup {"open", "open_true", "filter_batch", "done"}
  /\ pc = "open" => inFalse # << >> \/ inTrue # << >>
  /\ pc = "open_true" => IF falseSeen THEN inFalse # << >> ELSE inTrue # << >>

Placed ==
  /\ pc \notin UpdatePlace
  /\ Filtering /\ Opening
  /\ state = "passthrough" => pc \in Calls \cup {"passthrough", "pass_true", "done"}
  /\ pc = "filter_batch" => inFalse # << >> /\ idx <= Head(inFalse) /\ batch <= Len(inFalse)

(* What is written and what is not: an entry of a row that is written can only come if
   the row is mixed, the rows to be written come behind those that are, and none is lost. *)
Listed ==
  /\ FalseRows \cap WrittenRows \subseteq mixed
  /\ ~Racing => \A w \in WrittenRows, r \in FalseRows : w <= r
  /\ ~threaded =>
       /\ \A w \in WrittenRows, r \in TrueRows : w <= r
       /\ pc # "done" => Expected \subseteq WrittenRows \cup FalseRows \cup TrueRows
  /\ WrittenOnce /\ WrittenInOrder /\ AllWritten

(* Without threads the row a filter passes over is decided, and comes before the others;
   a matched row that is written comes again only if it is that one. *)
PassingThrough ==
  state = "passthrough" =>
    /\ idx \in 0 .. sent - 1
    /\ Kept(idx) => idx \in WrittenRows
    /\ \A r \in FalseRows \cup TrueRows : idx <= r
    /\ pc \in {"passthrough", "pass_true"} =>
         (idx \in matched \ mixed => idx < sent - 1 \/ inTrue # << >>)

Again ==
  \A r \in (matched \cap WrittenRows) \ mixed :
    r \in TrueRows \/ r = sent - 1 => state = "passthrough" /\ idx = r

Decided ==
  ~threaded =>
    /\ state = "filtering" => \A r \in TrueRows : idx <= r
    /\ pc = "open_true" /\ ~falseSeen => inFalse = << >>
    /\ pc \in {"filter_open", "filter_batch"} => inTrue = << >>
    /\ PassingThrough /\ Again

FilterInv  == handler \in Filters => Placed /\ Listed /\ Decided
RewriteInv == TypeOK /\ Sorted /\ Called /\ Merged /\ FilterInv
-----------------------------------------------------------------------------
(* What the invariant says of the rows in the pipes. *)

LEMMA Fronts ==
  ASSUME TypeOK, Sorted
  PROVE  /\ sent \in Nat /\ idx \in Nat /\ Rows \in Nat /\ sent <= Rows
         /\ inFalse \in Seq(Nat) /\ inTrue \in Seq(Nat)
         /\ FalseRows \subseteq 0 .. sent - 1 /\ FalseRows \cap matched \subseteq mixed
         /\ TrueRows \subseteq 0 .. sent - 1 /\ TrueRows \subseteq matched
         /\ inFalse = << >> <=> FalseRows = {}
         /\ inTrue = << >> <=> TrueRows = {}
         /\ inFalse # << >> => /\ Head(inFalse) \in FalseRows
                               /\ \A r \in FalseRows : Head(inFalse) <= r
         /\ inTrue # << >> => /\ Head(inTrue) \in TrueRows
                              /\ \A r \in TrueRows : Head(inTrue) <= r
<1>1. /\ sent \in Nat /\ idx \in Nat /\ Rows \in Nat /\ sent <= Rows
      /\ inFalse \in Seq(0 .. Rows - 1) /\ inTrue \in Seq(0 .. Rows - 1)
  BY MatchPipesAssumption DEF TypeOK, PipesTypeOK
<1>2. inFalse \in Seq(Nat) /\ inTrue \in Seq(Nat)
  <2>1. 0 .. Rows - 1 \subseteq Nat
    OBVIOUS
  <2>2. QED
    BY <1>1, <2>1, SeqMonotonic
<1>3. /\ inFalse = << >> <=> FalseRows = {}
      /\ inTrue = << >> <=> TrueRows = {}
  BY <1>2, RowsOfEmpty DEF FalseRows, TrueRows
<1>4. inFalse # << >> => /\ Head(inFalse) \in FalseRows
                         /\ \A r \in FalseRows : Head(inFalse) <= r
  BY <1>2, HeadIsLeast DEF FalseRows, Sorted
<1>5. inTrue # << >> => /\ Head(inTrue) \in TrueRows
                        /\ \A r \in TrueRows : Head(inTrue) <= r
  BY <1>2, HeadIsLeast DEF TrueRows, Sorted
<1>6. /\ FalseRows \subseteq 0 .. sent - 1 /\ FalseRows \cap matched \subseteq mixed
      /\ TrueRows \subseteq 0 .. sent - 1 /\ TrueRows \subseteq matched
  BY DEF Sorted
<1>7. QED
  BY <1>1, <1>2, <1>3, <1>4, <1>5, <1>6

(* The pipes stay sorted when entries are only taken from them. *)
FalseSorted == Ascending(inFalse) /\ Once(inFalse, mixed)
TrueSorted  == Ascending(inTrue) /\ (source = "where" => Once(inTrue, {}))

LEMMA TakeFalse ==
  ASSUME TypeOK, Sorted, inFalse # << >>, inFalse' = Tail(inFalse), UNCHANGED mixed
  PROVE  /\ inFalse' \in Seq(0 .. Rows - 1) /\ Len(inFalse') = Len(inFalse) - 1
         /\ Len(inFalse') <= Capacity /\ FalseSorted'
         /\ FalseRows = FalseRows' \cup {Head(inFalse)}
         /\ Head(inFalse) \in FalseRows' => Head(inFalse) \in mixed
<1>1. /\ inFalse \in Seq(0 .. Rows - 1) /\ inFalse \in Seq(Nat)
      /\ Ascending(inFalse) /\ Once(inFalse, mixed)
  BY Fronts DEF TypeOK, PipesTypeOK, Sorted
<1>2. inFalse' \in Seq(0 .. Rows - 1) /\ Len(inFalse') = Len(inFalse) - 1
  BY <1>1, HeadTailProperties
<1>3. /\ FalseRows = FalseRows' \cup {Head(inFalse)}
      /\ Ascending(inFalse') /\ Once(inFalse', mixed)
      /\ Head(inFalse) \in FalseRows' => Head(inFalse) \in mixed
  BY <1>1, RowsOfTail DEF FalseRows
<1>4. Len(inFalse) \in Nat /\ Len(inFalse) <= Capacity /\ Capacity \in Nat
  BY <1>1, LenProperties, MatchPipesAssumption DEF TypeOK, PipesTypeOK
<1>5. QED
  BY <1>2, <1>3, <1>4 DEF FalseSorted

LEMMA TakeTrue ==
  ASSUME TypeOK, Sorted, inTrue # << >>, inTrue' = Tail(inTrue), UNCHANGED source
  PROVE  /\ inTrue' \in Seq(0 .. Rows - 1) /\ Len(inTrue') = Len(inTrue) - 1
         /\ Len(inTrue') <= Capacity /\ TrueSorted'
         /\ TrueRows = TrueRows' \cup {Head(inTrue)}
         /\ source = "where" => Head(inTrue) \notin TrueRows'
<1>1. /\ inTrue \in Seq(0 .. Rows - 1) /\ inTrue \in Seq(Nat) /\ Ascending(inTrue)
      /\ source = "where" => Once(inTrue, {})
  BY Fronts DEF TypeOK, PipesTypeOK, Sorted
<1>2. inTrue' \in Seq(0 .. Rows - 1) /\ Len(inTrue') = Len(inTrue) - 1
  BY <1>1, HeadTailProperties
<1>3. TrueRows = TrueRows' \cup {Head(inTrue)} /\ Ascending(inTrue')
  BY <1>1, RowsOfTail DEF TrueRows
<1>4. source = "where" => Once(inTrue', {}) /\ Head(inTrue) \notin TrueRows'
  BY <1>1, RowsOfTail DEF TrueRows
<1>5. Len(inTrue) \in Nat /\ Len(inTrue) <= Capacity /\ Capacity \in Nat
  BY <1>1, LenProperties, MatchPipesAssumption DEF TypeOK, PipesTypeOK
<1>6. QED
  BY <1>2, <1>3, <1>4, <1>5 DEF TrueSorted

LEMMA PassedFalse ==
  ASSUME TypeOK, Sorted, inFalse' = Beyond(inFalse, idx), UNCHANGED mixed
  PROVE  /\ inFalse' \in Seq(0 .. Rows - 1) /\ Len(inFalse') <= Capacity /\ FalseSorted'
         /\ FalseRows' = {r \in FalseRows : idx < r}
<1>1. /\ inFalse \in Seq(0 .. Rows - 1) /\ Ascending(inFalse) /\ Once(inFalse, mixed)
      /\ idx \in Nat /\ 0 .. Rows - 1 \subseteq Nat
  BY Fronts DEF TypeOK, PipesTypeOK, Sorted
<1>2. /\ inFalse' \in Seq(0 .. Rows - 1) /\ Len(inFalse') <= Len(inFalse)
      /\ RowsIn(inFalse') = {r \in RowsIn(inFalse) : idx < r}
      /\ Ascending(inFalse') /\ Once(inFalse', mixed)
  BY <1>1, RowsOfBeyond
<1>3. /\ Len(inFalse) \in Nat /\ Len(inFalse') \in Nat /\ Len(inFalse) <= Capacity
      /\ Capacity \in Nat
  BY <1>1, <1>2, LenProperties, MatchPipesAssumption DEF TypeOK, PipesTypeOK
<1>4. QED
  BY <1>2, <1>3 DEF FalseRows, FalseSorted

LEMMA PassedTrue ==
  ASSUME TypeOK, Sorted, inTrue' = Beyond(inTrue, idx), UNCHANGED source
  PROVE  /\ inTrue' \in Seq(0 .. Rows - 1) /\ Len(inTrue') <= Capacity /\ TrueSorted'
         /\ TrueRows' = {r \in TrueRows : idx < r}
<1>1. /\ inTrue \in Seq(0 .. Rows - 1) /\ Ascending(inTrue)
      /\ source = "where" => Once(inTrue, {})
      /\ idx \in Nat /\ 0 .. Rows - 1 \subseteq Nat
  BY Fronts DEF TypeOK, PipesTypeOK, Sorted
<1>2. /\ inTrue' \in Seq(0 .. Rows - 1) /\ Len(inTrue') <= Len(inTrue)
      /\ RowsIn(inTrue') = {r \in RowsIn(inTrue) : idx < r}
      /\ Ascending(inTrue') /\ (source = "where" => Once(inTrue', {}))
  BY <1>1, RowsOfBeyond
<1>3. /\ Len(inTrue) \in Nat /\ Len(inTrue') \in Nat /\ Len(inTrue) <= Capacity
      /\ Capacity \in Nat
  BY <1>1, <1>2, LenProperties, MatchPipesAssumption DEF TypeOK, PipesTypeOK
<1>4. QED
  BY <1>2, <1>3 DEF TrueRows, TrueSorted

-----------------------------------------------------------------------------
(* What a row that is written changes. *)

LEMMA UnmatchedOutcome ==
  ASSUME NEW r, r \notin matched
  PROVE  Outcome(r) = [row |-> r, matched |-> FALSE]
<1>1. (r \in matched) = FALSE
  OBVIOUS
<1>2. QED
  BY <1>1, Zenon DEF Outcome

LEMMA WriteRow ==
  ASSUME TypeOK, NEW r \in 0 .. Rows - 1, NEW b \in BOOLEAN,
         written' = Append(written, [row |-> r, matched |-> b])
  PROVE  /\ written' \in Seq([row : 0 .. Rows - 1, matched : BOOLEAN])
         /\ Len(written') = Len(written) + 1
         /\ 1 .. Len(written') = (1 .. Len(written)) \cup {Len(written) + 1}
         /\ Len(written) \in Nat /\ Len(written) + 1 \notin 1 .. Len(written)
         /\ \A k \in 1 .. Len(written) : written'[k] = written[k]
         /\ written'[Len(written) + 1] = [row |-> r, matched |-> b]
         /\ written'[Len(written) + 1].row = r
         /\ WrittenRows' = WrittenRows \cup {r}
<1> DEFINE e == [row |-> r, matched |-> b]
<1>1. written \in Seq([row : 0 .. Rows - 1, matched : BOOLEAN])
  BY DEF TypeOK
<1>2. e \in [row : 0 .. Rows - 1, matched : BOOLEAN] /\ e.row = r
  OBVIOUS
<1> HIDE DEF e
<1>3. written' = Append(written, e)
  BY DEF e
<1>4. /\ written' \in Seq([row : 0 .. Rows - 1, matched : BOOLEAN])
      /\ Len(written') = Len(written) + 1 /\ Len(written) \in Nat
      /\ \A k \in 1 .. Len(written) : written'[k] = written[k]
      /\ written'[Len(written) + 1] = e
  BY <1>1, <1>2, <1>3, AppendProperties, LenProperties
<1>5. 1 .. Len(written') = (1 .. Len(written)) \cup {Len(written) + 1}
  BY <1>4
<1>6. WrittenRows' = WrittenRows \cup {r}
  BY <1>2, <1>4, <1>5 DEF WrittenRows
<1>7. QED
  BY <1>2, <1>4, <1>5, <1>6 DEF e

(* A row of the table goes into the file as it should be, unless it is mixed; it is none
   of those written before, unless it is mixed or the filter races: each is written once
   still. *)
LEMMA WriteOnce ==
  ASSUME TypeOK, WrittenOnce, NEW r \in 0 .. Rows - 1, NEW b \in BOOLEAN,
         written' = Append(written, [row |-> r, matched |-> b]),
         r \in mixed \/ (r \in Expected /\ b = (r \in matched)),
         ~Racing /\ r \in WrittenRows => r \in mixed,
         UNCHANGED <<handler, threaded, matched, mixed, sent>>
  PROVE  WrittenOnce'
<1>1. Expected' = Expected /\ (Racing' <=> Racing)
  BY DEF Expected, Kept, Racing
<1>2. ASSUME NEW k \in 1 .. Len(written')
      PROVE  \/ written'[k].row \in mixed
             \/ /\ written'[k].row \in Expected
                /\ written'[k] = [row |-> written'[k].row, matched |-> written'[k].row \in matched]
  <2>1. CASE k \in 1 .. Len(written)
    <3>1. \/ written[k].row \in mixed
          \/ /\ written[k].row \in Expected
             /\ written[k] = [row |-> written[k].row, matched |-> written[k].row \in matched]
      BY <2>1 DEF WrittenOnce, Outcome
    <3>2. QED
      BY <2>1, <3>1, WriteRow
  <2>2. CASE k = Len(written) + 1
    <3>1. written'[k] = [row |-> r, matched |-> b] /\ written'[k].row = r
      BY <2>2, WriteRow
    <3>2. QED
      BY <3>1
  <2>3. QED
    BY <2>1, <2>2, WriteRow
<1>3. ASSUME ~Racing, NEW j \in 1 .. Len(written'), NEW k \in 1 .. Len(written'), j # k,
             written'[j].row = written'[k].row
      PROVE  written'[k].row \in mixed
  <2>1. CASE j \in 1 .. Len(written) /\ k \in 1 .. Len(written)
    BY <1>3, <2>1, WriteRow DEF WrittenOnce
  <2>2. CASE j = Len(written) + 1 \/ k = Len(written) + 1
    <3>1. \A i \in 1 .. Len(written) : written[i].row = r => r \in mixed
      BY <1>3 DEF WrittenRows
    <3>2. written'[k].row = r /\ (j \in 1 .. Len(written) \/ k \in 1 .. Len(written))
      BY <1>3, <2>2, WriteRow
    <3>3. QED
      BY <1>3, <3>1, <3>2, WriteRow
  <2>3. QED
    BY <2>1, <2>2, WriteRow
<1>4. QED
  BY <1>1, <1>2, <1>3 DEF WrittenOnce, Outcome

(* It does not come before those written already and passes none over: they are in order
   still. *)
LEMMA WriteInOrder ==
  ASSUME TypeOK, WrittenInOrder, NEW r \in 0 .. Rows - 1, NEW b \in BOOLEAN,
         written' = Append(written, [row |-> r, matched |-> b]),
         UNCHANGED <<handler, threaded, matched, sent>>,
         ~Racing => \A w \in WrittenRows : w <= r,
         ~(threaded /\ handler \in Filters) => \A x \in Expected : x < r => x \in WrittenRows
  PROVE  WrittenInOrder'
<1>1. Expected' = Expected /\ (Racing' <=> Racing)
  BY DEF Expected, Kept, Racing
<1>2. ASSUME ~Racing, NEW j \in 1 .. Len(written'), NEW k \in 1 .. Len(written'), j < k
      PROVE  written'[j].row <= written'[k].row
  <2>1. j \in 1 .. Len(written)
    BY <1>2, WriteRow
  <2>2. written[j].row <= r
    BY <1>2, <2>1 DEF WrittenRows
  <2>3. CASE k \in 1 .. Len(written)
    BY <1>2, <2>1, <2>3, WriteRow DEF WrittenInOrder
  <2>4. CASE k = Len(written) + 1
    BY <2>1, <2>2, <2>4, WriteRow
  <2>5. QED
    BY <2>3, <2>4, WriteRow
<1>3. ASSUME ~(threaded /\ handler \in Filters),
             NEW k \in 1 .. Len(written'), NEW x \in Expected, x < written'[k].row
      PROVE  x \in WrittenRows'
  <2>1. CASE k \in 1 .. Len(written)
    BY <1>3, <2>1, WriteRow DEF WrittenInOrder
  <2>2. CASE k = Len(written) + 1
    BY <1>3, <2>2, WriteRow
  <2>3. QED
    BY <2>1, <2>2, WriteRow
<1>4. QED
  BY <1>1, <1>2, <1>3 DEF WrittenInOrder

-----------------------------------------------------------------------------
(* It holds at the start. *)

LEMMA InitInv ==
  ASSUME Init
  PROVE  RewriteInv
<1> USE DEF Init, PipesInit
<1>1. /\ handler \in Handlers /\ source \in Producers
      /\ handler = "fql_update" => source = "where"
      /\ source = "where" => handler = "fql_update"
  BY RewriteAssumption DEF Producers, Handlers
<1>2. /\ Len(<< >>) = 0 /\ 1 .. 0 = {} /\ << >> \in Seq(0 .. Rows - 1)
      /\ << >> \in Seq([row : 0 .. Rows - 1, matched : BOOLEAN])
  OBVIOUS
<1>3. PipesTypeOK
  BY <1>1, <1>2, MatchPipesAssumption DEF PipesTypeOK
<1>4. TypeOK
  <2>1. idx \in 0 .. Rows /\ batch \in 0 .. Capacity
    BY MatchPipesAssumption
  <2>2. written \in Seq([row : 0 .. Rows - 1, matched : BOOLEAN])
    BY <1>2
  <2>3. falseSeen \in BOOLEAN /\ threaded \in BOOLEAN /\ handler \in Handlers
    OBVIOUS
  <2>4. QED
    BY <1>3, <2>1, <2>2, <2>3 DEF TypeOK
<1>5. FalseRows = {} /\ TrueRows = {} /\ WrittenRows = {} /\ Expected = {}
  BY <1>2, RowsOfEmpty DEF FalseRows, TrueRows, WrittenRows, Expected
<1>6. Sorted
  BY <1>1, <1>2, <1>5 DEF Sorted, Once, Ascending
<1>7. Called /\ Placed
  BY DEF Called, Placed, Filtering, Opening, Calls, UpdatePlace
<1>8. Merged
  BY <1>2, <1>5 DEF Merged, Calls
<1>9. Decided
  BY <1>5 DEF Decided, PassingThrough, Again
<1>10. WrittenOnce /\ WrittenInOrder /\ AllWritten
  BY <1>2 DEF WrittenOnce, WrittenInOrder, AllWritten
<1>11. Listed
  BY <1>5, <1>10 DEF Listed
<1>12. QED
  BY <1>4, <1>6, <1>7, <1>8, <1>9, <1>11 DEF RewriteInv, FilterInv

-----------------------------------------------------------------------------
(* The producer. *)

(* Only rows that were sent are written. *)
LEMMA WrittenSent ==
  ASSUME Sorted, WrittenOnce
  PROVE  WrittenRows \subseteq 0 .. sent - 1
  BY DEF Sorted, WrittenOnce, WrittenRows, Expected

(* What is written stays right when an entry more is sent, which may be one of the last
   row again. *)
LEMMA SendWritten ==
  ASSUME TypeOK, Sorted, NEW n \in Nat, sent' = n, sent <= n,
         matched \subseteq matched', mixed \subseteq mixed',
         \A r \in matched' : r \in matched \/ r \in mixed' \/ sent <= r,
         UNCHANGED <<handler, threaded, written>>, WrittenOnce, WrittenInOrder
  PROVE  WrittenOnce' /\ WrittenInOrder'
<1> USE Fronts
<1>1. WrittenRows \subseteq 0 .. sent - 1 /\ sent \in Nat
  BY WrittenSent
<1>2. \A k \in 1 .. Len(written) : written[k].row \in 0 .. sent - 1
  BY <1>1 DEF WrittenRows
<1>3. (Racing' <=> Racing) /\ WrittenRows' = WrittenRows
  BY DEF Racing, WrittenRows
<1>4. ASSUME NEW k \in 1 .. Len(written), written[k].row \notin mixed'
      PROVE  /\ written[k].row \in Expected'
             /\ written[k] = [row |-> written[k].row, matched |-> written[k].row \in matched']
  <2>1. written[k].row \in matched' <=> written[k].row \in matched
    BY <1>1, <1>2, <1>4
  <2>2. /\ written[k].row \in Expected
        /\ written[k] = [row |-> written[k].row, matched |-> written[k].row \in matched]
    BY <1>4 DEF WrittenOnce, Outcome
  <2>3. written[k].row \in 0 .. n - 1
    BY <1>1, <1>2
  <2>4. QED
    BY <2>1, <2>2, <2>3 DEF Expected, Kept
<1>5. WrittenOnce'
  BY <1>3, <1>4 DEF WrittenOnce, Outcome
<1>6. ASSUME NEW k \in 1 .. Len(written), NEW r \in Expected', r < written[k].row
      PROVE  r \in Expected
  <2>1. r \in Int /\ 0 <= r /\ Kept(r)'
    BY DEF Expected
  <2>2. r \in 0 .. sent - 1
    BY <1>1, <1>2, <1>6, <2>1
  <2>3. Kept(r)
    BY <2>1 DEF Kept
  <2>4. QED
    BY <2>2, <2>3 DEF Expected
<1>7. WrittenInOrder'
  BY <1>3, <1>6 DEF WrittenInOrder
<1>8. QED
  BY <1>5, <1>7

(* What the entry changes for the filters, whichever pipe it goes to. *)
LEMMA SendKeeps ==
  ASSUME RewriteInv, UNCHANGED <<program, pc, local, written>>,
         threaded \/ pc = "call", pc # "done", NEW r, r \in {sent - 1, sent}, sent' = r + 1,
         r \in Nat,
         \/ FalseRows' = FalseRows \cup {r} /\ TrueRows' = TrueRows /\ matched' = matched
         \/ FalseRows' = FalseRows /\ TrueRows' = TrueRows \cup {r} /\ matched' = matched \cup {r},
         mixed \subseteq mixed', r = sent - 1 /\ r \in FalseRows' \ FalseRows => r \in mixed',
         r = sent - 1 /\ r \in matched' => r \in matched \/ r \in mixed',
         Len(inFalse') >= Len(inFalse), Len(inTrue') >= Len(inTrue),
         inFalse # << >> => inFalse' # << >> /\ Head(inFalse') = Head(inFalse),
         inTrue # << >> => inTrue' # << >>,
         TypeOK', Sorted'
  PROVE  FilterInv'
<1> SUFFICES ASSUME handler \in Filters PROVE Placed' /\ Listed' /\ Decided'
  BY DEF FilterInv, program
<1> USE DEF program, local
<1>1. /\ TypeOK /\ Sorted /\ Placed /\ Listed /\ Decided
      /\ sent \in Nat /\ idx \in Nat /\ FalseRows \subseteq 0 .. sent - 1
      /\ TrueRows \subseteq 0 .. sent - 1
  BY Fronts DEF RewriteInv, FilterInv
<1>2. WrittenRows' = WrittenRows /\ WrittenRows \subseteq 0 .. sent - 1 /\ (Racing' <=> Racing)
  BY <1>1, WrittenSent DEF Listed, WrittenRows, Racing
<1>3. Placed'
  <2>1. Filtering' /\ Opening'
    BY <1>1 DEF Placed, Filtering, Opening
  <2>2. pc = "filter_batch" => batch <= Len(inFalse')
    <3>1. batch \in Nat /\ Len(inFalse) \in Nat /\ Len(inFalse') \in Nat
      BY <1>1, LenProperties DEF TypeOK, PipesTypeOK
    <3>2. QED
      BY <1>1, <3>1 DEF Placed
  <2>3. QED
    BY <1>1, <2>1, <2>2 DEF Placed
<1>4. \A w \in WrittenRows : w <= r
  BY <1>1, <1>2
<1>5. Listed'
  <2>1. FalseRows' \cap WrittenRows' \subseteq mixed'
    <3> SUFFICES ASSUME NEW x \in FalseRows', x \in WrittenRows PROVE x \in mixed'
      BY <1>2
    <3>1. CASE x \in FalseRows
      BY <1>1, <3>1 DEF Listed
    <3>2. CASE x \notin FalseRows
      <4>1. x = r /\ x \in 0 .. sent - 1
        BY <1>2, <3>2
      <4>2. r = sent - 1
        BY <1>1, <4>1
      <4>3. QED
        BY <3>2, <4>1, <4>2
    <3>3. QED
      BY <3>1, <3>2
  <2>2. ~Racing => \A w \in WrittenRows, x \in FalseRows' : w <= x
    BY <1>1, <1>4 DEF Listed
  <2>3. ~threaded => \A w \in WrittenRows, x \in TrueRows' : w <= x
    BY <1>1, <1>4 DEF Listed
  <2>4. ~threaded => Expected' \subseteq WrittenRows \cup FalseRows' \cup TrueRows'
    <3> SUFFICES ASSUME ~threaded, NEW x \in Expected', x # r
                 PROVE  x \in WrittenRows \cup FalseRows' \cup TrueRows'
      OBVIOUS
    <3>1. x \in 0 .. sent - 1 /\ Kept(x)
      BY <1>1 DEF Expected, Kept
    <3>2. QED
      BY <1>1, <3>1 DEF Listed, Expected
  <2>5. WrittenOnce' /\ WrittenInOrder'
    <3>1. PICK n \in Nat : sent' = n /\ sent <= n
      BY <1>1
    <3>2. \A x \in matched' : x \in matched \/ x \in mixed' \/ sent <= x
      BY <1>1
    <3>3. matched \subseteq matched'
      OBVIOUS
    <3>4. QED
      BY <1>1, <3>1, <3>2, <3>3, SendWritten DEF Listed
  <2>6. AllWritten'
    BY DEF AllWritten
  <2>7. QED
    BY <1>2, <2>1, <2>2, <2>3, <2>4, <2>5, <2>6 DEF Listed
<1>6. Decided'
  <2> SUFFICES ASSUME ~threaded, Decided PROVE Decided'
    BY <1>1 DEF Decided
  <2>1. pc = "call" /\ pc' = "call"
    OBVIOUS
  <2>2. state = "filtering" => \A x \in TrueRows' : idx <= x
    <3> SUFFICES ASSUME state = "filtering" PROVE \A x \in TrueRows' : idx <= x
      OBVIOUS
    <3>1. idx \in FalseRows /\ \A x \in TrueRows : idx <= x
      BY <1>1, <2>1, Fronts DEF Placed, Filtering, Decided
    <3>2. idx <= r
      BY <1>1, <3>1
    <3>3. QED
      BY <3>1, <3>2
  <2>3. PassingThrough'
    <3> SUFFICES ASSUME state = "passthrough" PROVE PassingThrough'
      BY DEF PassingThrough
    <3>1. /\ idx \in 0 .. sent - 1 /\ (Kept(idx) => idx \in WrittenRows)
          /\ \A x \in FalseRows \cup TrueRows : idx <= x
      BY DEF Decided, PassingThrough
    <3>2. Kept(idx)' => Kept(idx)
      BY DEF Kept
    <3>3. idx \in 0 .. sent' - 1 /\ idx <= r
      BY <1>1, <3>1
    <3>4. \A x \in FalseRows' \cup TrueRows' : idx <= x
      BY <3>1, <3>3
    <3>5. QED
      BY <1>2, <2>1, <3>1, <3>2, <3>3, <3>4 DEF PassingThrough
  <2>4. Again'
    <3> SUFFICES ASSUME NEW x \in (matched' \cap WrittenRows) \ mixed',
                        x \in TrueRows' \/ x = sent' - 1
                 PROVE  state = "passthrough" /\ idx = x
      BY <1>2 DEF Again
    <3>1. x \in 0 .. sent - 1
      BY <1>2
    <3>2. x \in matched \cap WrittenRows /\ x \notin mixed
      BY <1>1, <3>1
    <3>3. x \in TrueRows \/ x = sent - 1
      BY <1>1, <3>1
    <3>4. QED
      BY <3>2, <3>3 DEF Decided, Again
  <2>5. QED
    BY <2>1, <2>2, <2>3, <2>4 DEF Decided
<1>7. QED
  BY <1>3, <1>5, <1>6

LEMMA SendFalseKeeps ==
  ASSUME RewriteInv, Upstream, NEW r \in {sent - 1, sent}, SendFalse(r), sent' = r + 1,
         openFalse, openTrue, Room, entries' = IF r = sent THEN 1 ELSE entries + 1,
         UNCHANGED <<source, openFalse, openTrue>>
  PROVE  RewriteInv'
<1>1. /\ UNCHANGED <<program, pc, local, written, inTrue, matched>>
      /\ threaded \/ pc \in {"call", "done"}
      /\ mixed' = IF r = sent THEN mixed ELSE mixed \cup {r}
      /\ inFalse' = Append(inFalse, r)
  BY DEF Upstream, SendFalse
<1> USE DEF program, local
<1>2. TypeOK /\ Sorted /\ Called /\ Merged
  BY DEF RewriteInv
<1>3. /\ r \in 0 .. Rows - 1 /\ r \in Nat
      /\ \/ r = sent /\ sent' = sent + 1
         \/ r = sent - 1 /\ sent' = sent /\ source # "where" /\ entries < MaxEntries
  <2>1. sent \in 0 .. Rows /\ Rows \in Nat
    BY <1>2, Fronts
  <2>2. CASE r = sent /\ r < Rows
    BY <2>1, <2>2
  <2>3. CASE /\ r = sent - 1 /\ sent > 0 /\ entries < MaxEntries
             /\ AnotherMatch(r, FALSE) \/ AnotherRecord
    BY <2>1, <2>3 DEF AnotherMatch, AnotherRecord
  <2>4. QED
    BY <2>2, <2>3 DEF SendFalse, NextEntry
<1>4. /\ sent \in Nat /\ FalseRows \subseteq 0 .. sent - 1 /\ inFalse \in Seq(Nat)
      /\ mixed \subseteq 0 .. sent - 1
  BY <1>2, Fronts DEF Sorted
<1>5. /\ FalseRows' = FalseRows \cup {r} /\ TrueRows' = TrueRows /\ WrittenRows' = WrittenRows
      /\ Ascending(inFalse') /\ Once(inFalse', mixed')
  <2>1. \A e \in RowsIn(inFalse) : e <= r
    BY <1>3, <1>4 DEF FalseRows
  <2>2. \A e \in RowsIn(inFalse) : e # r \/ e \in mixed'
    BY <1>1, <1>3, <1>4 DEF FalseRows
  <2>3. Ascending(inFalse) /\ Once(inFalse, mixed')
    BY <1>1, <1>2 DEF Sorted, Once
  <2>4. /\ RowsIn(inFalse') = RowsIn(inFalse) \cup {r}
        /\ Ascending(inFalse') /\ Once(inFalse', mixed')
    BY <1>1, <1>3, <1>4, <2>1, <2>2, <2>3, RowsOfAppend
  <2>5. QED
    BY <1>1, <2>4 DEF FalseRows, TrueRows, WrittenRows
<1>6. /\ inFalse' \in Seq(0 .. Rows - 1) /\ Len(inFalse') = Len(inFalse) + 1 /\ inFalse' # << >>
      /\ Len(inFalse) \in Nat /\ Len(inTrue) \in Nat /\ batch \in Nat
      /\ inFalse # << >> => Head(inFalse') = Head(inFalse)
  <2>1. r \in 0 .. Rows - 1 /\ inFalse \in Seq(0 .. Rows - 1) /\ inTrue \in Seq(0 .. Rows - 1)
    BY <1>2, <1>3, Fronts DEF TypeOK, PipesTypeOK
  <2>2. QED
    BY <1>1, <1>2, <2>1, AppendProperties, HeadTailAppend, LenProperties DEF TypeOK
<1>7. mixed' \subseteq 0 .. sent' - 1 /\ mixed' \subseteq 0 .. Rows - 1 /\ mixed \subseteq mixed'
  BY <1>1, <1>2, <1>3, <1>4 DEF TypeOK, PipesTypeOK
<1>8. TypeOK'
  <2>1. entries' \in 0 .. MaxEntries /\ sent' \in 0 .. Rows
    BY <1>2, <1>3, MatchPipesAssumption DEF TypeOK, PipesTypeOK
  <2>2. Len(inFalse') <= Capacity
    BY <1>6, MatchPipesAssumption DEF Room
  <2>3. QED
    BY <1>1, <1>2, <1>6, <1>7, <2>1, <2>2 DEF TypeOK, PipesTypeOK
<1>9. Sorted'
  <2>1. FalseRows' \cap matched' \subseteq mixed'
    BY <1>1, <1>2, <1>3, <1>4, <1>5 DEF Sorted
  <2>2. FalseRows' \subseteq 0 .. sent' - 1 /\ matched' \subseteq 0 .. sent' - 1
    BY <1>1, <1>2, <1>3, <1>4, <1>5 DEF Sorted
  <2>3. source = "where" => mixed' = {}
    BY <1>1, <1>2, <1>3 DEF Sorted
  <2>4. QED
    BY <1>1, <1>2, <1>5, <1>7, <2>1, <2>2, <2>3 DEF Sorted
<1>10. Called'
  BY <1>1, <1>2 DEF Called
<1>11. pc # "done" /\ pc' # "done"
  BY <1>1, <1>2 DEF Called
<1>12. Merged'
  <2> SUFFICES ASSUME handler = "fql_update" PROVE Merged'
    BY <1>1 DEF Merged
  <2>1. r = sent /\ sent' = sent + 1
    BY <1>2, <1>3 DEF Sorted
  <2>2. FalseRows' \cup TrueRows' = idx' .. sent' - 1
    BY <1>1, <1>2, <1>5, <1>11, <2>1, Fronts DEF Merged
  <2>3. \A k \in 1 .. idx : written[k] = [row |-> k - 1, matched |-> k - 1 \in matched]
    BY <1>2 DEF Merged, Outcome
  <2>4. /\ pc = "merge_false" => batch <= Len(inFalse')
        /\ pc = "merge_true" => batch <= Len(inTrue')
    BY <1>1, <1>2, <1>6 DEF Merged
  <2>5. idx <= sent'
    BY <1>2, <2>1 DEF Merged, TypeOK
  <2>6. QED
    BY <1>1, <1>2, <1>11, <2>2, <2>3, <2>4, <2>5 DEF Merged, Outcome
<1>13. FilterInv'
  <2>1. r = sent - 1 => r \in mixed'
    BY <1>1, <1>4
  <2>2. threaded \/ pc = "call"
    BY <1>1, <1>11
  <2>3. Len(inFalse') >= Len(inFalse) /\ Len(inTrue') >= Len(inTrue)
    BY <1>1, <1>6
  <2>4. QED
    BY <1>1, <1>3, <1>5, <1>6, <1>7, <1>8, <1>9, <1>11, <2>1, <2>2, <2>3, SendKeeps
<1>14. QED
  BY <1>8, <1>9, <1>10, <1>12, <1>13 DEF RewriteInv

LEMMA SendTrueKeeps ==
  ASSUME RewriteInv, Upstream, NEW r \in {sent - 1, sent}, SendTrue(r), sent' = r + 1,
         openFalse, openTrue, Room, entries' = IF r = sent THEN 1 ELSE entries + 1,
         UNCHANGED <<source, openFalse, openTrue>>
  PROVE  RewriteInv'
<1>1. /\ UNCHANGED <<program, pc, local, written, inFalse>>
      /\ threaded \/ pc \in {"call", "done"}
      /\ matched' = matched \cup {r}
      /\ mixed' = IF r = sent \/ r \in matched THEN mixed ELSE mixed \cup {r}
      /\ inTrue' = Append(inTrue, r)
  BY DEF Upstream, SendTrue
<1> USE DEF program, local
<1>2. TypeOK /\ Sorted /\ Called /\ Merged
  BY DEF RewriteInv
<1>3. /\ r \in 0 .. Rows - 1 /\ r \in Nat
      /\ \/ r = sent /\ sent' = sent + 1
         \/ r = sent - 1 /\ sent' = sent /\ source # "where" /\ entries < MaxEntries
  <2>1. sent \in 0 .. Rows /\ Rows \in Nat
    BY <1>2, Fronts
  <2>2. CASE r = sent /\ r < Rows
    BY <2>1, <2>2
  <2>3. CASE /\ r = sent - 1 /\ sent > 0 /\ entries < MaxEntries
             /\ AnotherMatch(r, TRUE) \/ AnotherRecord
    BY <2>1, <2>3 DEF AnotherMatch, AnotherRecord
  <2>4. QED
    BY <2>2, <2>3 DEF SendTrue, NextEntry
<1>4. /\ sent \in Nat /\ FalseRows \subseteq 0 .. sent - 1 /\ inTrue \in Seq(Nat)
      /\ TrueRows \subseteq 0 .. sent - 1
      /\ mixed \subseteq 0 .. sent - 1 /\ matched \subseteq 0 .. sent - 1
  BY <1>2, Fronts DEF Sorted
<1>5. /\ TrueRows' = TrueRows \cup {r} /\ FalseRows' = FalseRows /\ WrittenRows' = WrittenRows
      /\ Ascending(inTrue') /\ (source = "where" => Once(inTrue', {}))
  <2>1. \A e \in RowsIn(inTrue) : e <= r /\ (source = "where" => e # r)
    BY <1>3, <1>4 DEF TrueRows
  <2>2. Ascending(inTrue) /\ (source = "where" => Once(inTrue, {}))
    BY <1>2 DEF Sorted
  <2>3. RowsIn(inTrue') = RowsIn(inTrue) \cup {r} /\ Ascending(inTrue')
    BY <1>1, <1>3, <1>4, <2>1, <2>2, RowsOfAppend
  <2>4. source = "where" => Once(inTrue', {})
    BY <1>1, <1>3, <1>4, <2>1, <2>2, RowsOfAppend
  <2>5. QED
    BY <1>1, <2>3, <2>4 DEF FalseRows, TrueRows, WrittenRows
<1>6. /\ inTrue' \in Seq(0 .. Rows - 1) /\ Len(inTrue') = Len(inTrue) + 1 /\ inTrue' # << >>
      /\ Len(inFalse) \in Nat /\ Len(inTrue) \in Nat /\ batch \in Nat
  <2>1. inFalse \in Seq(0 .. Rows - 1) /\ inTrue \in Seq(0 .. Rows - 1)
    BY <1>2 DEF TypeOK, PipesTypeOK
  <2>2. QED
    BY <1>1, <1>2, <1>3, <2>1, AppendProperties, LenProperties DEF TypeOK
<1>7. /\ mixed' \subseteq 0 .. sent' - 1 /\ mixed' \subseteq 0 .. Rows - 1 /\ mixed \subseteq mixed'
      /\ matched' \subseteq 0 .. sent' - 1 /\ matched' \subseteq 0 .. Rows - 1
  BY <1>1, <1>2, <1>3, <1>4 DEF TypeOK, PipesTypeOK
<1>8. TypeOK'
  <2>1. entries' \in 0 .. MaxEntries /\ sent' \in 0 .. Rows
    BY <1>2, <1>3, MatchPipesAssumption DEF TypeOK, PipesTypeOK
  <2>2. Len(inTrue') <= Capacity
    BY <1>6, MatchPipesAssumption DEF Room
  <2>3. QED
    BY <1>1, <1>2, <1>6, <1>7, <2>1, <2>2 DEF TypeOK, PipesTypeOK
<1>9. r = sent - 1 => r \in matched \/ r \in mixed'
  BY <1>1, <1>4
<1>10. Sorted'
  <2>1. FalseRows' \cap matched' \subseteq mixed'
    <3>1. FalseRows \cap matched \subseteq mixed /\ (r = sent => r \notin FalseRows)
      BY <1>2, <1>4 DEF Sorted
    <3>2. r \in matched /\ r \in FalseRows' => r \in mixed'
      BY <1>5, <1>7, <3>1
    <3>3. QED
      BY <1>1, <1>3, <1>5, <1>7, <1>9, <3>1, <3>2
  <2>2. TrueRows' \subseteq matched' /\ FalseRows' \subseteq 0 .. sent' - 1
    BY <1>1, <1>2, <1>3, <1>4, <1>5 DEF Sorted
  <2>3. source = "where" => mixed' = {}
    BY <1>1, <1>2, <1>3 DEF Sorted
  <2>4. Ascending(inFalse') /\ Once(inFalse', mixed')
    BY <1>1, <1>2, <1>7 DEF Sorted, Once
  <2>5. QED
    BY <1>1, <1>2, <1>5, <1>7, <2>1, <2>2, <2>3, <2>4 DEF Sorted
<1>11. Called'
  BY <1>1, <1>2 DEF Called
<1>12. pc # "done" /\ pc' # "done"
  BY <1>1, <1>2 DEF Called
<1>13. Merged'
  <2> SUFFICES ASSUME handler = "fql_update" PROVE Merged'
    BY <1>1 DEF Merged
  <2>1. r = sent /\ sent' = sent + 1
    BY <1>2, <1>3 DEF Sorted
  <2>2. FalseRows' \cup TrueRows' = idx' .. sent' - 1
    BY <1>1, <1>2, <1>5, <1>12, <2>1, Fronts DEF Merged
  <2>3. \A k \in 1 .. idx : written[k] = [row |-> k - 1, matched |-> k - 1 \in matched']
    <3> SUFFICES ASSUME NEW k \in 1 .. idx
                 PROVE  written[k] = [row |-> k - 1, matched |-> k - 1 \in matched']
      OBVIOUS
    <3>1. written[k] = [row |-> k - 1, matched |-> k - 1 \in matched]
      BY <1>2 DEF Merged, Outcome
    <3>2. k - 1 # r
      BY <1>2, <2>1, Fronts DEF Merged
    <3>3. k - 1 \in matched' <=> k - 1 \in matched
      BY <1>1, <3>2
    <3>4. QED
      BY <3>1, <3>3
  <2>4. /\ pc = "merge_false" => batch <= Len(inFalse')
        /\ pc = "merge_true" => batch <= Len(inTrue')
    BY <1>1, <1>2, <1>6 DEF Merged
  <2>5. idx <= sent'
    BY <1>2, <2>1 DEF Merged, TypeOK
  <2>6. QED
    BY <1>1, <1>2, <1>12, <2>2, <2>3, <2>4, <2>5 DEF Merged, Outcome
<1>14. FilterInv'
  <2>1. threaded \/ pc = "call"
    BY <1>1, <1>12
  <2>2. Len(inFalse') >= Len(inFalse) /\ Len(inTrue') >= Len(inTrue)
    BY <1>1, <1>6
  <2>3. inFalse # << >> => inFalse' # << >> /\ Head(inFalse') = Head(inFalse)
    BY <1>1
  <2>4. r \notin FalseRows' \ FalseRows
    BY <1>5
  <2>5. QED
    BY <1>1, <1>3, <1>5, <1>6, <1>7, <1>8, <1>9, <1>10, <1>12, <2>1, <2>2, <2>3, <2>4,
       SendKeeps
<1>15. QED
  BY <1>8, <1>10, <1>11, <1>13, <1>14 DEF RewriteInv

LEMMA CloseKeeps ==
  ASSUME RewriteInv, Close, UNCHANGED <<program, pc, local, written>>
  PROVE  RewriteInv'
<1> USE DEF Close, program, producer, local
<1>1. TypeOK /\ Sorted /\ Called /\ Merged /\ FilterInv
  BY DEF RewriteInv
<1>2. /\ UNCHANGED <<FalseRows, TrueRows, WrittenRows, Expected>>
      /\ openFalse' => openFalse
      /\ ~openTrue' => ~openFalse'
  BY DEF FalseRows, TrueRows, WrittenRows, Expected, Kept
<1>3. TypeOK'
  BY <1>1 DEF TypeOK, PipesTypeOK
<1>4. Sorted'
  BY <1>1, <1>2 DEF Sorted
<1>5. Called'
  BY <1>1, <1>2 DEF Called
<1>6. Merged'
  BY <1>1, <1>2 DEF Merged, Outcome
<1>7. FilterInv'
  <2>1. Placed => Placed'
    BY DEF Placed, Filtering, Opening
  <2>2. /\ WrittenOnce => WrittenOnce'
        /\ WrittenInOrder => WrittenInOrder'
        /\ AllWritten => AllWritten'
    BY <1>2 DEF WrittenOnce, Outcome, Racing, WrittenInOrder, AllWritten
  <2>3. Listed => Listed'
    BY <1>2, <2>2 DEF Listed, Racing
  <2>4. Decided => Decided'
    BY <1>2 DEF Decided, PassingThrough, Again, Kept
  <2>5. QED
    BY <1>1, <2>1, <2>3, <2>4 DEF FilterInv
<1>8. QED
  BY <1>3, <1>4, <1>5, <1>6, <1>7 DEF RewriteInv

LEMMA UpstreamKeeps ==
  ASSUME RewriteInv, Upstream
  PROVE  RewriteInv'
<1>1. CASE Send
  BY <1>1, SendFalseKeeps, SendTrueKeeps DEF Send
<1>2. CASE Close
  BY <1>2, CloseKeeps DEF Upstream
<1>3. QED
  BY <1>1, <1>2 DEF Upstream, Produce

-----------------------------------------------------------------------------
(* The call. *)

(* A step that reads the pipes but takes nothing from them and writes nothing. *)
LEMMA ReadKeeps ==
  ASSUME RewriteInv, UNCHANGED <<pipes, producer, program, state, idx, written>>,
         pc # "done", pc' # "done", TypeOK', Called', Merged',
         handler \in Filters => Placed' /\ Decided'
  PROVE  RewriteInv'
<1> USE DEF pipes, program, producer
<1>1. TypeOK /\ Sorted /\ FilterInv
  BY DEF RewriteInv
<1>2. UNCHANGED <<FalseRows, TrueRows, WrittenRows, Expected>>
  BY DEF FalseRows, TrueRows, WrittenRows, Expected, Kept
<1>3. Sorted'
  BY <1>1, <1>2 DEF Sorted
<1>4. Listed => Listed'
  <2>1. (WrittenOnce => WrittenOnce') /\ (WrittenInOrder => WrittenInOrder') /\ AllWritten'
    BY <1>2 DEF WrittenOnce, Outcome, Racing, WrittenInOrder, AllWritten
  <2>2. QED
    BY <1>2, <2>1 DEF Listed, Racing
<1>5. QED
  BY <1>1, <1>3, <1>4 DEF RewriteInv, FilterInv

(* Where a call goes on from when it has something to read. *)
LEMMA BeginKeeps ==
  ASSUME RewriteInv, UNCHANGED <<pipes, producer, program, local, written>>,
         pc \in {"call", "call_true"}, pc' = Begin, inFalse # << >> \/ inTrue # << >>
  PROVE  RewriteInv'
<1> USE DEF pipes, program, producer, local
<1>1. TypeOK /\ Sorted /\ Called /\ Merged /\ FilterInv
  BY DEF RewriteInv
<1>2. handler = "fql_update" \/ handler \in Filters
  BY <1>1 DEF TypeOK, Handlers
<1>3. UNCHANGED <<FalseRows, TrueRows, WrittenRows>>
  BY DEF FalseRows, TrueRows, WrittenRows
<1>4. pc' \in {"begin_false", "open", "filtering", "passthrough"} /\ pc' # "done"
  BY <1>1 DEF Begin, TypeOK
<1>5. TypeOK'
  BY <1>1, <1>4 DEF TypeOK, PipesTypeOK
<1>6. Called'
  BY <1>4 DEF Called
<1>7. Merged'
  <2>1. handler = "fql_update" => pc' = "begin_false"
    BY DEF Begin
  <2>2. QED
    BY <1>1, <1>3, <2>1 DEF Merged, Outcome, UpdatePlace
<1>8. ASSUME handler \in Filters PROVE Placed' /\ Decided'
  <2>1. Placed /\ Decided /\ pc' = state /\ handler # "fql_update" /\ pc # "done"
    BY <1>1, <1>8 DEF FilterInv, Begin, Filters
  <2>2. Placed'
    <3>1. pc' \notin UpdatePlace
      BY <1>1, <2>1 DEF TypeOK, UpdatePlace
    <3>2. Filtering' /\ Opening'
      BY <1>4, <2>1 DEF Placed, Filtering, Opening
    <3>3. QED
      BY <1>4, <2>1, <3>1, <3>2 DEF Placed
  <2>3. Decided'
    <3> SUFFICES ASSUME ~threaded, Decided PROVE Decided'
      BY <2>1 DEF Decided
    <3>1. PassingThrough'
      <4> SUFFICES ASSUME state = "passthrough" PROVE PassingThrough'
        BY DEF PassingThrough
      <4>1. PassingThrough
        BY DEF Decided
      <4>2. ASSUME idx \in matched \ mixed PROVE idx < sent - 1 \/ inTrue # << >>
        <5> SUFFICES ASSUME inTrue = << >> PROVE idx < sent - 1
          OBVIOUS
        <5>1. PICK r \in FalseRows : r \in 0 .. sent - 1 /\ idx <= r
          BY <1>1, <4>1, Fronts DEF PassingThrough
        <5>2. r # idx
          BY <1>1, <4>2, <5>1, Fronts
        <5>3. QED
          BY <1>1, <5>1, <5>2, Fronts
      <4>3. QED
        BY <1>3, <4>1, <4>2 DEF PassingThrough, Kept
    <3>2. Again'
      BY <1>3 DEF Decided, Again
    <3>3. QED
      BY <1>3, <1>4, <3>1, <3>2 DEF Decided
  <2>4. QED
    BY <2>2, <2>3
<1>9. QED
  BY <1>4, <1>5, <1>6, <1>7, <1>8, ReadKeeps

(* A call that has found nothing so far. *)
LEMMA CallOnKeeps ==
  ASSUME RewriteInv, UNCHANGED <<pipes, producer, program, local, written>>,
         pc \in Calls, pc' \in Calls, Called'
  PROVE  RewriteInv'
<1> USE DEF pipes, program, producer, local
<1>1. TypeOK /\ Merged /\ FilterInv
  BY DEF RewriteInv
<1>2. UNCHANGED <<FalseRows, TrueRows, WrittenRows>>
  BY DEF FalseRows, TrueRows, WrittenRows
<1>3. pc # "done" /\ pc' # "done"
  BY DEF Calls
<1>4. TypeOK'
  BY <1>1 DEF TypeOK, PipesTypeOK, Calls
<1>5. Merged'
  BY <1>1, <1>2 DEF Merged, Outcome, Calls
<1>6. ASSUME handler \in Filters PROVE Placed' /\ Decided'
  <2>1. Placed /\ Decided
    BY <1>1, <1>6 DEF FilterInv
  <2>2. Filtering' /\ Opening'
    BY <1>3, <2>1 DEF Placed, Filtering, Opening, Calls
  <2>3. Placed'
    BY <2>2 DEF Placed, Calls, UpdatePlace
  <2>4. PassingThrough => PassingThrough'
    BY <1>2 DEF PassingThrough, Kept, Calls
  <2>5. Again => Again'
    BY <1>2 DEF Again
  <2>6. Decided'
    BY <1>2, <2>1, <2>4, <2>5 DEF Decided, Calls
  <2>7. QED
    BY <2>3, <2>6
<1>7. QED
  BY <1>3, <1>4, <1>5, <1>6, ReadKeeps

LEMMA CallOpenFalseKeeps ==
  ASSUME RewriteInv, CallOpenFalse
  PROVE  RewriteInv'
<1> USE DEF CallOpenFalse, Goto, program, producer, local
<1>1. TypeOK /\ Sorted /\ Called /\ Merged /\ FilterInv
  BY DEF RewriteInv
<1>2. /\ ~openFalse /\ pc = "call_open_false" /\ pc' = "done" /\ sent = Rows
      /\ inFalse' = << >> /\ inTrue' = << >> /\ UNCHANGED <<openFalse, openTrue, written, sent>>
  BY <1>1 DEF Called, Sorted
<1>3. /\ FalseRows' = {} /\ TrueRows' = {} /\ WrittenRows' = WrittenRows /\ Expected' = Expected
      /\ Len(<< >>) = 0
  BY <1>2, RowsOfEmpty DEF FalseRows, TrueRows, WrittenRows, Expected, Kept
<1>4. ~threaded => FalseRows = {} /\ TrueRows = {}
  BY <1>1, <1>2, Fronts DEF Called
<1>5. TypeOK'
  <2>1. << >> \in Seq(0 .. Rows - 1) /\ 0 <= Capacity
    BY MatchPipesAssumption
  <2>2. QED
    BY <1>1, <1>2, <1>3, <2>1 DEF TypeOK, PipesTypeOK
<1>6. Sorted'
  BY <1>1, <1>2, <1>3 DEF Sorted, Once, Ascending
<1>7. Called'
  BY <1>2 DEF Called
<1>8. Merged'
  <2> SUFFICES ASSUME handler = "fql_update" PROVE Merged'
    BY DEF Merged
  <2>1. ~threaded => idx = Rows
    <3>1. ~threaded => idx .. sent - 1 = {} /\ idx <= sent
      BY <1>1, <1>2, <1>4 DEF Merged
    <3>2. QED
      BY <1>1, <1>2, <3>1, Fronts
  <2>2. QED
    BY <1>1, <1>2, <2>1 DEF Merged, Outcome
<1>9. FilterInv'
  <2> SUFFICES ASSUME handler \in Filters PROVE Placed' /\ Listed' /\ Decided'
    BY DEF FilterInv
  <2>1. Placed /\ Listed /\ Decided
    BY <1>1 DEF FilterInv
  <2>2. Placed'
    BY <1>2, <1>3, <2>1 DEF Placed, Filtering, Opening, UpdatePlace
  <2>3. WrittenOnce' /\ WrittenInOrder'
    BY <1>2, <1>3, <2>1 DEF Listed, WrittenOnce, Outcome, Racing, WrittenInOrder
  <2>4. AllWritten'
    BY <1>2, <1>3, <1>4, <2>1 DEF Listed, AllWritten
  <2>5. Listed'
    BY <1>2, <1>3, <2>3, <2>4 DEF Listed
  <2>6. PassingThrough => PassingThrough'
    BY <1>2, <1>3 DEF PassingThrough, Kept
  <2>7. Again => Again'
    BY <1>2, <1>3 DEF Again
  <2>8. Decided'
    BY <1>2, <1>3, <2>1, <2>6, <2>7 DEF Decided
  <2>9. QED
    BY <2>2, <2>5, <2>8
<1>10. QED
  BY <1>5, <1>6, <1>7, <1>8, <1>9 DEF RewriteInv

LEMMA CallKeeps ==
  ASSUME RewriteInv, Call
  PROVE  RewriteInv'
<1> USE DEF Goto, pipes, program
<1>1. Called
  BY DEF RewriteInv
<1>2. CASE CallFalse
  <2>1. CASE inFalse # << >>
    BY <1>2, <2>1, BeginKeeps DEF CallFalse
  <2>2. CASE inFalse = << >>
    <3>1. Called'
      BY <1>2, <2>2 DEF CallFalse, Called
    <3>2. QED
      BY <1>2, <2>2, <3>1, CallOnKeeps DEF CallFalse, Calls
  <2>3. QED
    BY <2>1, <2>2
<1>3. CASE CallTrue
  <2>1. CASE inTrue # << >>
    BY <1>3, <2>1, BeginKeeps DEF CallTrue
  <2>2. CASE inTrue = << >>
    <3>1. Called'
      BY <1>1, <1>3, <2>2 DEF CallTrue, Called
    <3>2. QED
      BY <1>3, <2>2, <3>1, CallOnKeeps DEF CallTrue, Calls
  <2>3. QED
    BY <2>1, <2>2
<1>4. CASE CallOpenTrue
  <2>1. Called'
    BY <1>1, <1>4 DEF CallOpenTrue, Called
  <2>2. QED
    BY <1>4, <2>1, CallOnKeeps DEF CallOpenTrue, Calls
<1>5. CASE CallOpenFalse
  BY <1>5, CallOpenFalseKeeps
<1>6. QED
  BY <1>2, <1>3, <1>4, <1>5 DEF Call

-----------------------------------------------------------------------------
(* fql_update. *)

(* It is the only one in these places, and then no filter has anything to keep. *)
LEMMA OnlyUpdate ==
  ASSUME RewriteInv, pc \in UpdatePlace
  PROVE  handler = "fql_update" /\ handler \notin Filters
  BY DEF RewriteInv, TypeOK, Handlers, Filters, FilterInv, Placed

LEMMA MergeReadKeeps ==
  ASSUME RewriteInv, BeginFalse \/ BeginTrue \/ EndFalse \/ EndTrue
  PROVE  RewriteInv'
<1> USE DEF BeginFalse, BeginTrue, EndFalse, EndTrue, Goto, pipes, program, local
<1>1. handler = "fql_update" /\ handler \notin Filters
  BY OnlyUpdate DEF UpdatePlace
<1>2. TypeOK /\ Merged
  BY DEF RewriteInv
<1>3. UNCHANGED <<FalseRows, TrueRows>>
  BY DEF FalseRows, TrueRows
<1>4. Len(inFalse) \in 0 .. Capacity /\ Len(inTrue) \in 0 .. Capacity
  BY <1>2, LenProperties, MatchPipesAssumption DEF TypeOK, PipesTypeOK
<1>5. TypeOK'
  <2>1. batch' \in 0 .. Capacity
    BY <1>2, <1>4 DEF TypeOK
  <2>2. QED
    BY <1>2, <2>1 DEF TypeOK, PipesTypeOK, producer
<1>6. Called' /\ pc # "done" /\ pc' # "done"
  BY DEF Called
<1>7. Merged'
  BY <1>1, <1>2, <1>3, <1>4 DEF Merged, Outcome, producer, Calls, UpdatePlace
<1>8. QED
  BY <1>1, <1>5, <1>6, <1>7, ReadKeeps

(* The row idx is the one in front, and goes into the file. *)
LEMMA MergeWriteKeeps ==
  ASSUME RewriteInv, pc \in UpdatePlace, pc' = pc, idx \in 0 .. sent - 1,
         written' = Append(written, Outcome(idx)), idx' = idx + 1, batch > 0, batch' = batch - 1,
         UNCHANGED <<openFalse, openTrue, producer, program, state, falseSeen>>,
         inFalse' \in Seq(0 .. Rows - 1), Len(inFalse') <= Capacity, FalseSorted',
         inTrue' \in Seq(0 .. Rows - 1), Len(inTrue') <= Capacity, TrueSorted',
         FalseRows' = FalseRows \ {idx}, TrueRows' = TrueRows \ {idx},
         pc = "merge_false" => batch' <= Len(inFalse'), pc = "merge_true" => batch' <= Len(inTrue')
  PROVE  RewriteInv'
<1> USE DEF producer, program
<1>1. handler = "fql_update" /\ handler \notin Filters /\ pc # "done"
  BY OnlyUpdate DEF UpdatePlace
<1>2. TypeOK /\ Sorted /\ Merged
  BY DEF RewriteInv
<1>3. idx \in 0 .. Rows - 1 /\ idx + 1 \in 0 .. Rows
  BY <1>2, Fronts
<1>4. batch' \in 0 .. Capacity
  BY <1>2, MatchPipesAssumption DEF TypeOK
<1>5. PICK b \in BOOLEAN : Outcome(idx) = [row |-> idx, matched |-> b]
  <2>1. (idx \in matched) \in BOOLEAN
    OBVIOUS
  <2>2. Outcome(idx) = [row |-> idx, matched |-> idx \in matched]
    BY DEF Outcome
  <2>3. QED
    BY <2>1, <2>2, Zenon
<1>6. TypeOK'
  BY <1>2, <1>3, <1>4, <1>5, WriteRow DEF TypeOK, PipesTypeOK
<1>7. Sorted'
  BY <1>2 DEF Sorted, FalseSorted, TrueSorted
<1>8. Called'
  BY DEF Called, UpdatePlace
<1>9. Merged'
  <2>1. Len(written) = idx /\ \A k \in 1 .. idx : written[k] = Outcome(k - 1)
    BY <1>1, <1>2 DEF Merged
  <2>2. /\ Len(written') = idx + 1 /\ written'[idx + 1] = Outcome(idx)
        /\ \A k \in 1 .. idx : written'[k] = written[k]
    BY <1>2, <1>3, <1>5, <2>1, WriteRow
  <2>3. \A k \in 1 .. idx' : written'[k] = Outcome(k - 1)
    <3> SUFFICES ASSUME NEW k \in 1 .. idx + 1 PROVE written'[k] = Outcome(k - 1)
      OBVIOUS
    <3>1. CASE k = idx + 1
      <4>1. k - 1 = idx
        BY <1>3, <3>1
      <4>2. QED
        BY <2>2, <3>1, <4>1
    <3>2. CASE k \in 1 .. idx
      BY <2>1, <2>2, <3>2
    <3>3. k = idx + 1 \/ k \in 1 .. idx
      BY <1>2, Fronts
    <3>4. QED
      BY <3>1, <3>2, <3>3
  <2>4. Len(written') = idx' /\ idx' <= sent'
    BY <1>2, <1>3, <2>2, Fronts
  <2>5. FalseRows' \cup TrueRows' = idx' .. sent' - 1
    <3>1. FalseRows' \cup TrueRows' = (FalseRows \cup TrueRows) \ {idx}
      OBVIOUS
    <3>2. FalseRows \cup TrueRows = idx .. sent - 1
      BY <1>1, <1>2 DEF Merged
    <3>3. (idx .. sent - 1) \ {idx} = idx + 1 .. sent - 1
      BY <1>2, <1>3, Fronts
    <3>4. QED
      BY <3>1, <3>2, <3>3
  <2>6. QED
    BY <1>1, <1>2, <2>3, <2>4, <2>5 DEF Merged, Outcome
<1>10. QED
  BY <1>1, <1>6, <1>7, <1>8, <1>9 DEF RewriteInv, FilterInv

LEMMA MergeFalseKeeps ==
  ASSUME RewriteInv, MergeFalse
  PROVE  RewriteInv'
<1> USE DEF MergeFalse, InTurn
<1>1. pc \in UpdatePlace /\ handler = "fql_update" /\ UNCHANGED <<mixed, source>>
  BY OnlyUpdate DEF UpdatePlace, producer
<1>2. TypeOK /\ Sorted /\ Merged /\ source = "where" /\ mixed = {}
  BY <1>1 DEF RewriteInv, Sorted
<1>3. /\ Len(inFalse) \in Nat /\ batch \in Nat /\ batch <= Len(inFalse) /\ inFalse # << >>
      /\ inTrue \in Seq(0 .. Rows - 1) /\ Len(inTrue) <= Capacity
  <2>1. /\ inFalse \in Seq(0 .. Rows - 1) /\ inTrue \in Seq(0 .. Rows - 1) /\ batch \in Nat
        /\ batch <= Len(inFalse) /\ Len(inTrue) <= Capacity
    BY <1>1, <1>2 DEF TypeOK, PipesTypeOK, Merged
  <2>2. Len(inFalse) \in Nat
    BY <2>1, LenProperties
  <2>3. inFalse # << >>
    BY <2>1, <2>2
  <2>4. QED
    BY <2>1, <2>2, <2>3
<1>4. Head(inFalse) = idx /\ idx \in FalseRows /\ idx \notin matched /\ idx \in 0 .. sent - 1
  <2>1. Head(inFalse) \in FalseRows /\ FalseRows \subseteq idx .. sent - 1
    BY <1>1, <1>2, <1>3, Fronts DEF Merged, UpdatePlace
  <2>2. Head(inFalse) = idx
    <3>1. Head(inFalse) \in idx .. sent - 1 /\ Head(inFalse) <= idx /\ idx \in Nat
      BY <1>2, <2>1, Fronts
    <3>2. QED
      BY <3>1
  <2>3. QED
    BY <1>2, <2>1, <2>2, Fronts
<1>5. written' = Append(written, Outcome(idx))
  BY <1>4, UnmatchedOutcome DEF WriteUnmatched
<1>6. /\ FalseRows' = FalseRows \ {idx} /\ inFalse' \in Seq(0 .. Rows - 1)
      /\ Len(inFalse') = Len(inFalse) - 1 /\ Len(inFalse') <= Capacity /\ FalseSorted'
  BY <1>1, <1>2, <1>3, <1>4, TakeFalse
<1>7. TrueRows' = TrueRows \ {idx}
  BY <1>2, <1>4, Fronts DEF TrueRows
<1>8. TrueSorted'
  BY <1>1, <1>2 DEF Sorted, TrueSorted
<1>9. batch' <= Len(inFalse')
  BY <1>3, <1>6
<1>10. QED
  BY <1>1, <1>3, <1>4, <1>5, <1>6, <1>7, <1>8, <1>9, MergeWriteKeeps

LEMMA MergeTrueKeeps ==
  ASSUME RewriteInv, MergeTrue
  PROVE  RewriteInv'
<1> USE DEF MergeTrue, InTurn
<1>1. pc \in UpdatePlace /\ handler = "fql_update" /\ UNCHANGED <<mixed, source>>
  BY OnlyUpdate DEF UpdatePlace, producer
<1>2. TypeOK /\ Sorted /\ Merged /\ source = "where" /\ mixed = {}
  BY <1>1 DEF RewriteInv, Sorted
<1>3. /\ Len(inTrue) \in Nat /\ batch \in Nat /\ batch <= Len(inTrue) /\ inTrue # << >>
      /\ inFalse \in Seq(0 .. Rows - 1) /\ Len(inFalse) <= Capacity
  <2>1. /\ inFalse \in Seq(0 .. Rows - 1) /\ inTrue \in Seq(0 .. Rows - 1) /\ batch \in Nat
        /\ batch <= Len(inTrue) /\ Len(inFalse) <= Capacity
    BY <1>1, <1>2 DEF TypeOK, PipesTypeOK, Merged
  <2>2. Len(inTrue) \in Nat
    BY <2>1, LenProperties
  <2>3. inTrue # << >>
    BY <2>1, <2>2
  <2>4. QED
    BY <2>1, <2>2, <2>3
<1>4. Head(inTrue) = idx /\ idx \in TrueRows /\ idx \in matched /\ idx \in 0 .. sent - 1
  <2>1. Head(inTrue) \in TrueRows /\ TrueRows \subseteq idx .. sent - 1
    BY <1>1, <1>2, <1>3, Fronts DEF Merged, UpdatePlace
  <2>2. Head(inTrue) = idx
    <3>1. Head(inTrue) \in idx .. sent - 1 /\ Head(inTrue) <= idx /\ idx \in Nat
      BY <1>2, <2>1, Fronts
    <3>2. QED
      BY <3>1
  <2>3. QED
    BY <1>2, <2>1, <2>2, Fronts
<1>5. written' = Append(written, Outcome(idx))
  BY <1>1, <1>4 DEF WriteMatched, Outcome
<1>6. /\ TrueRows' = TrueRows \ {idx} /\ inTrue' \in Seq(0 .. Rows - 1)
      /\ Len(inTrue') = Len(inTrue) - 1 /\ Len(inTrue') <= Capacity /\ TrueSorted'
  BY <1>1, <1>2, <1>3, <1>4, TakeTrue
<1>7. FalseRows' = FalseRows \ {idx}
  BY <1>2, <1>4, Fronts DEF FalseRows
<1>8. FalseSorted'
  BY <1>1, <1>2 DEF Sorted, FalseSorted
<1>9. batch' <= Len(inTrue')
  BY <1>3, <1>6
<1>10. QED
  BY <1>1, <1>3, <1>4, <1>5, <1>6, <1>7, <1>8, <1>9, MergeWriteKeeps

LEMMA MergeKeeps ==
  ASSUME RewriteInv, Merge
  PROVE  RewriteInv'
  BY MergeReadKeeps, MergeFalseKeeps, MergeTrueKeeps DEF Merge

-----------------------------------------------------------------------------
(* The filters. *)

(* Only a filter is in these places, in the state that goes with them. *)
LEMMA OnlyFilter ==
  ASSUME RewriteInv, pc \in FilterPlace
  PROVE  /\ handler \in Filters /\ handler # "fql_update" /\ pc # "done"
         /\ TypeOK /\ Sorted /\ Placed /\ Listed /\ Decided
         /\ pc \in {"passthrough", "pass_true"} <=> state = "passthrough"
<1>1. TypeOK /\ Sorted /\ Merged /\ FilterInv
  BY DEF RewriteInv
<1>2. handler # "fql_update" /\ pc # "done"
  BY <1>1 DEF Merged, FilterPlace, Calls, UpdatePlace
<1>3. handler \in Filters
  BY <1>1, <1>2 DEF TypeOK, Handlers
<1>4. Placed /\ Listed /\ Decided
  BY <1>1, <1>3 DEF FilterInv
<1>5. pc \in {"passthrough", "pass_true"} => state = "passthrough"
  <2>1. state \in {"open", "filtering", "passthrough"}
    BY <1>1 DEF TypeOK
  <2>2. QED
    BY <1>4, <2>1 DEF Placed, Filtering, Opening, Calls
<1>6. state = "passthrough" => pc \in {"passthrough", "pass_true"}
  BY <1>4 DEF Placed, Calls, FilterPlace
<1>7. QED
  BY <1>1, <1>2, <1>3, <1>4, <1>5, <1>6

(* What remains to be shown of a step of a filter that takes entries or writes. *)
LEMMA FilterStepKeeps ==
  ASSUME RewriteInv, pc \in FilterPlace, pc' \in FilterPlace \cup {"call"},
         UNCHANGED <<openFalse, openTrue, producer, program>>,
         FalseRows' \subseteq FalseRows, FalseSorted',
         TrueRows' \subseteq TrueRows, TrueSorted',
         TypeOK', Placed', Listed', Decided'
  PROVE  RewriteInv'
<1> USE DEF producer, program
<1>1. handler # "fql_update" /\ Sorted
  BY OnlyFilter
<1>2. Sorted'
  BY <1>1 DEF Sorted, FalseSorted, TrueSorted
<1>3. Called' /\ Merged'
  BY <1>1 DEF Called, Merged, FilterPlace
<1>4. QED
  BY <1>2, <1>3 DEF RewriteInv, FilterInv

(* The steps that only look. *)
LEMMA LookKeeps ==
  ASSUME RewriteInv,
         \/ OpenFalse
         \/ FilterTrue /\ inTrue = << >>
         \/ FilterOpen /\ openTrue
         \/ FilterBatch /\ (batch = 0 \/ Len(inFalse) < 2)
  PROVE  RewriteInv'
<1> USE DEF pipes, program, producer
<1>1. pc \in FilterPlace
  BY DEF FilterPlace, OpenFalse, Goto, FilterTrue, FilterOpen, FilterBatch
<1>2. /\ UNCHANGED <<inFalse, inTrue, openFalse, openTrue, producer, program, state, idx, written>>
      /\ \/ pc = "open" /\ pc' = "open_true" /\ falseSeen' = (inFalse # << >>) /\ batch' = batch
         \/ /\ pc = "filtering" /\ pc' = "filter_open" /\ inTrue = << >>
            /\ UNCHANGED <<falseSeen, batch>>
         \/ /\ pc = "filter_open" /\ pc' = "filter_batch" /\ batch' = Len(inFalse)
            /\ UNCHANGED falseSeen
         \/ pc = "filter_batch" /\ pc' = "call" /\ UNCHANGED <<falseSeen, batch>>
  BY DEF OpenFalse, Goto, FilterTrue, FilterOpen, FilterBatch
<1>3. /\ TypeOK /\ Placed /\ Decided /\ state # "passthrough" /\ handler # "fql_update"
      /\ state \in {"open", "filtering"} /\ idx \in Nat
  BY <1>1, <1>2, OnlyFilter, Fronts DEF TypeOK
<1>4. UNCHANGED <<FalseRows, TrueRows, WrittenRows>>
  BY <1>2 DEF FalseRows, TrueRows, WrittenRows
<1>5. Len(inFalse) \in 0 .. Capacity /\ Len(inFalse) <= Len(inFalse)
  BY <1>3, LenProperties, MatchPipesAssumption DEF TypeOK, PipesTypeOK
<1>6. batch' \in 0 .. Capacity /\ falseSeen' \in BOOLEAN
  BY <1>2, <1>3, <1>5 DEF TypeOK
<1>7. TypeOK'
  BY <1>2, <1>3, <1>6 DEF TypeOK, PipesTypeOK
<1>8. pc # "done" /\ pc' # "done" /\ pc' \notin UpdatePlace
  BY <1>2 DEF UpdatePlace
<1>9. Called' /\ Merged'
  BY <1>2, <1>3 DEF Called, Merged
<1>10. pc \in {"filtering", "filter_open"} => state = "filtering"
  BY <1>3 DEF Placed, Opening, Calls
<1>11. Placed'
  <2>1. Filtering'
    BY <1>2, <1>3 DEF Placed, Filtering, Calls
  <2>2. Opening'
    BY <1>2, <1>3, <1>10 DEF Placed, Opening, Calls
  <2>3. pc' = "filter_batch" => inFalse # << >> /\ idx <= Head(inFalse) /\ batch' <= Len(inFalse)
    BY <1>2, <1>3, <1>5, <1>10 DEF Placed, Filtering
  <2>4. QED
    BY <1>2, <1>3, <1>8, <2>1, <2>2, <2>3 DEF Placed
<1>12. Decided'
  <2> SUFFICES ASSUME ~threaded, Decided PROVE Decided'
    BY <1>2, <1>3 DEF Decided
  <2>1. PassingThrough' /\ Again'
    BY <1>2, <1>3, <1>4 DEF PassingThrough, Decided, Again
  <2>2. pc' \in {"filter_open", "filter_batch"} => inTrue = << >>
    BY <1>2 DEF Decided
  <2>3. QED
    BY <1>2, <1>4, <2>1, <2>2 DEF Decided
<1>13. QED
  BY <1>2, <1>7, <1>8, <1>9, <1>11, <1>12, ReadKeeps

(* The row in front of in_false is written as one that did not match. *)
LEMMA WriteFalseFront ==
  ASSUME RewriteInv, pc \in FilterPlace, pc' # "done", inFalse # << >>,
         ~threaded => \A r \in TrueRows : Head(inFalse) <= r,
         written' = WriteUnmatched(Head(inFalse)), inFalse' = Tail(inFalse),
         UNCHANGED <<inTrue, openFalse, openTrue, producer, program>>
  PROVE  /\ FalseRows = FalseRows' \cup {Head(inFalse)} /\ TrueRows' = TrueRows
         /\ inFalse' \in Seq(0 .. Rows - 1) /\ Len(inFalse') = Len(inFalse) - 1
         /\ Len(inFalse') <= Capacity /\ FalseSorted' /\ TrueSorted'
         /\ WrittenRows' = WrittenRows \cup {Head(inFalse)}
         /\ Head(inFalse) \in matched => Head(inFalse) \in mixed
         /\ written' \in Seq([row : 0 .. Rows - 1, matched : BOOLEAN])
         /\ Listed'
<1> DEFINE f == Head(inFalse)
<1> USE DEF producer, program
<1>1. /\ TypeOK /\ Sorted /\ handler \in Filters /\ pc # "done" /\ Listed
      /\ WrittenOnce /\ WrittenInOrder
  BY OnlyFilter DEF Listed
<1>2. /\ f \in FalseRows /\ f \in 0 .. sent - 1 /\ f \in 0 .. Rows - 1 /\ f \in Nat
      /\ \A r \in FalseRows : f <= r
      /\ f \in matched => f \in mixed
      /\ sent \in Nat /\ FalseRows \subseteq 0 .. sent - 1 /\ TrueRows \subseteq 0 .. sent - 1
  <2>1. /\ f \in FalseRows /\ \A r \in FalseRows : f <= r
        /\ sent \in Nat /\ Rows \in Nat /\ sent <= Rows
        /\ FalseRows \subseteq 0 .. sent - 1 /\ TrueRows \subseteq 0 .. sent - 1
        /\ FalseRows \cap matched \subseteq mixed
    BY <1>1, Fronts
  <2> HIDE DEF f
  <2>2. f \in 0 .. sent - 1
    BY <2>1
  <2>3. f \in 0 .. Rows - 1 /\ f \in Nat
    BY <2>1, <2>2
  <2>4. QED
    BY <2>1, <2>2, <2>3
<1>3. /\ inFalse' \in Seq(0 .. Rows - 1) /\ Len(inFalse') = Len(inFalse) - 1
      /\ Len(inFalse') <= Capacity /\ FalseSorted'
      /\ FalseRows = FalseRows' \cup {f} /\ (f \in FalseRows' => f \in mixed)
  BY <1>1, TakeFalse
<1>4. TrueRows' = TrueRows /\ TrueSorted'
  BY <1>1 DEF TrueRows, Sorted, TrueSorted
<1>5. written' = Append(written, [row |-> f, matched |-> FALSE])
  BY DEF WriteUnmatched
<1>6. ~threaded => \A r \in TrueRows : f <= r
  OBVIOUS
<1> HIDE DEF f
<1>7. /\ written' \in Seq([row : 0 .. Rows - 1, matched : BOOLEAN])
      /\ WrittenRows' = WrittenRows \cup {f}
  BY <1>1, <1>2, <1>5, WriteRow
<1>8. WrittenRows \subseteq 0 .. sent - 1 /\ Expected' = Expected /\ (Racing' <=> Racing)
  BY <1>1, WrittenSent DEF Expected, Kept, Racing
<1>9. WrittenOnce'
  <2>1. f \in mixed \/ (f \in Expected /\ FALSE = (f \in matched))
    BY <1>2 DEF Expected, Kept
  <2>2. f \in WrittenRows => f \in mixed
    BY <1>1, <1>2 DEF Listed
  <2>3. QED
    BY <1>1, <1>2, <1>5, <2>1, <2>2, WriteOnce
<1>10. ~Racing => \A w \in WrittenRows : w <= f
  BY <1>1, <1>2 DEF Listed
<1>11. WrittenInOrder'
  <2>1. ASSUME ~threaded, NEW x \in Expected, x < f PROVE x \in WrittenRows
    <3>1. x \in WrittenRows \/ x \in FalseRows \/ x \in TrueRows
      BY <1>1, <2>1 DEF Listed
    <3>2. x \in Nat /\ ~(f <= x)
      BY <1>2, <2>1 DEF Expected
    <3>3. QED
      BY <1>2, <1>6, <2>1, <3>1, <3>2
  <2>2. QED
    BY <1>1, <1>2, <1>5, <1>10, <2>1, WriteInOrder
<1>12. Listed'
  <2>1. FalseRows' \cap WrittenRows' \subseteq mixed'
    BY <1>1, <1>3, <1>7 DEF Listed
  <2>2. ~Racing => \A w \in WrittenRows', r \in FalseRows' : w <= r
    BY <1>1, <1>2, <1>3, <1>7 DEF Listed
  <2>3. ~threaded => \A w \in WrittenRows', r \in TrueRows' : w <= r
    BY <1>1, <1>4, <1>6, <1>7 DEF Listed
  <2>4. ~threaded => Expected \subseteq WrittenRows' \cup FalseRows' \cup TrueRows'
    BY <1>1, <1>3, <1>4, <1>7 DEF Listed
  <2>5. AllWritten'
    BY DEF AllWritten
  <2>6. QED
    BY <1>8, <1>9, <1>11, <2>1, <2>2, <2>3, <2>4, <2>5 DEF Listed
<1>13. QED
  BY <1>2, <1>3, <1>4, <1>7, <1>12 DEF f

(* The row in front of in_true is written as one that matched, or dropped by a DELETE. *)
LEMMA WriteTrueFront ==
  ASSUME RewriteInv, pc \in FilterPlace, pc' # "done", inTrue # << >>,
         state # "passthrough",
         ~threaded => \A r \in FalseRows : Head(inTrue) <= r,
         written' = WriteMatched(Head(inTrue)), inTrue' = Tail(inTrue),
         UNCHANGED <<inFalse, openFalse, openTrue, producer, program>>
  PROVE  /\ TrueRows = TrueRows' \cup {Head(inTrue)} /\ FalseRows' = FalseRows
         /\ inTrue' \in Seq(0 .. Rows - 1) /\ Len(inTrue') <= Capacity
         /\ FalseSorted' /\ TrueSorted'
         /\ WrittenRows' \subseteq WrittenRows \cup {Head(inTrue)}
         /\ Kept(Head(inTrue)) => Head(inTrue) \in WrittenRows'
         /\ written' \in Seq([row : 0 .. Rows - 1, matched : BOOLEAN])
         /\ Listed'
<1> DEFINE t == Head(inTrue)
<1> USE DEF producer, program
<1>1. /\ TypeOK /\ Sorted /\ handler \in Filters /\ pc # "done" /\ Listed /\ Decided
      /\ WrittenOnce /\ WrittenInOrder
  BY OnlyFilter DEF Listed
<1>2. /\ t \in TrueRows /\ t \in matched /\ t \in 0 .. sent - 1 /\ t \in 0 .. Rows - 1
      /\ t \in Nat /\ \A r \in TrueRows : t <= r
      /\ sent \in Nat /\ FalseRows \subseteq 0 .. sent - 1 /\ TrueRows \subseteq 0 .. sent - 1
      /\ FalseRows \cap matched \subseteq mixed
  <2>1. /\ t \in TrueRows /\ \A r \in TrueRows : t <= r
        /\ sent \in Nat /\ Rows \in Nat /\ sent <= Rows
        /\ FalseRows \subseteq 0 .. sent - 1 /\ TrueRows \subseteq 0 .. sent - 1
        /\ TrueRows \subseteq matched /\ FalseRows \cap matched \subseteq mixed
    BY <1>1, Fronts
  <2> HIDE DEF t
  <2>2. t \in 0 .. sent - 1 /\ t \in matched
    BY <2>1
  <2>3. t \in 0 .. Rows - 1 /\ t \in Nat
    BY <2>1, <2>2
  <2>4. QED
    BY <2>1, <2>2, <2>3
<1>3. /\ inTrue' \in Seq(0 .. Rows - 1) /\ Len(inTrue') <= Capacity /\ TrueSorted'
      /\ TrueRows = TrueRows' \cup {t}
  BY <1>1, TakeTrue
<1>4. FalseRows' = FalseRows /\ FalseSorted'
  BY <1>1 DEF FalseRows, Sorted, FalseSorted
<1>5. /\ handler = "fql_delete_filter" => written' = written
      /\ handler # "fql_delete_filter" => written' = Append(written, [row |-> t, matched |-> TRUE])
  BY DEF WriteMatched
<1>6. ~threaded => \A r \in FalseRows : t <= r
  OBVIOUS
<1> HIDE DEF t
<1>7. /\ written' \in Seq([row : 0 .. Rows - 1, matched : BOOLEAN])
      /\ handler = "fql_delete_filter" => WrittenRows' = WrittenRows
      /\ handler # "fql_delete_filter" => WrittenRows' = WrittenRows \cup {t}
  <2>1. CASE handler = "fql_delete_filter"
    BY <1>1, <1>5, <2>1 DEF WrittenRows, TypeOK
  <2>2. CASE handler # "fql_delete_filter"
    BY <1>1, <1>2, <1>5, <2>2, WriteRow
  <2>3. QED
    BY <2>1, <2>2
<1>8. Expected' = Expected /\ (Racing' <=> Racing)
  BY DEF Expected, Kept, Racing
<1>9. Kept(t) => t \in WrittenRows'
  BY <1>2, <1>7 DEF Kept
<1>10. WrittenOnce' /\ WrittenInOrder'
  <2>1. CASE handler = "fql_delete_filter"
    BY <1>1, <1>5, <1>7, <1>8, <2>1 DEF WrittenOnce, Outcome, WrittenInOrder
  <2>2. CASE handler # "fql_delete_filter"
    <3>1. handler = "fql_update_filter" /\ (~Racing => ~threaded)
      BY <1>1, <2>2 DEF Filters, Racing
    <3>2. t \in Expected /\ TRUE = (t \in matched)
      BY <1>2, <2>2 DEF Expected, Kept
    <3>3. ~Racing /\ t \in WrittenRows => t \in mixed
      BY <1>1, <1>2, <3>1 DEF Decided, Again
    <3>4. ~Racing => \A w \in WrittenRows : w <= t
      BY <1>1, <1>2, <3>1 DEF Listed
    <3>5. ASSUME ~threaded, NEW x \in Expected, x < t PROVE x \in WrittenRows
      <4>1. x \in WrittenRows \/ x \in FalseRows \/ x \in TrueRows
        BY <1>1, <3>5 DEF Listed
      <4>2. x \in Nat /\ ~(t <= x)
        BY <1>2, <3>5 DEF Expected
      <4>3. QED
        BY <1>2, <1>6, <3>5, <4>1, <4>2
    <3>6. WrittenOnce'
      BY <1>1, <1>2, <1>5, <2>2, <3>2, <3>3, WriteOnce
    <3>7. WrittenInOrder'
      BY <1>1, <1>2, <1>5, <2>2, <3>4, <3>5, WriteInOrder
    <3>8. QED
      BY <3>6, <3>7
  <2>3. QED
    BY <2>1, <2>2
<1>11. Listed'
  <2>1. FalseRows' \cap WrittenRows' \subseteq mixed'
    BY <1>1, <1>2, <1>4, <1>7 DEF Listed
  <2>2. ~Racing => \A w \in WrittenRows', r \in FalseRows' : w <= r
    <3>1. ~Racing /\ handler # "fql_delete_filter" => ~threaded
      BY <1>1 DEF Filters, Racing
    <3>2. QED
      BY <1>1, <1>4, <1>6, <1>7, <3>1 DEF Listed
  <2>3. ~threaded => \A w \in WrittenRows', r \in TrueRows' : w <= r
    BY <1>1, <1>2, <1>3, <1>7 DEF Listed
  <2>4. ~threaded => Expected \subseteq WrittenRows' \cup FalseRows' \cup TrueRows'
    <3> SUFFICES ASSUME ~threaded, NEW x \in Expected, x # t
                 PROVE  x \in WrittenRows' \cup FalseRows' \cup TrueRows'
      BY <1>9 DEF Expected
    <3>1. x \in WrittenRows \cup FalseRows \cup TrueRows
      BY <1>1 DEF Listed
    <3>2. QED
      BY <1>3, <1>4, <1>7, <3>1
  <2>5. AllWritten'
    BY DEF AllWritten
  <2>6. QED
    BY <1>8, <1>10, <2>1, <2>2, <2>3, <2>4, <2>5 DEF Listed
<1>12. WrittenRows' \subseteq WrittenRows \cup {t}
  BY <1>7
<1>13. QED
  BY <1>3, <1>4, <1>7, <1>9, <1>11, <1>12 DEF t

(* A matched row comes next. *)
LEMMA OpenMatchedKeeps ==
  ASSUME RewriteInv, OpenTrue, inTrue # << >>, falseSeen => Head(inTrue) <= Head(inFalse)
  PROVE  RewriteInv'
<1> DEFINE t == Head(inTrue)
<1>1. /\ pc = "open_true" /\ pc' = "call" /\ pc \in FilterPlace /\ pc' # "done"
      /\ written' = WriteMatched(t) /\ inTrue' = Tail(inTrue) /\ idx' \in RecycledIdx(t)
      /\ state' = "passthrough"
      /\ UNCHANGED <<inFalse, openFalse, openTrue, producer, program, falseSeen, batch>>
  BY DEF OpenTrue, Goto, FilterPlace
<1>2. /\ TypeOK /\ Sorted /\ Placed /\ Decided /\ state # "passthrough"
  BY <1>1, OnlyFilter
<1>3. /\ t \in TrueRows /\ t \in matched /\ t \in 0 .. sent - 1 /\ sent \in Nat /\ Rows \in Nat
      /\ sent <= Rows /\ \A r \in TrueRows : t <= r
  BY <1>2, Fronts
<1>4. ~threaded => \A r \in FalseRows : t <= r
  <2>1. CASE falseSeen
    <3>1. inFalse # << >> /\ t <= Head(inFalse)
      BY <1>1, <1>2, <2>1 DEF Placed, Opening
    <3>2. /\ Head(inFalse) \in FalseRows /\ FalseRows \subseteq 0 .. sent - 1
          /\ \A r \in FalseRows : Head(inFalse) <= r
      BY <1>2, <3>1, Fronts
    <3> DEFINE h == Head(inFalse)
    <3>3. h \in FalseRows /\ t <= h /\ \A r \in FalseRows : h <= r
      BY <3>1, <3>2
    <3> HIDE DEF t, h
    <3>4. h \in Nat /\ t \in Nat /\ \A r \in FalseRows : r \in Nat
      BY <1>3, <3>2, <3>3
    <3>5. QED
      BY <3>3, <3>4
  <2>2. CASE ~falseSeen
    BY <1>1, <1>2, <2>2, Fronts DEF Decided
  <2>3. QED
    BY <2>1, <2>2
<1>5. /\ TrueRows = TrueRows' \cup {t} /\ FalseRows' = FalseRows
      /\ inTrue' \in Seq(0 .. Rows - 1) /\ Len(inTrue') <= Capacity
      /\ FalseSorted' /\ TrueSorted'
      /\ WrittenRows' \subseteq WrittenRows \cup {t} /\ (Kept(t) => t \in WrittenRows')
      /\ written' \in Seq([row : 0 .. Rows - 1, matched : BOOLEAN])
      /\ Listed'
  BY <1>1, <1>2, <1>4, WriteTrueFront
<1> HIDE DEF t
<1> USE DEF producer, program
<1>6. idx' \in 0 .. Rows - 1 /\ (~threaded => idx' = t)
  BY <1>1, <1>3 DEF RecycledIdx
<1>7. TypeOK'
  <2>1. idx' \in 0 .. Rows
    BY <1>3, <1>6
  <2>2. QED
    BY <1>1, <1>2, <1>5, <2>1 DEF TypeOK, PipesTypeOK
<1>8. Placed'
  BY <1>1 DEF Placed, Filtering, Opening, Calls, UpdatePlace
<1>9. Decided'
  <2> SUFFICES ASSUME ~threaded, Decided PROVE Decided'
    BY <1>1, <1>2 DEF Decided
  <2>1. Kept(idx)' => idx' \in WrittenRows'
    BY <1>1, <1>5, <1>6 DEF Kept
  <2>2. PassingThrough'
    BY <1>1, <1>3, <1>4, <1>5, <1>6, <2>1 DEF PassingThrough
  <2>3. Again'
    BY <1>1, <1>2, <1>5, <1>6 DEF Decided, Again
  <2>4. QED
    BY <1>1, <2>2, <2>3 DEF Decided
<1>10. QED
  BY <1>1, <1>5, <1>7, <1>8, <1>9, FilterStepKeeps

(* A row of in_false comes next, and may turn out to be in in_true as well. *)
LEMMA OpenUnmatchedKeeps ==
  ASSUME RewriteInv, OpenTrue, ~(inTrue # << >> /\ (falseSeen => Head(inTrue) <= Head(inFalse)))
  PROVE  RewriteInv'
<1>1. /\ pc = "open_true" /\ pc' = "call" /\ pc \in FilterPlace /\ pc' # "done"
      /\ idx' = Head(inFalse) /\ state' = "filtering"
      /\ UNCHANGED <<inFalse, inTrue, openFalse, openTrue, producer, program, falseSeen, batch,
                     written>>
  BY DEF OpenTrue, Goto, FilterPlace
<1>2. TypeOK /\ Sorted /\ Placed /\ Listed /\ Decided /\ state # "passthrough"
  BY <1>1, OnlyFilter
<1>3. inFalse # << >> /\ (inTrue = << >> \/ ~(Head(inTrue) <= Head(inFalse)))
  BY <1>1, <1>2 DEF Placed, Opening
<1>4. \A r \in TrueRows : Head(inFalse) <= r
  <2>1. CASE inTrue = << >>
    BY <1>2, <2>1, Fronts
  <2>2. CASE inTrue # << >>
    <3>1. Head(inFalse) \in Nat /\ Head(inTrue) \in Nat /\ TrueRows \subseteq Nat
      <4>1. FalseRows \subseteq Nat /\ TrueRows \subseteq Nat
        BY <1>2, Fronts
      <4>2. Head(inFalse) \in FalseRows /\ Head(inTrue) \in TrueRows
        BY <1>2, <1>3, <2>2, Fronts
      <4>3. QED
        BY <4>1, <4>2
    <3>2. \A r \in TrueRows : Head(inTrue) <= r
      BY <1>2, <2>2, Fronts
    <3>3. QED
      BY <1>3, <2>2, <3>1, <3>2
  <2>3. QED
    BY <2>1, <2>2
<1> USE DEF producer, program
<1>5. UNCHANGED <<FalseRows, TrueRows, WrittenRows, Expected>>
  BY <1>1 DEF FalseRows, TrueRows, WrittenRows, Expected, Kept
<1>6. TypeOK'
  <2>1. idx' \in 0 .. Rows
    BY <1>1, <1>2, <1>3, Fronts
  <2>2. QED
    BY <1>1, <1>2, <2>1 DEF TypeOK, PipesTypeOK
<1>7. Placed'
  BY <1>1, <1>3 DEF Placed, Filtering, Opening, Calls, UpdatePlace
<1>8. Listed'
  <2>1. WrittenOnce' /\ WrittenInOrder' /\ AllWritten'
    BY <1>1, <1>2, <1>5 DEF Listed, WrittenOnce, Outcome, Racing, WrittenInOrder, AllWritten
  <2>2. QED
    BY <1>1, <1>2, <1>5, <2>1 DEF Listed, Racing
<1>9. Decided'
  <2> SUFFICES ASSUME ~threaded, Decided PROVE Decided'
    BY <1>1, <1>2 DEF Decided
  <2>1. Again'
    BY <1>1, <1>2, <1>5 DEF Decided, Again
  <2>2. QED
    BY <1>1, <1>4, <1>5, <2>1 DEF Decided, PassingThrough
<1>10. FalseSorted' /\ TrueSorted'
  BY <1>1, <1>2 DEF Sorted, FalseSorted, TrueSorted
<1>11. QED
  BY <1>1, <1>5, <1>6, <1>7, <1>8, <1>9, <1>10, FilterStepKeeps

(* The filtered row turns out not to have matched: in_true shows a later one, or is closed. *)
LEMMA FilterWriteKeeps ==
  ASSUME RewriteInv, pc \in {"filtering", "filter_open"},
         pc' = "passthrough", state' = "passthrough",
         written' = WriteUnmatched(Head(inFalse)), inFalse' = Tail(inFalse),
         UNCHANGED <<inTrue, openFalse, openTrue, producer, program, idx, falseSeen, batch>>
  PROVE  RewriteInv'
<1> USE DEF producer, program
<1>1. /\ TypeOK /\ Sorted /\ Placed /\ Decided /\ pc \in FilterPlace
      /\ state = "filtering" /\ pc # "done"
  <2>1. pc \in FilterPlace
    BY DEF FilterPlace
  <2>2. TypeOK /\ Placed /\ state # "passthrough"
    BY <2>1, OnlyFilter
  <2>3. state = "filtering"
    BY <2>2 DEF TypeOK, Placed, Opening, Calls
  <2>4. QED
    BY <2>1, <2>3, OnlyFilter
<1>2. /\ inFalse # << >> /\ Head(inFalse) = idx /\ (~threaded => \A r \in TrueRows : idx <= r)
  BY <1>1 DEF Placed, Filtering, Decided
<1>3. /\ FalseRows = FalseRows' \cup {idx} /\ TrueRows' = TrueRows
      /\ inFalse' \in Seq(0 .. Rows - 1)
      /\ Len(inFalse') <= Capacity /\ FalseSorted' /\ TrueSorted'
      /\ WrittenRows' = WrittenRows \cup {idx}
      /\ idx \in matched => idx \in mixed
      /\ written' \in Seq([row : 0 .. Rows - 1, matched : BOOLEAN])
      /\ Listed'
  BY <1>1, <1>2, WriteFalseFront
<1>4. TypeOK'
  BY <1>1, <1>3 DEF TypeOK, PipesTypeOK
<1>5. Placed'
  BY DEF Placed, Filtering, Opening, UpdatePlace
<1>6. Decided'
  <2> SUFFICES ASSUME ~threaded, Decided PROVE Decided'
    BY <1>1 DEF Decided
  <2>1. idx \in 0 .. sent - 1 /\ \A r \in FalseRows : idx <= r
    BY <1>1, <1>2, Fronts
  <2>2. PassingThrough'
    BY <1>2, <1>3, <2>1 DEF PassingThrough
  <2>3. Again'
    BY <1>1, <1>3 DEF Decided, Again
  <2>4. QED
    BY <2>2, <2>3 DEF Decided
<1>7. QED
  BY <1>1, <1>3, <1>4, <1>5, <1>6, FilterStepKeeps DEF FilterPlace

(* It has matched as well: it is mixed, or in_true has an entry of an earlier row. *)
LEMMA FilterTakeKeeps ==
  ASSUME RewriteInv, FilterTrue, inTrue # << >>, ~(Head(inTrue) > idx)
  PROVE  RewriteInv'
<1> DEFINE t == Head(inTrue)
<1>1. /\ pc = "filtering" /\ pc' = "passthrough" /\ pc \in FilterPlace /\ pc' # "done"
      /\ state' = "passthrough" /\ written' = WriteMatched(t) /\ inTrue' = Tail(inTrue)
      /\ UNCHANGED <<inFalse, openFalse, openTrue, producer, program, idx, falseSeen, batch>>
  BY DEF FilterTrue, FilterPlace
<1>2. TypeOK /\ Sorted /\ Placed /\ Decided /\ state # "passthrough" /\ pc # "done"
  BY <1>1, OnlyFilter
<1>3. state = "filtering" /\ inFalse # << >> /\ Head(inFalse) = idx
  <2>1. state = "filtering"
    BY <1>1, <1>2 DEF TypeOK, Placed, Opening, Calls
  <2>2. QED
    BY <1>2, <2>1 DEF Placed, Filtering
<1>4. /\ t \in TrueRows /\ t \in matched /\ t \in Nat /\ \A r \in TrueRows : t <= r
      /\ idx \in FalseRows /\ idx \in 0 .. sent - 1 /\ \A r \in FalseRows : idx <= r
      /\ sent \in Nat /\ FalseRows \subseteq 0 .. sent - 1
      /\ FalseRows \cap matched \subseteq mixed
  <2>1. /\ Head(inTrue) \in TrueRows /\ \A r \in TrueRows : Head(inTrue) <= r
        /\ Head(inFalse) \in FalseRows /\ \A r \in FalseRows : Head(inFalse) <= r
    BY <1>2, <1>3, Fronts
  <2>2. /\ sent \in Nat /\ FalseRows \subseteq 0 .. sent - 1 /\ TrueRows \subseteq 0 .. sent - 1
        /\ TrueRows \subseteq matched /\ FalseRows \cap matched \subseteq mixed
    BY <1>2, Fronts
  <2> HIDE DEF t
  <2>3. t \in TrueRows /\ \A r \in TrueRows : t <= r
    BY <2>1 DEF t
  <2>4. t \in matched /\ t \in Nat
    BY <2>2, <2>3
  <2>5. idx \in FalseRows /\ \A r \in FalseRows : idx <= r
    BY <1>3, <2>1
  <2>6. idx \in 0 .. sent - 1
    BY <2>2, <2>5
  <2>7. QED
    BY <2>2, <2>3, <2>4, <2>5, <2>6
<1>5. t <= idx /\ \A r \in FalseRows : t <= r
  <2>1. t <= idx
    BY <1>4
  <2> HIDE DEF t
  <2>2. QED
    BY <1>4, <2>1
<1>6. /\ TrueRows = TrueRows' \cup {t} /\ FalseRows' = FalseRows
      /\ inTrue' \in Seq(0 .. Rows - 1) /\ Len(inTrue') <= Capacity
      /\ FalseSorted' /\ TrueSorted'
      /\ WrittenRows' \subseteq WrittenRows \cup {t} /\ (Kept(t) => t \in WrittenRows')
      /\ written' \in Seq([row : 0 .. Rows - 1, matched : BOOLEAN])
      /\ Listed'
  BY <1>1, <1>2, <1>5, WriteTrueFront
<1> HIDE DEF t
<1> USE DEF producer, program
<1>7. TypeOK'
  BY <1>1, <1>2, <1>6 DEF TypeOK, PipesTypeOK
<1>8. Placed'
  BY <1>1 DEF Placed, Filtering, Opening, UpdatePlace
<1>9. Decided'
  <2> SUFFICES ASSUME ~threaded, Decided PROVE Decided'
    BY <1>1, <1>2 DEF Decided
  <2>1. t = idx
    BY <1>3, <1>4, <1>5 DEF Decided
  <2>2. (Kept(idx)' <=> Kept(idx)) /\ idx \notin matched \ mixed
    BY <1>1, <1>4, <2>1 DEF Kept
  <2>3. PassingThrough'
    BY <1>1, <1>4, <1>6, <2>1, <2>2 DEF PassingThrough
  <2>4. Again'
    BY <1>1, <1>2, <1>6, <2>1 DEF Decided, Again
  <2>5. QED
    BY <1>1, <2>3, <2>4 DEF Decided
<1>10. QED
  BY <1>1, <1>6, <1>7, <1>8, <1>9, FilterStepKeeps DEF FilterPlace

LEMMA FilterTrueKeeps ==
  ASSUME RewriteInv, FilterTrue
  PROVE  RewriteInv'
<1>1. CASE inTrue = << >>
  BY <1>1, LookKeeps
<1>2. CASE inTrue # << >> /\ Head(inTrue) > idx
  BY <1>2, FilterWriteKeeps DEF FilterTrue
<1>3. CASE inTrue # << >> /\ ~(Head(inTrue) > idx)
  BY <1>3, FilterTakeKeeps
<1>4. QED
  BY <1>1, <1>2, <1>3

LEMMA FilterOpenKeeps ==
  ASSUME RewriteInv, FilterOpen
  PROVE  RewriteInv'
<1>1. CASE openTrue
  BY <1>1, LookKeeps
<1>2. CASE ~openTrue
  BY <1>2, FilterWriteKeeps DEF FilterOpen
<1>3. QED
  BY <1>1, <1>2

(* The look-ahead: the entry in front is followed by one of a later row, and written, or,
   its row being mixed, by another of the same, and dropped. *)
LEMMA LookAheadKeeps ==
  ASSUME RewriteInv, FilterBatch, ~(batch = 0 \/ Len(inFalse) < 2)
  PROVE  RewriteInv'
<1> USE DEF producer, program
<1>1. /\ pc = "filter_batch" /\ pc' = pc /\ pc \in FilterPlace
      /\ inFalse' = Tail(inFalse) /\ batch' = batch - 1
      /\ IF inFalse[2] > idx
         THEN written' = WriteUnmatched(Head(inFalse)) /\ state' = "open"
         ELSE UNCHANGED <<written, state>>
      /\ UNCHANGED <<inTrue, openFalse, openTrue, producer, program, idx, falseSeen>>
  BY DEF FilterBatch, FilterPlace
<1>2. /\ TypeOK /\ Sorted /\ Placed /\ Listed /\ Decided
      /\ state # "passthrough" /\ state \in {"open", "filtering"}
  BY <1>1, OnlyFilter DEF TypeOK
<1>3. /\ inFalse # << >> /\ idx <= Head(inFalse) /\ batch <= Len(inFalse)
      /\ Len(inFalse) \in Nat /\ Len(inFalse) >= 2 /\ batch \in Nat \ {0} /\ idx \in Nat
      /\ batch <= Capacity /\ Capacity \in Nat
      /\ ~threaded => inTrue = << >>
  <2>1. Len(inFalse) \in Nat
    BY <1>2, LenProperties DEF TypeOK, PipesTypeOK
  <2>2. batch \in Nat /\ idx \in Nat /\ batch <= Capacity /\ Capacity \in Nat
    BY <1>2, Fronts, MatchPipesAssumption DEF TypeOK
  <2>3. QED
    BY <1>1, <1>2, <2>1, <2>2 DEF Placed, Decided
<1>4. /\ Head(inFalse) = inFalse[1] /\ inFalse[1] \in Nat /\ inFalse[2] \in Nat
      /\ inFalse[1] <= inFalse[2]
  <2>1. inFalse \in Seq(Nat) /\ 1 \in 1 .. Len(inFalse) /\ 2 \in 1 .. Len(inFalse)
    BY <1>2, <1>3, Fronts
  <2>2. inFalse[1] <= inFalse[2]
    BY <1>2, <2>1 DEF Sorted, Ascending
  <2>3. QED
    BY <2>1, <2>2, ElementOfSeq
<1>5. /\ inFalse' \in Seq(0 .. Rows - 1) /\ Len(inFalse') = Len(inFalse) - 1
      /\ Len(inFalse') <= Capacity /\ FalseSorted'
      /\ FalseRows = FalseRows' \cup {Head(inFalse)}
  BY <1>1, <1>2, <1>3, TakeFalse
<1>6. inFalse' # << >> /\ Head(inFalse') = inFalse[2] /\ batch' <= Len(inFalse')
  <2>1. Len(inFalse') # 0 /\ batch' <= Len(inFalse')
    BY <1>1, <1>3, <1>5
  <2>2. inFalse' # << >>
    BY <2>1, EmptySeq
  <2>3. Head(inFalse') = inFalse[2]
    BY <1>1, <1>2, <1>3, <1>5, <2>2, HeadTailProperties DEF TypeOK, PipesTypeOK
  <2>4. QED
    BY <2>1, <2>2, <2>3
<1>7. idx <= Head(inFalse')
  BY <1>3, <1>4, <1>6
<1>8. TrueRows' = TrueRows /\ TrueSorted' /\ batch' \in 0 .. Capacity
  BY <1>1, <1>2, <1>3 DEF TrueRows, Sorted, TrueSorted
<1>9. CASE inFalse[2] > idx
  <2>1. written' = WriteUnmatched(Head(inFalse)) /\ state' = "open"
    BY <1>1, <1>9
  <2>2. ~threaded => TrueRows = {}
    BY <1>2, <1>3, Fronts
  <2>3. /\ WrittenRows' = WrittenRows \cup {Head(inFalse)}
        /\ Head(inFalse) \in matched => Head(inFalse) \in mixed
        /\ written' \in Seq([row : 0 .. Rows - 1, matched : BOOLEAN])
        /\ Listed'
    BY <1>1, <1>2, <1>3, <2>1, <2>2, WriteFalseFront
  <2>4. TypeOK'
    BY <1>1, <1>2, <1>5, <1>8, <2>1, <2>3 DEF TypeOK, PipesTypeOK
  <2>5. Placed'
    BY <1>1, <1>6, <1>7, <2>1 DEF Placed, Filtering, Opening, UpdatePlace
  <2>6. Decided'
    <3> SUFFICES ASSUME ~threaded, Decided PROVE Decided'
      BY <1>1, <1>2 DEF Decided
    <3>1. Again'
      BY <1>1, <1>2, <1>8, <2>3 DEF Decided, Again
    <3>2. QED
      BY <1>1, <1>3, <2>1, <3>1 DEF Decided, PassingThrough
  <2>7. QED
    BY <1>1, <1>5, <1>8, <2>3, <2>4, <2>5, <2>6, FilterStepKeeps
<1>10. CASE ~(inFalse[2] > idx)
  <2>1. UNCHANGED <<written, state>>
    BY <1>1, <1>10
  <2>2. inFalse[2] = idx /\ Head(inFalse) = idx /\ Head(inFalse') = idx
    BY <1>3, <1>4, <1>6, <1>10
  <2>3. inFalse' \in Seq(Nat)
    <3>1. 0 .. Rows - 1 \subseteq Nat
      OBVIOUS
    <3>2. QED
      BY <1>5, <3>1, SeqMonotonic
  <2>4. FalseRows' = FalseRows /\ WrittenRows' = WrittenRows
    BY <1>5, <1>6, <2>1, <2>2, <2>3, HeadIsLeast DEF FalseRows, WrittenRows
  <2>5. TypeOK'
    BY <1>1, <1>2, <1>5, <1>8, <2>1 DEF TypeOK, PipesTypeOK
  <2>6. Placed'
    <3>1. state = "filtering" => inFalse' # << >> /\ Head(inFalse') = idx
      BY <1>6, <2>2
    <3>2. QED
      BY <1>1, <1>2, <1>6, <1>7, <2>1, <3>1 DEF Placed, Filtering, Opening
  <2>7. Listed'
    <3>1. UNCHANGED Expected
      BY <1>1 DEF Expected, Kept
    <3>2. WrittenOnce' /\ WrittenInOrder' /\ AllWritten'
      BY <1>1, <1>2, <2>1, <2>4, <3>1
         DEF Listed, WrittenOnce, Outcome, Racing, WrittenInOrder, AllWritten
    <3>3. QED
      BY <1>1, <1>2, <1>8, <2>4, <3>1, <3>2 DEF Listed, Racing
  <2>8. Decided'
    <3> SUFFICES ASSUME ~threaded, Decided PROVE Decided'
      BY <1>1, <1>2 DEF Decided
    <3>1. Again'
      BY <1>1, <1>8, <2>1, <2>4 DEF Decided, Again
    <3>2. QED
      BY <1>1, <1>2, <1>8, <2>1, <3>1 DEF Decided, PassingThrough
  <2>9. QED
    BY <1>1, <1>5, <1>8, <2>5, <2>6, <2>7, <2>8, FilterStepKeeps
<1>11. QED
  BY <1>9, <1>10

LEMMA PassFalseKeeps ==
  ASSUME RewriteInv, PassFalse
  PROVE  RewriteInv'
<1> USE DEF producer, program
<1>1. /\ pc = "passthrough" /\ pc' = "pass_true" /\ pc \in FilterPlace
      /\ inFalse' = Beyond(inFalse, idx) /\ falseSeen' \in BOOLEAN
      /\ UNCHANGED <<inTrue, openFalse, openTrue, producer, program, state, idx, batch, written>>
  BY DEF PassFalse, Goto, FilterPlace
<1>2. TypeOK /\ Sorted /\ Listed /\ Decided /\ state = "passthrough" /\ pc # "done"
  BY <1>1, OnlyFilter
<1>3. /\ inFalse' \in Seq(0 .. Rows - 1) /\ Len(inFalse') <= Capacity /\ FalseSorted'
      /\ FalseRows' = {r \in FalseRows : idx < r}
  BY <1>1, <1>2, PassedFalse
<1>4. UNCHANGED <<TrueRows, WrittenRows, Expected>> /\ TrueSorted'
  BY <1>1, <1>2 DEF TrueRows, WrittenRows, Expected, Kept, Sorted, TrueSorted
<1>5. TypeOK'
  BY <1>1, <1>2, <1>3 DEF TypeOK, PipesTypeOK
<1>6. Placed'
  BY <1>1, <1>2 DEF Placed, Filtering, Opening, UpdatePlace
<1>7. Listed'
  <2>1. WrittenOnce' /\ WrittenInOrder' /\ AllWritten'
    BY <1>1, <1>2, <1>4 DEF Listed, WrittenOnce, Outcome, Racing, WrittenInOrder, AllWritten
  <2>2. ASSUME ~threaded, NEW x \in Expected PROVE x \in WrittenRows \cup FalseRows' \cup TrueRows
    <3>1. PassingThrough /\ x \in WrittenRows \cup FalseRows \cup TrueRows
      BY <1>2, <2>2 DEF Listed, Decided
    <3>2. ASSUME x \in FalseRows, ~(idx < x) PROVE x \in WrittenRows
      <4>1. x \in Nat /\ idx \in Nat /\ idx <= x
        BY <1>2, <3>1, <3>2, Fronts DEF PassingThrough
      <4>2. x = idx /\ Kept(idx)
        BY <3>2, <4>1 DEF Expected
      <4>3. QED
        BY <1>2, <3>1, <4>2 DEF PassingThrough
    <3>3. QED
      BY <1>3, <3>1, <3>2
  <2>3. QED
    BY <1>1, <1>2, <1>3, <1>4, <2>1, <2>2 DEF Listed, Racing
<1>8. Decided'
  <2> SUFFICES ASSUME ~threaded, Decided PROVE Decided'
    BY <1>1, <1>2 DEF Decided
  <2>1. PassingThrough'
    BY <1>1, <1>2, <1>3, <1>4 DEF Decided, PassingThrough, Kept
  <2>2. Again'
    BY <1>1, <1>4 DEF Decided, Again
  <2>3. QED
    BY <1>1, <1>2, <2>1, <2>2 DEF Decided
<1>9. QED
  BY <1>1, <1>3, <1>4, <1>5, <1>6, <1>7, <1>8, FilterStepKeeps DEF FilterPlace

(* The filter looks for the next row only when no more can come of this one. *)
LEMMA PassTrueKeeps ==
  ASSUME RewriteInv, PassTrue
  PROVE  RewriteInv'
<1> USE DEF producer, program
<1>1. /\ pc = "pass_true" /\ pc' = "call" /\ pc \in FilterPlace
      /\ inTrue' = Beyond(inTrue, idx)
      /\ state' \in {"open", state} /\ (inTrue # << >> /\ inTrue' = << >> => state' = state)
      /\ UNCHANGED <<inFalse, openFalse, openTrue, producer, program, idx, falseSeen, batch,
                     written>>
  BY DEF PassTrue, Goto, FilterPlace
<1>2. TypeOK /\ Sorted /\ Listed /\ Decided /\ state = "passthrough" /\ pc # "done"
  BY <1>1, OnlyFilter
<1>3. /\ inTrue' \in Seq(0 .. Rows - 1) /\ Len(inTrue') <= Capacity /\ TrueSorted'
      /\ TrueRows' = {r \in TrueRows : idx < r}
  BY <1>1, <1>2, PassedTrue
<1>4. UNCHANGED <<FalseRows, WrittenRows, Expected>> /\ FalseSorted'
  BY <1>1, <1>2 DEF FalseRows, WrittenRows, Expected, Kept, Sorted, FalseSorted
<1>5. TypeOK'
  BY <1>1, <1>2, <1>3 DEF TypeOK, PipesTypeOK
<1>6. Placed'
  BY <1>1, <1>2 DEF Placed, Filtering, Opening, Calls, UpdatePlace
<1>7. Listed'
  <2>1. WrittenOnce' /\ WrittenInOrder' /\ AllWritten'
    BY <1>1, <1>2, <1>4 DEF Listed, WrittenOnce, Outcome, Racing, WrittenInOrder, AllWritten
  <2>2. ASSUME ~threaded, NEW x \in Expected PROVE x \in WrittenRows \cup FalseRows \cup TrueRows'
    <3>1. PassingThrough /\ x \in WrittenRows \cup FalseRows \cup TrueRows
      BY <1>2, <2>2 DEF Listed, Decided
    <3>2. ASSUME x \in TrueRows, ~(idx < x) PROVE x \in WrittenRows
      <4>1. x \in Nat /\ idx \in Nat /\ idx <= x
        BY <1>2, <3>1, <3>2, Fronts DEF PassingThrough
      <4>2. x = idx /\ Kept(idx)
        BY <3>2, <4>1 DEF Expected
      <4>3. QED
        BY <1>2, <3>1, <4>2 DEF PassingThrough
    <3>3. QED
      BY <1>3, <3>1, <3>2
  <2>3. QED
    BY <1>1, <1>2, <1>3, <1>4, <2>1, <2>2 DEF Listed, Racing
<1>8. Decided'
  <2> SUFFICES ASSUME ~threaded, Decided PROVE Decided'
    BY <1>1, <1>2 DEF Decided
  <2>1. PassingThrough /\ Again
    BY DEF Decided
  <2>2. PassingThrough'
    BY <1>1, <1>2, <1>3, <1>4, <2>1 DEF PassingThrough, Kept
  <2>3. Again'
    <3> SUFFICES ASSUME NEW r \in (matched \cap WrittenRows) \ mixed,
                        r \in TrueRows' \/ r = sent - 1
                 PROVE  state' = "passthrough" /\ idx = r
      BY <1>1, <1>4 DEF Again
    <3>1. idx = r
      BY <1>3, <2>1 DEF Again
    <3>2. /\ idx \in Nat /\ sent \in Nat /\ TrueRows \subseteq 0 .. sent - 1
          /\ inTrue' = << >> <=> TrueRows' = {}
      <4>1. inTrue' \in Seq(Nat)
        <5>1. 0 .. Rows - 1 \subseteq Nat
          OBVIOUS
        <5>2. QED
          BY <1>3, <5>1, SeqMonotonic
      <4>2. inTrue' = << >> <=> TrueRows' = {}
        BY <4>1, RowsOfEmpty DEF TrueRows
      <4>3. QED
        BY <1>2, <4>2, Fronts
    <3>3. r = sent - 1
      BY <1>3, <3>1, <3>2
    <3>4. inTrue # << >>
      BY <1>1, <1>2, <2>1, <3>1, <3>2, <3>3 DEF PassingThrough
    <3>5. TrueRows' = {}
      <4> SUFFICES ASSUME NEW x \in TrueRows, idx < x PROVE FALSE
        BY <1>3
      <4>1. x \in 0 .. sent - 1 /\ idx = sent - 1
        BY <3>1, <3>2, <3>3
      <4>2. QED
        BY <3>2, <4>1
    <3>6. QED
      BY <1>1, <1>2, <3>1, <3>2, <3>4, <3>5
  <2>4. QED
    BY <1>1, <1>2, <2>2, <2>3 DEF Decided
<1>9. QED
  BY <1>1, <1>3, <1>4, <1>5, <1>6, <1>7, <1>8, FilterStepKeeps

LEMMA FilterKeeps ==
  ASSUME RewriteInv, Filter
  PROVE  RewriteInv'
<1>1. CASE OpenTrue
  BY <1>1, OpenMatchedKeeps, OpenUnmatchedKeeps
<1>2. CASE FilterBatch
  BY <1>2, LookKeeps, LookAheadKeeps
<1>3. QED
  BY <1>1, <1>2, LookKeeps, FilterTrueKeeps, FilterOpenKeeps, PassFalseKeeps, PassTrueKeeps
  DEF Filter

-----------------------------------------------------------------------------
(* So it always holds. *)

LEMMA StutterKeeps ==
  ASSUME RewriteInv, UNCHANGED vars
  PROVE  RewriteInv'
<1> USE DEF vars, pipes, producer, program, local
<1>1. UNCHANGED <<FalseRows, TrueRows, WrittenRows, Expected>>
  BY DEF FalseRows, TrueRows, WrittenRows, Expected, Kept
<1>2. TypeOK' /\ Sorted'
  BY <1>1 DEF RewriteInv, TypeOK, PipesTypeOK, Sorted
<1>3. Called' /\ Merged'
  BY <1>1 DEF RewriteInv, Called, Merged, Outcome
<1>4. Placed => Placed'
  BY DEF Placed, Filtering, Opening
<1>5. /\ WrittenOnce => WrittenOnce'
      /\ WrittenInOrder => WrittenInOrder'
      /\ AllWritten => AllWritten'
  BY <1>1 DEF WrittenOnce, Outcome, Racing, WrittenInOrder, AllWritten
<1>6. (Listed => Listed') /\ (Decided => Decided')
  BY <1>1, <1>5 DEF Listed, Racing, Decided, PassingThrough, Again, Kept
<1>7. QED
  BY <1>2, <1>3, <1>4, <1>6 DEF RewriteInv, FilterInv

(* The rows in the pipes and in the file are at every time as the invariant says. *)
THEOREM RewriteInvariant == Spec => []RewriteInv
<1>1. Init => RewriteInv
  BY InitInv
<1>2. RewriteInv /\ [Next]_vars => RewriteInv'
  BY CallKeeps, MergeKeeps, FilterKeeps, UpstreamKeeps, StutterKeeps DEF Next, Handle, Ended
<1>3. QED
  BY <1>1, <1>2, PTL DEF Spec

(* fql_update has written exactly the rows before update_idx, each as it should be, and
   has the others in front of it. *)
LEMMA MergedWrites ==
  ASSUME TypeOK, Sorted, Merged, handler = "fql_update"
  PROVE  WrittenOnce /\ WrittenInOrder /\ AllWritten /\ NextRowInFront
<1>1. /\ idx \in Nat /\ sent \in Nat /\ idx <= sent /\ Len(written) = idx
      /\ \A k \in 1 .. idx : written[k] = Outcome(k - 1) /\ written[k].row = k - 1
  BY Fronts DEF Merged, Outcome
<1>2. Expected = 0 .. sent - 1
  BY DEF Expected, Kept
<1>3. WrittenOnce
  <2>1. ASSUME NEW k \in 1 .. Len(written)
        PROVE  written[k].row \in Expected /\ written[k] = Outcome(written[k].row)
    BY <1>1, <1>2
  <2>2. ASSUME NEW j \in 1 .. Len(written), NEW k \in 1 .. Len(written), j # k
        PROVE  written[j].row # written[k].row
    BY <1>1, <2>2
  <2>3. QED
    BY <2>1, <2>2 DEF WrittenOnce
<1>4. ASSUME NEW r \in 0 .. idx - 1 PROVE r \in WrittenRows
  <2>1. r + 1 \in 1 .. idx /\ written[r + 1].row = r
    BY <1>1
  <2>2. QED
    BY <1>1, <2>1 DEF WrittenRows
<1>5. WrittenInOrder
  <2>1. ASSUME NEW j \in 1 .. Len(written), NEW k \in 1 .. Len(written), j < k
        PROVE  written[j].row <= written[k].row
    BY <1>1, <2>1
  <2>2. ASSUME NEW k \in 1 .. Len(written), NEW r \in Expected, r < written[k].row
        PROVE  r \in WrittenRows
    BY <1>1, <1>2, <1>4, <2>2
  <2>3. QED
    BY <2>1, <2>2 DEF WrittenInOrder
<1>6. AllWritten
  <2> SUFFICES ASSUME pc = "done", ~threaded PROVE sent = Rows /\ Expected \subseteq WrittenRows
    BY DEF AllWritten
  <2>1. idx = Rows /\ sent <= Rows /\ Rows \in Nat
    BY Fronts DEF Merged
  <2>2. sent = Rows
    BY <1>1, <2>1
  <2>3. QED
    BY <1>2, <1>4, <2>1, <2>2
<1>7. NextRowInFront
  <2> SUFFICES ASSUME pc # "done", idx < sent
               PROVE  \/ inFalse # << >> /\ Head(inFalse) = idx
                      \/ inTrue # << >> /\ Head(inTrue) = idx
    BY DEF NextRowInFront
  <2>1. FalseRows \cup TrueRows = idx .. sent - 1 /\ idx \in idx .. sent - 1
    BY <1>1 DEF Merged
  <2>2. CASE idx \in FalseRows
    <3>1. inFalse # << >> /\ Head(inFalse) <= idx /\ Head(inFalse) \in idx .. sent - 1
      BY <2>1, <2>2, Fronts
    <3>2. QED
      BY <1>1, <3>1
  <2>3. CASE idx \in TrueRows
    <3>1. inTrue # << >> /\ Head(inTrue) <= idx /\ Head(inTrue) \in idx .. sent - 1
      BY <2>1, <2>3, Fronts
    <3>2. QED
      BY <1>1, <3>1
  <2>4. QED
    BY <2>1, <2>2, <2>3
<1>8. QED
  BY <1>3, <1>5, <1>6, <1>7

LEMMA InvImplies ==
  ASSUME RewriteInv
  PROVE  /\ TypeOK /\ WrittenOnce /\ WrittenInOrder /\ AllWritten
         /\ EntryAtFront /\ NextRowInFront
<1>1. TypeOK /\ Sorted /\ Merged /\ FilterInv
  BY DEF RewriteInv
<1>2. CASE handler = "fql_update"
  <2>1. EntryAtFront
    BY <1>1, <1>2 DEF Merged, EntryAtFront, Calls, UpdatePlace
  <2>2. QED
    BY <1>1, <1>2, <2>1, MergedWrites
<1>3. CASE handler # "fql_update"
  <2>1. handler \in Filters
    BY <1>1, <1>3 DEF TypeOK, Handlers
  <2>2. Filtering /\ Opening /\ WrittenOnce /\ WrittenInOrder /\ AllWritten
    BY <1>1, <2>1 DEF FilterInv, Placed, Listed
  <2>3. EntryAtFront
    BY <2>2 DEF EntryAtFront, Filtering, Opening
  <2>4. QED
    BY <1>1, <1>3, <2>2, <2>3 DEF NextRowInFront
<1>4. QED
  BY <1>2, <1>3

(* No pipe ever holds more than its capacity, and every variable keeps its type. *)
THEOREM TypeCorrect == Spec => []TypeOK
  BY RewriteInvariant, InvImplies, PTL

(* A row of which one FALSE entry or only TRUE entries arrive is never written as what it
   is not, by threads neither, nor twice, unless fql_update_filter races in a thread; the
   mixed rows next to it, of a join with WHERE, change nothing in that. *)
THEOREM WritesOnce == Spec => []WrittenOnce
  BY RewriteInvariant, InvImplies, PTL

(* A row is never written before one that comes first, but by fql_update_filter in a
   thread; without threads, and by fql_update, none is passed over either. *)
THEOREM WritesInOrder == Spec => []WrittenInOrder
  BY RewriteInvariant, InvImplies, PTL

(* When the statement ends without threads, all rows have been sent and written. *)
THEOREM WritesAll == Spec => []AllWritten
  BY RewriteInvariant, InvImplies, PTL

(* A filter never follows the NULL of an empty pipe, nor loses the entry it is at, wherever
   the index read of a recycled record puts it. *)
THEOREM FrontKept == Spec => []EntryAtFront
  BY RewriteInvariant, InvImplies, PTL

(* The row fql_update is to write next is always in front of one of its pipes. *)
THEOREM NeverStarved == Spec => []NextRowInFront
  BY RewriteInvariant, InvImplies, PTL

=============================================================================
