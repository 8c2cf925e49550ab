----------------------------- MODULE Structured -----------------------------
(***************************************************************************)
(* What a script with IF, WHILE and BEGIN ... END promises: the statement  *)
(* that runs next is the one its structure says.  The script is the list   *)
(* of its statements in the order of the text; a statement knows the       *)
(* branch it belongs to.  The promise holds for the scripts that fql can   *)
(* lay out (Supported); of any other nothing is said.                      *)
(***************************************************************************)
EXTENDS Naturals, Sequences, SequencesExt

VARIABLES
  script,  (* [kind, of: the branch around it (0: none), arm: of that      *)
           (* branch, blocks: the BEGINs between the branch and it]        *)
  phase,   (* "parse", "run", "done", "crashed"                            *)
  at,      (* the statement that is to run                                 *)
  took     (* the value of the last condition, if a condition came last    *)

Statements == DOMAIN script
End        == Len(script) + 1

IsBranch(i) == script[i].kind \in {"if", "while"}
Elseif(i)   == script[i].kind = "if" /\ script[i].arm = "else"

LeastOr(S, d) == IF S = {} THEN d ELSE CHOOSE m \in S : \A n \in S : m <= n

Arm(i, arm) == {j \in Statements : script[j].of = i /\ script[j].arm = arm}

Siblings(i) == {j \in Arm(script[i].of, script[i].arm) : j > i}

(* What comes after statement i, whatever its branches did. *)
After[i \in Statements] ==
  LET parent == script[i].of
  IN  IF Siblings(i) # {} THEN LeastOr(Siblings(i), End)
      ELSE IF parent = 0 THEN End
      ELSE IF script[parent].kind = "while" THEN parent
      ELSE After[parent]

(* The statements around j, and j. *)
Around[j \in Statements] ==
  {j} \cup IF script[j].of = 0 THEN {} ELSE Around[script[j].of]

(* The first statement of the text that is behind all of statement i. *)
BehindInText(i) == LeastOr({j \in Statements : j > i /\ i \notin Around[j]}, End)

Taken(i, cond) == IF script[i].kind = "while" THEN (IF cond THEN "body" ELSE "none")
                  ELSE IF cond THEN "then" ELSE "else"

Successor(i, cond) ==
  IF IsBranch(i) THEN LeastOr(Arm(i, Taken(i, cond)), After[i]) ELSE After[i]

(***************************************************************************)
(* The scripts that fql lays out as they are written: a branch is followed *)
(* in the text by what follows it when it runs (so it is neither last in a *)
(* loop nor last before an ELSE), an ELSE has one statement without BEGIN, *)
(* which is no loop and has no subquery, and a block is the whole of an    *)
(* arm and has a statement.                                                *)
(***************************************************************************)
LeavesForward == \A i \in Statements : IsBranch(i) /\ ~Elseif(i) => After[i] = BehindInText(i)
ElsePlain     == \A i \in Statements :
                   script[i].arm = "else" => script[i].blocks = 0 /\ script[i].kind \in {"simple", "if"}
BlocksPlain   == \A i \in Statements :
                   /\ script[i].kind # "empty"
                   /\ script[i].blocks <= IF script[i].of = 0 THEN 0 ELSE 1
Supported     == LeavesForward /\ ElsePlain /\ BlocksPlain

Init == script = << >> /\ phase = "parse" /\ at = 1 /\ took = FALSE

Read  == phase = "parse" /\ script' # << >> /\ Front(script') = script /\ UNCHANGED <<phase, at, took>>
Start == phase = "parse" /\ phase' = "run" /\ UNCHANGED <<script, at, took>>

Step ==
  /\ phase = "run"
  /\ took' \in BOOLEAN
  /\ Supported => at' = Successor(at, took')
  /\ phase' = IF at' = End THEN "done" ELSE "run"
  /\ UNCHANGED script

Crash == phase' = "crashed" /\ ~Supported' /\ UNCHANGED <<at, took>>

Next == Read \/ Start \/ Step \/ Crash

Spec == Init /\ [][Next]_<<script, phase, at, took>>
=============================================================================
