------------------------------- MODULE Batch -------------------------------
(***************************************************************************)
(* What running the nodes of a request promises its caller (README.md,     *)
(* "Overall Status" and "Individual Status"): the instructions are carried *)
(* out in their order, each at most once and each with a code of its own;  *)
(* none is carried out after one that failed; and the overall code is that *)
(* failure, or OK only if all were carried out.  A request that is refused  *)
(* is not carried out at all.                                              *)
(***************************************************************************)
EXTENDS Naturals, Sequences

CONSTANTS Plans, Codes, OK, NoCode

VARIABLES
  plan,     \* the instructions of the request
  answered, \* the codes of the ones carried out
  overall   \* the code of the request, NoCode while it is at work

vars == <<plan, answered, overall>>

AllWell(codes) == \A i \in 1 .. Len(codes) : codes[i] = OK

Init ==
  /\ plan = <<>>
  /\ answered = <<>>
  /\ overall = OK

\* The next request of the job.
Take ==
  /\ overall # NoCode
  /\ plan' \in Plans
  /\ answered' = <<>>
  /\ overall' = NoCode

Answer(c) ==
  /\ overall = NoCode
  /\ Len(answered) < Len(plan)
  /\ AllWell(answered)
  /\ answered' = Append(answered, c)
  /\ UNCHANGED <<plan, overall>>

Finish ==
  /\ overall = NoCode
  /\ \/ AllWell(answered) /\ Len(answered) = Len(plan) /\ overall' = OK
     \/ ~ AllWell(answered) /\ overall' = answered[Len(answered)]
  /\ UNCHANGED <<plan, answered>>

\* A request that is wrong is refused as a whole.
Refuse ==
  /\ overall = NoCode
  /\ plan = <<>>
  /\ overall' \in Codes \ {OK}
  /\ UNCHANGED <<plan, answered>>

Next == Take \/ (\E c \in Codes : Answer(c)) \/ Finish \/ Refuse

Spec == Init /\ [][Next]_vars
=============================================================================
