------------------------------ MODULE Document ------------------------------
(***************************************************************************)
(* A request from its text to its reply, as runService (IService.c) and    *)
(* the server's loop carry it out: NodeTree parses the text, NodeRun runs  *)
(* the nodes of the tree, and what goes back is the tree with its results, *)
(* or the messages.  The job then is given the next text.                  *)
(***************************************************************************)
EXTENDS NodeTree, NodeRun, Integers, FiniteSets

CONSTANT Sequels \* the texts that may come after the first one

ASSUME DocAssumption == Sequels \subseteq Seq(Tokens)

VARIABLES
  asked, \* how many texts have come
  sts,   \* status in runService
  reply  \* what goes back to the caller

docVars == <<treeVars, runVars, fr, asked, sts, reply>>

INSTANCE JsonGrammar

\* The runnable objects of the tree, in the order they are run.
Runs == [i \in DOMAIN Plan |-> nodes[Plan[i]].run]

DocInit ==
  /\ TreeInit
  /\ RunInit
  /\ asked = 1
  /\ sts = "NODE_INIT"
  /\ reply = "none"

\* STS_NODE_INIT: parseNode.
Parse ==
  /\ sts = "NODE_INIT"
  /\ TreeNext
  /\ sts' = CASE verdict' = "null" -> "ERROR_FR"
              [] verdict' \in {"tree", "error"} -> "NODE_RUN"
              [] OTHER -> sts
  /\ IF sts' = "NODE_RUN"
     THEN Load(IF verdict' = "tree" THEN Runs' ELSE <<>>)
     ELSE UNCHANGED runVars
  /\ UNCHANGED <<asked, reply>>

\* STS_NODE_RUN: runNode.
Run ==
  /\ sts = "NODE_RUN"
  /\ RunStep
  /\ sts' = IF status' = NoCode THEN sts ELSE "NODE_COPYOUT"
  /\ UNCHANGED <<treeVars, asked, reply>>

\* STS_NODE_COPYOUT: the tree goes back, with the results in it.
CopyOut ==
  /\ sts = "NODE_COPYOUT"
  /\ reply' = "tree"
  /\ sts' = "DONE"
  /\ UNCHANGED <<treeVars, runVars, fr, asked>>

\* STS_ERROR_FR: the messages go back.
ErrorOut ==
  /\ sts = "ERROR_FR"
  /\ reply' = IF fr.code = OK THEN "nothing" ELSE "messages"
  /\ sts' = "DONE"
  /\ UNCHANGED <<treeVars, runVars, fr, asked>>

\* The next request of the job.
NextText ==
  /\ sts = "DONE"
  /\ asked < MaxReq
  /\ asked' = asked + 1
  /\ \E t \in Sequels, b \in Beyond : text' = t \o b /\ size' = Len(t)
  /\ pos' = 1
  /\ nodes' = <<>>
  /\ stack' = <<>>
  /\ verdict' = "start"
  /\ fr' = Clean
  /\ sts' = "NODE_INIT"
  /\ reply' = "none"
  /\ UNCHANGED runVars

DocStep == Parse \/ Run \/ CopyOut \/ ErrorOut

DocNext == DocStep \/ NextText

\* One thread does it all.
DocSpec == DocInit /\ [][DocNext]_docVars /\ WF_docVars(DocStep)

-----------------------------------------------------------------------------
(* Properties *)

DocTypeOK ==
  /\ RunTypeOK
  /\ asked \in 1 .. MaxReq
  /\ text \in Seq(Tokens) /\ size \in 0 .. Len(text) /\ pos \in Nat
  /\ verdict \in {"start", "parsing", "tree", "error", "null"}
  /\ \A i \in DOMAIN nodes : nodes[i].type \in NodeTypes
  /\ \A i \in DOMAIN stack : stack[i].node \in DOMAIN nodes
  /\ sts \in {"NODE_INIT", "NODE_RUN", "NODE_COPYOUT", "ERROR_FR", "DONE"}
  /\ reply \in {"none", "tree", "messages", "nothing"}

Input == SubSeq(text, 1, size)

\* The tree is made, and nothing of it was run yet.
JustParsed == sts = "NODE_RUN" /\ verdict = "tree" /\ answers = <<>>

\* What is in memory behind the input does not look like JSON.
NothingBehind == Len(text) = size

\* A text that is a request by the grammar is not refused as one that is not.
AcceptsEveryRequest ==
  sts = "NODE_RUN" /\ verdict = "error" /\ Request(Input) => fr.code = "INIT"

\* What the parser accepts is a node by the lenient grammar, or begins with one.
AcceptsOnlyNodes ==
  JustParsed /\ NothingBehind => pos \in NodeEnds(Input, 1, TRUE)

\* The parser follows the grammar, as far as it does.
ParserFollowsGrammar == AcceptsEveryRequest /\ AcceptsOnlyNodes

\* The tree holds all of the text it was made of: its output has the tokens
\* of that text.
Toks(out) == [k \in DOMAIN out |-> out[k].tok]
HoldsTheText ==
  JustParsed /\ (NothingBehind \/ Request(Input)) => Toks(Output) = SubSeq(text, 1, pos - 1)

\* Its output differs from that text in the quotes only: a number that is the
\* value of an attribute comes back as a string.
NumbersAreStrings ==
  JustParsed /\ Request(Input) =>
    \A k \in DOMAIN Output :
      Output[k].quoted <=>
        \/ Input[k] \in Strings
        \/ Input[k] \in Numbers /\ Input[k - 1] = ":"

\* The runnable attributes of a request that are not inside another one.
IsRunnable(t, p) == t[p] \in RunnableKinds /\ p < Len(t) /\ t[p + 1] = ":"
Depth(t, p, q) ==
  Cardinality({k \in p .. q : t[k] \in {"{", "["}})
    - Cardinality({k \in p .. q : t[k] \in {"}", "]"}})
Inside(t, p, q) == p < q /\ \A k \in p + 2 .. q : Depth(t, p + 2, k) > 0
Outermost(t) ==
  {q \in DOMAIN t :
     IsRunnable(t, q) /\ \A p \in DOMAIN t : IsRunnable(t, p) => ~ Inside(t, p, q)}

\* These, all of them and in the order of the text, are what is run.
PlanIsTheText ==
  JustParsed /\ Request(Input) =>
    LET outer == Outermost(Input)
        Rank(q) == Cardinality({p \in outer : p <= q})
    IN  /\ Len(plan) = Cardinality(outer)
        /\ \A q \in outer : plan[Rank(q)].kind = text[q]

\* The tree, what is written of it and what is run of it are those of the text.
TreeIsTheText == HoldsTheText /\ NumbersAreStrings /\ PlanIsTheText

\* Every text that is sent is replied to.
EveryTextIsReplied == (sts = "NODE_INIT") ~> (sts = "DONE")
=============================================================================
