---------------------------- MODULE JsonGrammar ----------------------------
(***************************************************************************)
(* The texts that are requests: JSON as README.md's "JSON" input has it.   *)
(* A request is a node; a node is an object or an array; an array holds    *)
(* strings, numbers (the first one not negative) or nodes, not a mixture;  *)
(* attributes have names, and the value of a runnable one is an object.    *)
(*                                                                         *)
(* Of a number the program only looks at the beginning: what follows, up   *)
(* to the comma or bracket that ends an element, belongs to it, and in an  *)
(* array an element behind a comma may begin with anything.  The grammar   *)
(* is lenient if it accepts this too.                                      *)
(*                                                                         *)
(* The operators give the set of all places behind something that begins   *)
(* at place i of text t.  All recursion is in one function, which says     *)
(* where the lists that begin at a place end: "lists" stands for it.       *)
(***************************************************************************)
EXTENDS Naturals, Sequences

CONSTANTS Strings, Empty, Numbers, Minus, RunnableKinds

Is(t, i, toks) == i \in 1 .. Len(t) /\ t[i] \in toks

\* What a list may be one of.
Kinds == {"string", "number", "node", "attr"}

\* The ends of a number: the next place with one of the tokens.
Tail1(t, i, stop) ==
  {k \in i .. Len(t) : Is(t, k, stop) /\ \A l \in i .. k - 1 : ~ Is(t, l, stop)}

\* What is between the brackets, and the bracket that closes.
Closed(t, ends, bracket) == {k + 1 : k \in {k \in ends : Is(t, k, {bracket})}}

NodeFrom(t, i, lists) ==
  IF Is(t, i, {"{"})
  THEN Closed(t, {i + 1} \cup lists[<<i + 1, "attr">>], "}")
  ELSE IF Is(t, i, {"["})
  THEN Closed(t, {i + 1} \cup lists[<<i + 1, "string">>]
                 \cup (IF Is(t, i + 1, Numbers \ Minus) THEN lists[<<i + 1, "number">>]
                       ELSE {})
                 \cup lists[<<i + 1, "node">>], "]")
  ELSE {}

AttrFrom(t, i, lists, lenient) ==
  IF ~ Is(t, i, Strings \ {Empty}) \/ ~ Is(t, i + 1, {":"}) THEN {}
  ELSE IF t[i] \in RunnableKinds
  THEN IF Is(t, i + 2, {"{"}) THEN NodeFrom(t, i + 2, lists) ELSE {}
  ELSE IF Is(t, i + 2, Numbers)
  THEN IF lenient THEN Tail1(t, i + 2, {",", "}"}) ELSE {i + 3}
  ELSE IF Is(t, i + 2, Strings) THEN {i + 3} ELSE NodeFrom(t, i + 2, lists)

ElementFrom(t, i, kind, lists, lenient) ==
  CASE kind = "string" -> IF Is(t, i, Strings) THEN {i + 1} ELSE {}
    [] kind = "number" ->
         IF lenient THEN Tail1(t, i + 1, {",", "]"})
         ELSE IF Is(t, i, Numbers) THEN {i + 1} ELSE {}
    [] kind = "node" -> NodeFrom(t, i, lists)
    [] kind = "attr" -> AttrFrom(t, i, lists, lenient)

\* An element, and what may be behind it and a comma.
ListFrom(t, i, kind, lists, lenient) ==
  LET first == ElementFrom(t, i, kind, lists, lenient)
  IN  first \cup UNION {lists[<<k + 1, kind>>] : k \in {k \in i .. Len(t) : k \in first /\ t[k] = ","}}

ListEnds(t, lenient) ==
  LET lists[x \in (1 .. Len(t) + 1) \X Kinds] == ListFrom(t, x[1], x[2], lists, lenient)
  IN  lists

NodeEnds(t, i, lenient) == NodeFrom(t, i, ListEnds(t, lenient))

\* A request is strict.
Request(t) == Len(t) + 1 \in NodeEnds(t, 1, FALSE)
=============================================================================
