----------------------------- MODULE MCHttpCgi -----------------------------
(* Instances of HttpCgi and SqlFetch for TLC.  An int of an operation has  *)
(* 3 bits: 8 is 0 and 9 is 1.                                              *)
EXTENDS HttpCgi

CONSTANTS a, b, small, middle, edge, large, huge, negative

MCGiven == {-1, 0, 1, 2, 3, 4, 8, 9}

Sizes == {small, middle, edge, large, huge, negative}
MCChars == {a, b} \cup Sizes
MCOutSize(value) ==
  IF value = <<>> THEN 0
  ELSE CASE value[1] = small -> 4096
         [] value[1] = middle -> 4097
         [] value[1] = edge -> 524288
         [] value[1] = large -> 1048576
         [] value[1] = huge -> 20000000
         [] value[1] = negative -> -1
         [] OTHER -> 0

MCAnswers == {0, 3, 4000, 4050, 600000, 16000000}

\* The parameters in two orders, with every size for out.
Named(size) == <<<<"db2", <<a>>>>, <<"uid", <<a, b>>>>, <<"pwd", <<>>>>, <<"ctl", <<b>>>>,
                 <<"in", <<a, b, a>>>>, <<"out", <<size>>>>>>
OutFirst == LET p == Named(small) IN <<p[6], p[5], p[4], p[1], p[3], p[2]>>
WithTag == [Named(small) EXCEPT ![5] = <<"in", <<a, "out", b>>>>]
Twice == Named(small) \o <<<<"in", <<b>>>>>>
Without == {RemoveAt(Named(small), i) : i \in 1 .. 6}
MCTexts == {Named(n) : n \in Sizes \cup {a}} \cup {OutFirst, WithTag, Twice} \cup Without

Request(method, length, mixed, list) ==
  [method |-> method, length |-> length, mixed |-> mixed, parms |-> list, escapes |-> {}]
\* A character of the request is escaped: one of uid, or the tag in a value.
Escaped(list, at) == [Request("POST", "some", FALSE, list) EXCEPT !.escapes = {at}]
InLast == LET p == Named(small) IN <<p[6], p[1], p[2], p[3], p[4], p[5]>>

MCRequests ==
  {Request("POST", "some", FALSE, l) : l \in MCTexts}
    \cup {Request("GET", "none", FALSE, l) : l \in MCTexts \cup {NoQuery}}
    \cup {Request("GET", "none", TRUE, OutFirst), Request("POST", "none", FALSE, OutFirst),
          Request("POST", "unset", FALSE, OutFirst), Request("HEAD", "none", FALSE, OutFirst),
          Request("unset", "none", FALSE, OutFirst)}
    \cup {Escaped(Named(n), 4) : n \in Sizes \cup {a}}
    \cup {Escaped(OutFirst, 4), Escaped(InLast, 6), Escaped(WithTag, 11)}

\* An SQL node's operation is run once, and not for every request.
MCInit == CgiInit \/ (NodeInit /\ request = Request("unset", "none", FALSE, OutFirst))
MCSpec == MCInit /\ [][SqlNext]_CgiVars /\ WF_CgiVars(SqlNext)
=============================================================================
