------------------------------ MODULE NodeTree ------------------------------
(***************************************************************************)
(* From the text of a request to the tree of its nodes: parseNode          *)
(* (Utility.c), JNode::parse, JAttribute::parse and the initialisation of  *)
(* runnable nodes (INode::initRunnable, Command, Shell, Qshell, JobInfo).  *)
(*                                                                         *)
(* A text is a sequence of tokens: brackets, comma, colon, quoted strings  *)
(* and numbers.  White space is left out, as are escapes in strings, the   *)
(* conversion between CCSIDs other than its failure, and the case of       *)
(* names.  The mutual recursion of the parse functions is a stack; every   *)
(* frame says which node it builds and where in its function it is.  An    *)
(* action is one turn of a loop in the code.                               *)
(*                                                                         *)
(* The input is given by an address and a size, and some checks look at    *)
(* the character behind the last one: what is in memory there matters.     *)
(***************************************************************************)
EXTENDS Naturals, SequencesExt, FlightRec

CONSTANTS
  Strings, \* the tokens that are quoted strings
  Empty,   \* the one of them that is ""
  Numbers, \* the tokens that are numbers
  Minus,   \* those of them that begin with "-"
  Nul,     \* any other character
  Texts,   \* the texts that may come
  Beyond   \* what may be in memory behind them

Punctuation == {"{", "}", "[", "]", ",", ":"}
Tokens == Punctuation \cup Strings \cup Numbers

ASSUME TreeAssumption ==
  /\ Strings \cap Numbers = {} /\ Punctuation \cap (Strings \cup Numbers) = {}
  /\ Empty \in Strings /\ Minus \subseteq Numbers
  /\ Nul \notin Tokens
  /\ Texts \subseteq Seq(Tokens) /\ Beyond \subseteq Seq(Tokens)

VARIABLES
  text,    \* the input, and what is in memory behind it
  size,    \* the length of the input
  pos,     \* pWhere
  nodes,   \* the nodes made so far: 1 is the root
  stack,   \* the calls of JNode::parse that are active
  verdict  \* what parseNode returns

treeVars == <<text, size, pos, nodes, stack, verdict>>

-----------------------------------------------------------------------------
(* Nodes and their attributes *)

RunnableKinds == {"CMD", "SH", "QSH", "PGM", "SQL", "JOBINFO"}
NodeTypes == {"NORMAL", "CONTAINER"} \cup RunnableKinds

\* getNodeType: the name of an attribute decides on the type of its node.
getNodeType(name) == IF name \in RunnableKinds THEN name ELSE "NORMAL"

\* run is the initialised runnable object, NoRun if there is none.
NoRun == [kind |-> "none", exec |-> "none", error |-> "none"]

NewNode(type) ==
  [type |-> type, attrs |-> <<>>, kids |-> <<>>, raw |-> <<>>, run |-> NoRun]

Frame(n) == [node |-> n, at |-> "value"]

\* The values of the attributes with the name, first come first.
Values(n, name) ==
  LET Named(a) == a.name = name IN SelectSeq(nodes[n].attrs, Named)

Given(n, name) == Values(n, name) # <<>>

\* The text of getAttribute(name), or the default if there is none.
Option(n, name, default) ==
  IF Given(n, name) THEN Head(Values(n, name)).value ELSE <<default>>

\* Which attributes a runnable node needs, and the choices for two of them.
Needed(kind) ==
  CASE kind \in {"CMD", "SH", "QSH"} -> {"VALUE"}
    [] kind = "PGM" -> {"NAME", "LIB"}
    [] OTHER -> {}
Execs(kind) == IF kind = "CMD" THEN {"CMD", "SYSTEM", "REXX"} ELSE {"none"}
Errors(kind) == {"OFF", "ON"} \cup (IF kind = "CMD" THEN {"IGNORE"} ELSE {})

\* What init() makes of a node that is complete, NoRun if it is an error.
\* Program and SqlUtil have more attributes, which may be wrong as well.
InitOutcomes(n) ==
  LET kind == nodes[n].type
      exec == IF kind = "CMD" THEN Option(n, "EXEC", "CMD") ELSE <<"none">>
      error == Option(n, "ERROR", "OFF")
      well == /\ \A a \in Needed(kind) : Given(n, a)
              /\ exec \in {<<e>> : e \in Execs(kind)}
              /\ error \in {<<e>> : e \in Errors(kind)}
      obj == [kind |-> kind, exec |-> exec[1], error |-> error[1]]
  IN  CASE kind \notin RunnableKinds -> {NoRun}
        [] kind = "JOBINFO" -> {[NoRun EXCEPT !.kind = kind]}
        [] OTHER -> (IF well THEN {obj} ELSE {NoRun})
                      \cup (IF kind \in {"PGM", "SQL"} THEN {NoRun} ELSE {})

-----------------------------------------------------------------------------
(* The parser *)

input == <<text, size>>

\* The character at an address.
Char(p) == IF p <= Len(text) THEN text[p] ELSE Nul

\* The author of the messages of the parser.
Parser == <<0, 0>>

Top == Last(stack)
At(s) == verdict = "parsing" /\ Top.at = s
Goto(s) == stack' = [stack EXCEPT ![Len(stack)].at = s]

\* An error ends all active calls; parseNode deletes the tree and makes a
\* node of the messages.
ParseError(code) ==
  /\ verdict' = "error"
  /\ nodes' = <<>>
  /\ stack' = <<>>
  /\ fr' = Report(fr, code, Parser)

Reject == ParseError("PARSE_FAIL") /\ UNCHANGED <<input, pos>>

\* JNode::parse ends: initRunnable, and back to the caller.
Close(at, under) ==
  /\ pos' = at
  /\ UNCHANGED input
  /\ \E obj \in InitOutcomes(Top.node) :
       IF nodes[Top.node].type \in RunnableKinds /\ obj = NoRun
       THEN ParseError("INIT")
       ELSE /\ nodes' = [under EXCEPT ![Top.node].run = obj]
            /\ stack' = Front(stack)
            /\ verdict' = IF Len(stack) = 1 THEN "tree" ELSE "parsing"
            /\ UNCHANGED fr

\* A new node under the one on top, which goes on at s when it is parsed.
AddNode(type, s, under) ==
  LET n == Len(nodes) + 1 IN
  /\ nodes' = Append(under, NewNode(type))
  /\ stack' = Append([stack EXCEPT ![Len(stack)].at = s], Frame(n))
  /\ UNCHANGED <<input, verdict, fr>>

\* Variant: push_front.
AddChild_First ==
  AddNode("NORMAL", "afterChild",
          [nodes EXCEPT ![Top.node].kids = <<Len(nodes) + 1>> \o @])

AddChild ==
  AddNode("NORMAL", "afterChild",
          [nodes EXCEPT ![Top.node].kids = Append(@, Len(nodes) + 1)])

\* Variant: push_front.
AddArrayElement_First(elem) == [nodes EXCEPT ![Top.node].raw = <<elem>> \o @]

AddArrayElement(elem) == [nodes EXCEPT ![Top.node].raw = Append(@, elem)]

\* The last attribute of the node on top gets its value; a number is kept as
\* its text, as the value of a string is.
SetValue(value, n) ==
  LET as == nodes[Top.node].attrs IN
  [nodes EXCEPT ![Top.node].attrs =
     [as EXCEPT ![Len(as)].value = value, ![Len(as)].node = n]]

\* Variant: the last token is left out.
Find_Short(p, toks) ==
  LET hits == {k \in p .. size - 1 : text[k] \in toks}
  IN  IF hits = {} THEN 0 ELSE CHOOSE k \in hits : \A l \in hits : k <= l

\* The first place from p on where one of the tokens is, 0 if there is none.
Find(p, toks) ==
  LET hits == {k \in p .. size : text[k] \in toks}
  IN  IF hits = {} THEN 0 ELSE CHOOSE k \in hits : \A l \in hits : k <= l

TreeInit ==
  /\ \E t \in Texts, b \in Beyond : text = t \o b /\ size = Len(t)
  /\ pos = 1
  /\ nodes = <<>>
  /\ stack = <<>>
  /\ verdict = "start"
  /\ fr = Clean

\* parseNode: the conversion may fail; the first and the last character
\* decide if there is a tree at all.
ParseNode ==
  /\ verdict = "start"
  /\ UNCHANGED <<input, pos>>
  /\ \/ /\ verdict' = "null"
        /\ fr' = Report(fr, "CONVERT", Parser)
        /\ UNCHANGED <<nodes, stack>>
     \/ /\ size = 0 \/ Char(1) \notin {"{", "["}
        /\ verdict' = "null"
        /\ fr' = Report(fr, "INPUT_INVALID", Parser)
        /\ UNCHANGED <<nodes, stack>>
     \/ /\ size > 0 /\ Char(1) \in {"{", "["}
        /\ <<Char(1), Char(size)>> \notin {<<"{", "}">>, <<"[", "]">>}
        /\ ParseError("INPUT_INVALID")
     \/ /\ size > 0
        /\ <<Char(1), Char(size)>> \in {<<"{", "}">>, <<"[", "]">>}
        /\ nodes' = <<NewNode("NORMAL")>>
        /\ stack' = <<Frame(1)>>
        /\ verdict' = "parsing"
        /\ UNCHANGED fr

\* JNode::parse looks for the bracket a node begins with.
Open ==
  /\ At("value")
  /\ \/ /\ text[pos] \in {"{", "["}
        /\ Goto(IF text[pos] = "{" THEN "members" ELSE "elements")
        /\ nodes' = IF text[pos] = "{" THEN nodes
                    ELSE [nodes EXCEPT ![Top.node].type = "CONTAINER"]
        /\ pos' = pos + 1
        /\ UNCHANGED <<input, verdict, fr>>
     \/ text[pos] \notin {"{", "["} /\ Reject

\* Behind "{": an attribute or the end.
Members ==
  /\ At("members")
  /\ \/ text[pos] = "}" /\ Close(pos + 1, nodes)
     \/ /\ text[pos] \in Strings
        /\ Goto("name")
        /\ UNCHANGED <<input, pos, nodes, verdict, fr>>
     \/ text[pos] \notin {"}"} \cup Strings /\ Reject

\* JAttribute::parse: the name, which must not be empty.
Name ==
  /\ At("name")
  /\ \/ /\ text[pos] # Empty
        /\ nodes' = [nodes EXCEPT ![Top.node].attrs =
                       Append(@, [name |-> text[pos], value |-> <<>>, node |-> 0])]
        /\ pos' = pos + 1
        /\ Goto("colon")
        /\ UNCHANGED <<input, verdict, fr>>
     \/ text[pos] = Empty /\ Reject

\* Variant: it may be missing.
Colon_Optional ==
  /\ At("colon")
  /\ pos' = IF text[pos] = ":" THEN pos + 1 ELSE pos
  /\ Goto("attrValue")
  /\ UNCHANGED <<input, nodes, verdict, fr>>

Colon ==
  /\ At("colon")
  /\ \/ /\ text[pos] = ":"
        /\ pos' = pos + 1
        /\ Goto("attrValue")
        /\ UNCHANGED <<input, nodes, verdict, fr>>
     \/ text[pos] # ":" /\ Reject

\* The value of an attribute; only "{" is good for a runnable one.
AttrValue ==
  LET type == getNodeType(Last(nodes[Top.node].attrs).name)
      end == Find(pos, {",", "}"})
      onlyNode == type # "NORMAL" /\ text[pos] # "{"
  IN
  /\ At("attrValue")
  /\ \/ onlyNode /\ Reject
     \/ /\ ~ onlyNode /\ text[pos] \in Strings
        /\ nodes' = SetValue(<<text[pos]>>, 0)
        /\ pos' = pos + 1
        /\ Goto("afterAttr")
        /\ UNCHANGED <<input, verdict, fr>>
     \/ \* a number goes on up to the next comma or curly bracket
        /\ ~ onlyNode /\ text[pos] \in Numbers
        /\ \/ end = 0 /\ Reject
           \/ /\ end # 0
              /\ nodes' = SetValue(SubSeq(text, pos, end - 1), 0)
              /\ pos' = end
              /\ Goto("afterAttr")
              /\ UNCHANGED <<input, verdict, fr>>
     \/ /\ ~ onlyNode /\ text[pos] \in {"{", "["}
        /\ AddNode(type, "afterAttr", SetValue(<<>>, Len(nodes) + 1))
        /\ UNCHANGED pos
     \/ ~ onlyNode /\ text[pos] \in {"}", "]", ",", ":"} /\ Reject

\* Behind an attribute: another one or the end of the node.  Behind the end
\* of the input, the loop over the attributes ends with no error.
AfterAttr ==
  LET more == Char(pos) = "," /\ Char(pos + 1) \in Strings IN
  /\ At("afterAttr")
  /\ \/ /\ more /\ pos < size
        /\ pos' = pos + 1
        /\ Goto("name")
        /\ UNCHANGED <<input, nodes, verdict, fr>>
     \/ more /\ pos >= size /\ Close(pos + 1, nodes)
     \/ Char(pos) = "}" /\ Close(pos + 1, nodes)
     \/ ~ more /\ Char(pos) # "}" /\ Reject

\* Behind "[": what comes first decides on the kind of the array.
Elements ==
  /\ At("elements")
  /\ \/ /\ text[pos] \in Strings
        /\ Goto("strings")
        /\ UNCHANGED <<input, pos, nodes, verdict, fr>>
     \/ /\ text[pos] \in Numbers \ Minus
        /\ Goto("numbers")
        /\ UNCHANGED <<input, pos, nodes, verdict, fr>>
     \/ text[pos] = "]" /\ Close(pos + 1, nodes)
     \/ /\ text[pos] \notin Strings \cup (Numbers \ Minus) \cup {"]"}
        /\ AddChild
        /\ UNCHANGED pos

\* One string of an array and what follows it.
StringElement ==
  LET next == Char(pos + 1)
      more == next = "," /\ Char(pos + 2) \in Strings
  IN
  /\ At("strings")
  /\ \/ next = "]" /\ Close(pos + 2, AddArrayElement(<<text[pos]>>))
     \/ /\ more
        /\ nodes' = AddArrayElement(<<text[pos]>>)
        /\ pos' = pos + 2
        /\ UNCHANGED <<input, stack, verdict, fr>>
     \/ ~ more /\ next # "]" /\ Reject

\* Variant: the end of the text is not looked for.
NumberElement_Forever ==
  LET end == Find(pos + 1, {",", "]"})
      more == AddArrayElement(SubSeq(text, pos, end - 1))
  IN
  /\ At("numbers")
  /\ \/ end # 0 /\ text[end] = "]" /\ Close(end + 1, more)
     \/ /\ end # 0 /\ text[end] = ","
        /\ nodes' = more
        /\ pos' = end + 1
        /\ UNCHANGED <<input, stack, verdict, fr>>

\* One number of an array: all up to the next comma or square bracket.  What
\* follows a comma is part of the next number, whatever it is.
NumberElement ==
  LET end == Find(pos + 1, {",", "]"})
      more == AddArrayElement(SubSeq(text, pos, end - 1))
  IN
  /\ At("numbers")
  /\ \/ end = 0 /\ Reject
     \/ end # 0 /\ text[end] = "]" /\ Close(end + 1, more)
     \/ /\ end # 0 /\ text[end] = ","
        /\ nodes' = more
        /\ pos' = end + 1
        /\ UNCHANGED <<input, stack, verdict, fr>>

\* Behind a child: another one or the end of the container.  Behind the end
\* of the input, the loop over the children ends with no error.
AfterChild ==
  LET more == Char(pos) = "," /\ Char(pos + 1) \in {"{", "["} IN
  /\ At("afterChild")
  /\ \/ more /\ pos < size /\ AddChild /\ pos' = pos + 1
     \/ more /\ pos >= size /\ Close(pos, nodes)
     \/ Char(pos) = "]" /\ Close(pos + 1, nodes)
     \/ ~ more /\ Char(pos) # "]" /\ Reject

-----------------------------------------------------------------------------
(* The tree *)

\* JNode::run: a runnable node is run, and nothing inside it; of the others
\* first the nodes that are values of attributes, then the children.
RunOf(n, plan) ==
  LET attrs == nodes[n].attrs
      kids == nodes[n].kids
  IN  IF nodes[n].run # NoRun THEN <<n>>
      ELSE FlattenSeq([i \in DOMAIN attrs |->
                         IF attrs[i].node = 0 THEN <<>> ELSE plan[attrs[i].node]])
           \o FlattenSeq([i \in DOMAIN kids |-> plan[kids[i]]])

Plan ==
  LET plan[n \in DOMAIN nodes] == RunOf(n, plan)
  IN  plan[1]

\* What is written of tokens: their type tells if they go between quotes.
AsRead(toks) == [k \in DOMAIN toks |-> [tok |-> toks[k], quoted |-> toks[k] \in Strings]]
AsString(toks) == [k \in DOMAIN toks |-> [tok |-> toks[k], quoted |-> TRUE]]

Joined(parts, comma) ==
  FlattenSeq([i \in DOMAIN parts |-> IF i = 1 THEN parts[i] ELSE comma \o parts[i]])

\* JNode::output and JAttribute::output of a node that was not run.  An
\* element of an array is written as it was read.  Any other value is a
\* string: the type of an attribute is STRING from its constructor, and
\* parse never makes it NUMBER.
OutputOf(n, out) ==
  LET attrs == nodes[n].attrs
      kids == nodes[n].kids
      members == [i \in DOMAIN attrs |->
                    AsRead(<<attrs[i].name, ":">>)
                      \o (IF attrs[i].node = 0 THEN AsString(attrs[i].value) ELSE out[attrs[i].node])]
      children == [i \in DOMAIN kids |-> out[kids[i]]]
      elements == [i \in DOMAIN nodes[n].raw |-> AsRead(nodes[n].raw[i])]
  IN  IF nodes[n].type = "CONTAINER"
      THEN AsRead(<<"[">>)
             \o Joined(IF children = <<>> THEN elements ELSE children, AsRead(<<",">>))
             \o AsRead(<<"]">>)
      ELSE AsRead(<<"{">>) \o Joined(members, AsRead(<<",">>)) \o AsRead(<<"}">>)

Output ==
  LET out[n \in DOMAIN nodes] == OutputOf(n, out)
  IN  out[1]

-----------------------------------------------------------------------------
TreeNext ==
  \/ ParseNode \/ Open \/ Members \/ Name \/ Colon \/ AttrValue \/ AfterAttr
  \/ Elements \/ StringElement \/ NumberElement \/ AfterChild

TreeSpec == TreeInit /\ [][TreeNext]_<<treeVars, fr>>
=============================================================================
